-------------------------- MODULE FsdpHooksProofs --------------------------
(***************************************************************************)
(* What the all-gather pipeline guarantees to every client (ClientSpec),   *)
(* for every number of buckets, layout of units and groups, and prefetch   *)
(* limit; and what the module hooks guarantee for every model, layout of   *)
(* buckets, prefetch limit and way of training: they keep to the contract  *)
(* of PipelineClient, every computation finds its weights gathered and, if *)
(* the ways of training are synchronised, those of the last step, and no   *)
(* unit stays gathered between passes unless it is marked for release.     *)
(* In a chain of units the prefetch limit keeps two units in memory, or    *)
(* those that are recomputed together, and the double buffer serves them.  *)
(***************************************************************************)
EXTENDS FsdpHooks, FoldProofs

----------------------------------------------------------------------------
(* The pipeline and its clients.                                           *)

\* The safety invariants of PipelineClient are inductive together: residency of
\* what is held needs no more than that events and storage follow the status.
IInv == TypeOK /\ EventIffCommunicating /\ StorageIffNotEmpty /\ HeldResident

\* Every (bucket, pass) pair names a key.
LEMMA KeysTyped ==
  ASSUME NEW req \in SUBSET Bucket, NEW backward \in BOOLEAN
  PROVE  Keys(req, backward) \subseteq Key
BY DEF Keys, Key

\* Initially everything is empty and nothing is held.
LEMMA InitIInv == ClientInit => IInv
<1> SUFFICES ASSUME ClientInit PROVE IInv
  OBVIOUS
<1> USE DEF ClientInit, PipelineInit
<1>1. TypeOK
  BY DEF TypeOK, Status, NoData, Errors
<1>2. EventIffCommunicating /\ StorageIffNotEmpty /\ HeldResident
  BY DEF EventIffCommunicating, StorageIffNotEmpty, HeldResident, NoData
<1> QED
  BY <1>1, <1>2 DEF IInv

\* A failing call changes nothing but "raised".
LEMMA FailIInv ==
  ASSUME IInv, NEW error \in Errors, Fail(error), held' = held
  PROVE  IInv'
BY DEF IInv, TypeOK, EventIffCommunicating, StorageIffNotEmpty, HeldResident, Fail

\* Launching empty keys and recycling flagged ones preserves the invariant as
\* long as no held key is flagged and every new one is resident afterwards.
LEMMA LaunchIInv ==
  ASSUME IInv, NEW launched \in SUBSET Key, NEW flagged \in SUBSET Key,
         NEW new \in SUBSET Key,
         \A k \in launched : bucket_status[k] = "EMPTY",
         \A k \in new : k \in launched \/ bucket_status[k] # "EMPTY",
         flagged \cap (held \cup new) = {},
         Launch(launched, flagged), raised = "none",
         held' = IF raised' = "none" THEN held \cup new ELSE held
  PROVE  IInv'
<1>1. CASE Launch(launched, flagged) /\ raised' # "none"
  <2>1. Fail("AssertionError") /\ held' = held
    BY <1>1 DEF Launch
  <2> QED
    BY <2>1, FailIInv DEF Errors
<1>2. CASE raised' = "none"
  <2>1. /\ bucket_status' = [k \in Key |-> IF k \in launched THEN "COMMUNICATING"
                                           ELSE IF k \in flagged THEN "EMPTY"
                                           ELSE bucket_status[k]]
        /\ contents' = [k \in Key |-> IF k \in launched THEN shard_version
                                      ELSE IF k \in flagged THEN NoData
                                      ELSE contents[k]]
        /\ param_gather_event_map' = (param_gather_event_map \ flagged) \cup launched
        /\ bucket_can_be_released' = [k \in Key |-> FALSE]
        /\ UNCHANGED <<shard_version, raised>>
        /\ held' = held \cup new
    BY <1>2 DEF Launch, Fail
  <2>2. TypeOK'
    BY <2>1 DEF IInv, TypeOK, Status
  <2>3. EventIffCommunicating'
    BY <2>1 DEF IInv, TypeOK, EventIffCommunicating, Status
  <2>4. StorageIffNotEmpty'
    BY <2>1 DEF IInv, TypeOK, StorageIffNotEmpty, NoData
  <2>5. HeldResident'
    BY <2>1 DEF IInv, TypeOK, HeldResident
  <2> QED
    BY <2>2, <2>3, <2>4, <2>5 DEF IInv
<1> QED
  BY <1>1, <1>2

\* all_gather_params: unflags what is asked for, then launches what is empty.
LEMMA GatherIInv ==
  ASSUME IInv, raised = "none", NEW req \in SUBSET Bucket, NEW prefetch \in BOOLEAN,
         NEW order \in Order, NEW backward \in BOOLEAN, Gather(req, prefetch, order, backward)
  PROVE  IInv'
<1> DEFINE requested == Keys(req, backward)
           launched  == Launchable(req \cup IF prefetch THEN Prefetched(req, order) ELSE {},
                                   backward)
           flagged   == Flagged(requested)
<1>1. CASE req = {}
  BY <1>1 DEF Gather, AllGatherParams, pipelineVars, Keys, IInv, TypeOK,
              EventIffCommunicating, StorageIffNotEmpty, HeldResident
<1>2. CASE raised' = "ValueError" /\ Fail("ValueError")
  BY <1>2, FailIInv DEF Errors, Gather
<1>3. CASE req # {} /\ ~Fail("ValueError") /\ launched = {}
  <2>1. /\ bucket_can_be_released' =
              [k \in Key |-> k \notin requested /\ bucket_can_be_released[k]]
        /\ UNCHANGED <<bucket_status, param_gather_event_map, contents,
                       shard_version, raised>>
    BY <1>3 DEF Gather, AllGatherParams, Keys
  <2>2. held' = held \cup requested
    BY <2>1, raised = "none" DEF Gather
  <2>3. \A k \in requested : k \in Key /\ bucket_status[k] # "EMPTY"
    BY <1>3, KeysTyped DEF Keys, Launchable
  <2> QED
    BY <2>1, <2>2, <2>3 DEF IInv, TypeOK, EventIffCommunicating, StorageIffNotEmpty,
                            HeldResident
<1>4. CASE req # {} /\ ~Fail("ValueError") /\ launched # {}
  <2>1. Launch(launched, flagged)
    BY <1>4 DEF Gather, AllGatherParams, Keys
  <2>2. \A k \in requested : k \in Key /\ (k \in launched \/ bucket_status[k] # "EMPTY")
    BY KeysTyped DEF Keys, Launchable
  <2>3. flagged \cap (held \cup requested) = {}
    BY DEF IInv, HeldResident, Flagged
  <2>4. held' = IF raised' = "none" THEN held \cup requested ELSE held
    BY DEF Gather
  <2> HIDE DEF launched, flagged, requested
  <2>5. /\ launched \in SUBSET Key /\ flagged \in SUBSET Key /\ requested \in SUBSET Key
        /\ \A k \in launched : bucket_status[k] = "EMPTY"
    BY <2>2 DEF launched, flagged, Launchable, Flagged
  <2> QED
    BY <2>1, <2>2, <2>3, <2>4, <2>5, LaunchIInv
<1> QED
  BY <1>1, <1>2, <1>3, <1>4 DEF Fail

\* wait_bucket_ready: what is waited for becomes ready and loses its event.
LEMMA WaitIInv ==
  ASSUME IInv, NEW req \in SUBSET Bucket, NEW backward \in BOOLEAN,
         Keys(req, backward) \subseteq held, Wait(req, backward)
  PROVE  IInv'
<1>1. Keys(req, backward) \subseteq held /\ Keys(req, backward) \subseteq Key
  BY KeysTyped DEF Wait
<1>2. \A k \in Keys(req, backward) : bucket_status[k] # "EMPTY"
  BY <1>1 DEF IInv, HeldResident
<1>3. /\ bucket_status' = [k \in Key |-> IF k \in Keys(req, backward) THEN "READY_TO_USE"
                                         ELSE bucket_status[k]]
      /\ param_gather_event_map' = param_gather_event_map \ Keys(req, backward)
      /\ UNCHANGED <<bucket_can_be_released, contents, shard_version, raised, held>>
  BY <1>2 DEF Wait, WaitBucketsReady, Keys
<1> QED
  BY <1>1, <1>2, <1>3 DEF IInv, TypeOK, Status, EventIffCommunicating,
                          StorageIffNotEmpty, HeldResident

\* Freeing keys that are no longer held preserves the invariant.
LEMMA FreeIInv ==
  ASSUME IInv, NEW keys, Free(keys), held' \subseteq held \ keys,
         bucket_can_be_released' \in [Key -> BOOLEAN],
         \A k \in held' : ~bucket_can_be_released'[k],
         UNCHANGED <<shard_version, raised>>
  PROVE  IInv'
<1> USE DEF IInv, Free
<1>1. TypeOK'
  BY DEF TypeOK, Status
<1>2. EventIffCommunicating'
  BY DEF TypeOK, EventIffCommunicating
<1>3. StorageIffNotEmpty' /\ HeldResident'
  BY DEF TypeOK, StorageIffNotEmpty, HeldResident
<1> QED
  BY <1>1, <1>2, <1>3

\* Marking keys that are no longer held preserves the invariant.
LEMMA MarkIInv ==
  ASSUME IInv, bucket_can_be_released' \in [Key -> BOOLEAN],
         held' \subseteq held, \A k \in held' : ~bucket_can_be_released'[k],
         UNCHANGED <<bucket_status, param_gather_event_map, contents, shard_version, raised>>
  PROVE  IInv'
BY DEF IInv, TypeOK, EventIffCommunicating, StorageIffNotEmpty, HeldResident

\* Every call preserves the invariant.
LEMMA NextIInv == IInv /\ [ClientNext]_clientVars => IInv'
<1> SUFFICES ASSUME IInv, [ClientNext]_clientVars PROVE IInv'
  OBVIOUS
<1>1. CASE UNCHANGED clientVars
  BY <1>1 DEF clientVars, pipelineVars, IInv, TypeOK, EventIffCommunicating,
              StorageIffNotEmpty, HeldResident
<1>2. ASSUME NEW req \in SUBSET Bucket, NEW backward \in BOOLEAN, raised = "none",
             NEW prefetch \in BOOLEAN, NEW order \in Order,
             Gather(req, prefetch, order, backward)
      PROVE  IInv'
  BY <1>2, GatherIInv
<1>3. ASSUME NEW req \in SUBSET Bucket, NEW backward \in BOOLEAN,
         Keys(req, backward) \subseteq held, Wait(req, backward)
      PROVE  IInv'
  BY <1>3, WaitIInv
<1>4. ASSUME NEW req \in SUBSET Bucket, NEW backward \in BOOLEAN, Release(req, backward)
      PROVE  IInv'
  <2>1. bucket_can_be_released' = bucket_can_be_released /\ held' = held \ Keys(req, backward)
    BY <1>4 DEF Release, ReleaseBuckets
  <2> QED
    BY <1>4, <2>1, FreeIInv DEF Release, ReleaseBuckets, Keys, IInv, TypeOK, HeldResident
<1>5. ASSUME NEW req \in SUBSET Bucket, NEW backward \in BOOLEAN, ReleaseLazily(req, backward)
      PROVE  IInv'
  BY <1>5, MarkIInv DEF ReleaseLazily, MarkReleasable, Keys, IInv, TypeOK, HeldResident
<1>6. CASE ReleaseUnits
  BY <1>6, MarkIInv DEF ReleaseUnits, MarkUnitsReleasable, UnitBuckets, Keys, IInv, TypeOK,
                        HeldResident
<1>7. CASE ResetAll
  BY <1>7, FreeIInv DEF ResetAll, Reset, IInv
<1>8. CASE GatherAll
  <2>1. CASE Fail("AssertionError")
    BY <1>8, <2>1, FailIInv DEF GatherAll, Fail, Errors
  <2>2. CASE ~Fail("AssertionError")
    <3> DEFINE keys == Keys(Bucket, FALSE)
    <3>1. keys \subseteq Key
      BY KeysTyped
    <3>2. /\ bucket_status' = [k \in Key |-> IF k \in keys THEN "READY_TO_USE"
                                             ELSE bucket_status[k]]
          /\ contents' = [k \in Key |-> IF k \in {j \in keys : bucket_status[j] = "EMPTY"}
                                        THEN shard_version ELSE contents[k]]
          /\ param_gather_event_map' = param_gather_event_map \ keys
          /\ UNCHANGED <<bucket_can_be_released, shard_version, raised>>
          /\ \A k \in Key : ~bucket_can_be_released[k]
      BY <1>8, <2>2 DEF GatherAll, GatherEverything, Keys
    <3>3. held' \subseteq held \cup keys
      BY <1>8 DEF GatherAll
    <3> HIDE DEF keys
    <3>4. TypeOK' /\ EventIffCommunicating'
      BY <3>1, <3>2, <3>3 DEF IInv, TypeOK, EventIffCommunicating, Status
    <3>5. StorageIffNotEmpty' /\ HeldResident'
      BY <3>1, <3>2, <3>3 DEF IInv, TypeOK, StorageIffNotEmpty, HeldResident, NoData
    <3> QED
      BY <3>4, <3>5 DEF IInv
  <2> QED
    BY <2>1, <2>2
<1>9. CASE Install
  BY <1>9 DEF Install, InstallWeights, IInv, TypeOK, EventIffCommunicating,
              StorageIffNotEmpty, HeldResident
<1> QED
  BY <1>1, <1>2, <1>3, <1>4, <1>5, <1>6, <1>7, <1>8, <1>9 DEF ClientNext

\* The strengthened invariant holds in every reachable state.
THEOREM Invariance == ClientSpec => []IInv
BY InitIInv, NextIInv, PTL DEF ClientSpec

\* The pipeline's tables keep their types.
THEOREM TypeCorrect == ClientSpec => []TypeOK
BY Invariance, PTL DEF IInv

\* In every reachable state the event map records exactly the gathers in flight.
THEOREM EventsMatchStatus == ClientSpec => []EventIffCommunicating
BY Invariance, PTL DEF IInv

\* In every reachable state exactly the non-empty buckets have storage.
THEOREM StorageMatchesStatus == ClientSpec => []StorageIffNotEmpty
BY Invariance, PTL DEF IInv

\* No interleaving of gathers, prefetches, lazy releases and recycling takes a
\* bucket away from the client that holds it.
THEOREM HeldStaysResident == ClientSpec => []HeldResident
BY Invariance, PTL DEF IInv

\* A step that launches gathers does so only into empty buckets.
LEMMA GatherKeepsContents ==
  ASSUME IInv, NEW req \in SUBSET Bucket, NEW prefetch \in BOOLEAN,
         NEW order \in Order, NEW backward \in BOOLEAN,
         AllGatherParams(req, prefetch, order, backward),
         NEW k \in Key, bucket_status[k] # "EMPTY", bucket_status'[k] # "EMPTY"
  PROVE  contents'[k] = contents[k]
<1> DEFINE launched == Launchable(req \cup IF prefetch THEN Prefetched(req, order) ELSE {},
                                  backward)
           flagged  == Flagged({KeyOf(b, backward) : b \in req})
<1>1. CASE UNCHANGED contents
  BY <1>1
<1>2. CASE Launch(launched, flagged)
  <2>1. k \notin launched
    BY DEF Launchable
  <2> HIDE DEF launched, flagged
  <2> QED
    BY <1>2, <2>1 DEF Launch, Fail
<1> QED
  BY <1>1, <1>2 DEF AllGatherParams, Fail, pipelineVars

LEMMA StepNoOverwrite ==
  ASSUME IInv, [ClientNext]_clientVars,
         NEW k \in Key, bucket_status[k] # "EMPTY", bucket_status'[k] # "EMPTY"
  PROVE  contents'[k] = contents[k]
<1>1. CASE UNCHANGED contents
  BY <1>1
<1>2. ASSUME NEW req \in SUBSET Bucket, NEW backward \in BOOLEAN,
             NEW prefetch \in BOOLEAN, NEW order \in Order,
             Gather(req, prefetch, order, backward)
      PROVE  contents'[k] = contents[k]
  BY <1>2, GatherKeepsContents DEF Gather
<1>3. ASSUME NEW keys, Free(keys) PROVE contents'[k] = contents[k]
  BY <1>3 DEF Free
<1>4. CASE GatherAll
  BY <1>4 DEF GatherAll, GatherEverything, Fail
<1> QED
  BY <1>1, <1>2, <1>3, <1>4
     DEF ClientNext, clientVars, pipelineVars, Wait, WaitBucketsReady, Fail, Release,
         ReleaseBuckets, ReleaseLazily, MarkReleasable, ReleaseUnits, MarkUnitsReleasable,
         ResetAll, Reset, Install, InstallWeights

\* No step replaces the contents of a resident bucket: whoever computes with it
\* never sees its weights change.
THEOREM ResidentKeepsContents == ClientSpec => NoOverwrite
<1>1. IInv /\ [ClientNext]_clientVars
        => [\A k \in Key : bucket_status[k] # "EMPTY" /\ bucket_status'[k] # "EMPTY"
                             => contents'[k] = contents[k]]_clientVars
  BY StepNoOverwrite
<1> QED
  BY <1>1, Invariance, PTL DEF ClientSpec, NoOverwrite

----------------------------------------------------------------------------
(* The hooks.                                                              *)

\* No unit shares a parameter with another module.
UnitsDisjoint ==
  \A m, n \in Module : m # n /\ IsUnit[m] => ModuleBuckets[m] \cap ModuleBuckets[n] = {}

\* With auto-synchronisation one forward pass is in flight at a time, ...
OnePassWhenAutoSync == \A s \in Setups : s.auto_sync => s.outstanding = 1
\* ... and no pass without a backward pass comes before the optimizer step.
NoEvalWhenAutoSync == \A s \in Setups : s.auto_sync => ~s.eval

----------------------------------------------------------------------------
(* The invariant.                                                          *)

\* The types of the hooks' own state.
HookTypes ==
  /\ setup \in Setups
  /\ training_state \in [Module -> TrainingState]
  /\ fwd \in [mod : Module \cup {0}, last : Module \cup {0},
              stage : {"none", "pre", "wait", "run"}, grad : BOOLEAN]
  /\ bwd \in [mod : Module \cup {0}, recomputed : BOOLEAN,
              stage : {"none", "pre", "wait", "run", "release", "root"}]
  /\ graphs \in 0 .. setup.outstanding
  /\ pending \in {"none", "step", "install", "gather"}

\* A forward pass inside a backward pass recomputes up to the module whose
\* backward is under way; the training loop acts between passes.
Control ==
  /\ InForward <=> fwd.stage # "none"
  /\ InBackward <=> bwd.stage # "none"
  /\ ~InForward => ~fwd.grad
  /\ InForward => fwd.last \in Module /\ fwd.mod <= fwd.last
  /\ InForward /\ InBackward => /\ fwd.last = bwd.mod /\ bwd.recomputed /\ ~fwd.grad
                                /\ bwd.stage \in {"pre", "run"}
  /\ InForward /\ ~InBackward => fwd.last = NumModules /\ (fwd.grad \/ setup.eval)
  /\ InBackward => graphs > 0
  /\ bwd.stage = "release" => IsUnit[bwd.mod]
  /\ fwd.grad => graphs < setup.outstanding
  /\ pending \in {"install", "gather"} => Idle /\ graphs = 0

\* The modules whose backward is still to run are marked for recomputation.
MarkedForBackward ==
  bwd.stage \in {"pre", "wait", "run", "release"} =>
    \A m \in 1 .. bwd.mod : training_state[m] = "PRE_BACKWARD"

Holds(m, dir) == Keys(ModuleBuckets[m], dir) \subseteq held
Ready(m, dir) == \A k \in Keys(ModuleBuckets[m], dir) : bucket_status[k] = "READY_TO_USE"

\* What a pass waits for is held.
WaitsHeld ==
  raised = "none" => /\ fwd.stage = "wait" => Holds(fwd.mod, FALSE)
                     /\ bwd.stage = "wait" => Holds(bwd.mod, TRUE)

\* What the forward pass computes with is held and ready.
ForwardKept == fwd.stage = "run" => Ready(fwd.mod, FALSE) /\ Holds(fwd.mod, FALSE)

\* So is what the backward pass of a unit computes with, but it loses its hold
\* to the lazy release at the end of its own recomputation, after which nothing
\* is gathered until it is done.
BackwardKept ==
  bwd.stage = "run" /\ IsUnit[bwd.mod] =>
    /\ Ready(bwd.mod, TRUE)
    /\ InForward \/ ~bwd.recomputed => Holds(bwd.mod, TRUE)

\* Modules that are no units stay gathered from their forward on until the last
\* backward pass that may read them.
Visited(m) == \/ graphs > 0
              \/ fwd.grad /\ (m < fwd.mod \/ (m = fwd.mod /\ fwd.stage = "run"))
NonUnitsKept ==
  \A m \in Module : ~IsUnit[m] /\ Visited(m) => Ready(m, FALSE) /\ Holds(m, FALSE)

Kept == ForwardKept /\ BackwardKept /\ NonUnitsKept

\* Nothing is gathered when the optimizer's weights are installed, and so
\* whatever is gathered has the weights of the last step.
AllEmpty == \A k \in Key : bucket_status[k] = "EMPTY"
Fresh ==
  /\ \A k \in Key : bucket_status[k] # "EMPTY" => contents[k] = shard_version
  /\ pending = "install" => AllEmpty
  /\ setup.auto_sync /\ pending = "step" /\ Idle /\ graphs = 0 => AllEmpty

----------------------------------------------------------------------------
(* What each call of the pipeline does to what is held and ready.          *)

\* What stays held through a call stays ready.
LEMMA ReadyStays ==
  ASSUME IInv, [ClientNext]_clientVars,
         NEW k \in Key, k \in held, k \in held', bucket_status[k] = "READY_TO_USE"
  PROVE  bucket_status'[k] = "READY_TO_USE"
<1>1. bucket_status'[k] # "EMPTY"
  BY NextIInv DEF IInv, HeldResident
<1>2. CASE UNCHANGED bucket_status
  BY <1>2
<1>3. ASSUME NEW launched, NEW flagged, Launch(launched, flagged), k \notin launched
      PROVE  bucket_status'[k] = "READY_TO_USE"
  BY <1>1, <1>3 DEF Launch, Fail
<1>4. ASSUME NEW req \in SUBSET Bucket, NEW dir \in BOOLEAN,
             NEW prefetch \in BOOLEAN, NEW order \in Order, Gather(req, prefetch, order, dir)
      PROVE  bucket_status'[k] = "READY_TO_USE"
  <2> DEFINE launched == Launchable(req \cup IF prefetch THEN Prefetched(req, order) ELSE {}, dir)
             flagged  == Flagged({KeyOf(b, dir) : b \in req})
  <2>1. k \notin launched
    BY DEF Launchable
  <2>2. Launch(launched, flagged) \/ UNCHANGED bucket_status
    BY <1>4 DEF Gather, AllGatherParams, Fail, pipelineVars
  <2> HIDE DEF launched, flagged
  <2> QED
    BY <1>2, <1>3, <2>1, <2>2
<1>5. ASSUME NEW keys, Free(keys) PROVE bucket_status'[k] = "READY_TO_USE"
  BY <1>1, <1>5 DEF Free
<1>6. CASE GatherAll
  BY <1>6 DEF GatherAll, GatherEverything, Fail
<1>7. ASSUME NEW req \in SUBSET Bucket, NEW dir \in BOOLEAN, Wait(req, dir)
      PROVE  bucket_status'[k] = "READY_TO_USE"
  BY <1>7 DEF Wait, WaitBucketsReady, Fail
<1> QED
  BY <1>2, <1>4, <1>5, <1>6, <1>7
     DEF ClientNext, clientVars, pipelineVars, Release, ReleaseBuckets, ReleaseLazily,
         MarkReleasable, ReleaseUnits, MarkUnitsReleasable, ResetAll, Reset, Install,
         InstallWeights

\* A gather keeps what is held, and holds what it names unless it raises.
LEMMA GatherKeeps ==
  ASSUME raised = "none", IInv, NEW req \in SUBSET Bucket, NEW prefetch \in BOOLEAN,
         NEW order \in Order, NEW dir \in BOOLEAN, Gather(req, prefetch, order, dir)
  PROVE  /\ ClientNext
         /\ held \subseteq held'
         /\ raised' = "none" => Keys(req, dir) \subseteq held'
         /\ \A k \in held : bucket_status[k] = "READY_TO_USE" => bucket_status'[k] = "READY_TO_USE"
<1>1. ClientNext
  BY DEF ClientNext
<1>2. /\ held \subseteq held'
      /\ raised' = "none" => Keys(req, dir) \subseteq held'
  BY DEF Gather
<1> QED
  BY <1>1, <1>2, ReadyStays DEF IInv, TypeOK

\* Waiting for what is held never raises, and makes it ready.
LEMMA WaitKeeps ==
  ASSUME raised = "none", IInv, NEW req \in SUBSET Bucket, NEW dir \in BOOLEAN,
         Keys(req, dir) \subseteq held, Wait(req, dir)
  PROVE  /\ ClientNext
         /\ held' = held
         /\ raised' = "none"
         /\ \A k \in Keys(req, dir) : bucket_status'[k] = "READY_TO_USE"
         /\ \A k \in held : bucket_status[k] = "READY_TO_USE" => bucket_status'[k] = "READY_TO_USE"
<1>1. ClientNext /\ held' = held
  BY DEF ClientNext, Wait
<1>2. /\ bucket_status' = [k \in Key |-> IF k \in Keys(req, dir) THEN "READY_TO_USE"
                                         ELSE bucket_status[k]]
      /\ raised' = raised
  BY KeysTyped DEF Wait, WaitBucketsReady, IInv, HeldResident, Keys
<1> QED
  BY <1>1, <1>2, KeysTyped DEF IInv, TypeOK

\* A release gives up its own buckets only; a lazy one changes no status.
LEMMA ReleaseKeeps ==
  ASSUME raised = "none", IInv, NEW req \in SUBSET Bucket, NEW dir \in BOOLEAN,
         Release(req, dir) \/ ReleaseLazily(req, dir)
  PROVE  /\ ClientNext
         /\ held' = held \ Keys(req, dir)
         /\ raised' = "none"
         /\ ReleaseLazily(req, dir) => bucket_status' = bucket_status
         /\ \A k \in held \ Keys(req, dir) :
              bucket_status[k] = "READY_TO_USE" => bucket_status'[k] = "READY_TO_USE"
<1>1. ClientNext
  BY DEF ClientNext
<1>2. /\ held' = held \ Keys(req, dir) /\ raised' = "none"
      /\ ReleaseLazily(req, dir) => bucket_status' = bucket_status
  BY DEF Release, ReleaseBuckets, ReleaseLazily, MarkReleasable
<1> QED
  BY <1>1, <1>2, ReadyStays DEF IInv, TypeOK

----------------------------------------------------------------------------
(* Buckets of different modules.                                           *)

LEMMA ModulesTyped == ASSUME NEW m \in Module PROVE ModuleBuckets[m] \in SUBSET Bucket
BY HooksAssumption

\* A unit's keys are no other module's keys.
LEMMA UnitKeysApart ==
  ASSUME UnitsDisjoint, NEW m \in Module, NEW n \in Module, m # n, IsUnit[m],
         NEW d \in BOOLEAN, NEW e \in BOOLEAN
  PROVE  Keys(ModuleBuckets[m], d) \cap Keys(ModuleBuckets[n], e) = {}
BY DEF UnitsDisjoint, Keys, KeyOf

\* The end of a forward pass of the units leaves the other modules' keys alone.
LEMMA NonUnitKeysApart ==
  ASSUME NEW m \in Module, ~IsUnit[m], NEW d \in BOOLEAN, NEW e \in BOOLEAN
  PROVE  Keys(ModuleBuckets[m], d) \cap Keys(UnitBuckets, e) = {}
BY HooksAssumption DEF UnitBuckets, Keys, KeyOf

\* A recomputed stretch begins no later than the module it is recomputed for.
LEMMA StretchBegins ==
  ASSUME NEW s \in Setups, NEW m \in Module, s.checkpoint[m] # {}
  PROVE  Min(s.checkpoint[m]) \in Module /\ Min(s.checkpoint[m]) <= m
<1>1. ValidSetup(s)
  BY HooksAssumption
<1>2. m \in s.checkpoint[m] /\ s.checkpoint[m] \in SUBSET Module
  BY <1>1 DEF ValidSetup
<1>3. PICK lo \in Module, hi \in Module : s.checkpoint[m] = lo .. hi
  BY <1>1 DEF ValidSetup
<1>4. lo \in s.checkpoint[m] /\ \A x \in s.checkpoint[m] : lo <= x
  BY <1>2, <1>3 DEF Module
<1>5. \A x \in s.checkpoint[m] : (\A y \in s.checkpoint[m] : x <= y) => x = lo
  BY <1>2, <1>4 DEF Module
<1>6. Min(s.checkpoint[m]) = lo
  BY <1>4, <1>5 DEF Min
<1> QED
  BY <1>2, <1>4, <1>6

----------------------------------------------------------------------------
(* The order of the passes.                                                *)

ControlInv == HookTypes /\ Control /\ MarkedForBackward

\* Before the first pass the hooks are at rest.
LEMMA InitControl == Init => ControlInv
BY HooksAssumption
   DEF Init, ControlInv, HookTypes, Control, MarkedForBackward, NotRunning, NoBackward, Idle,
       InForward, InBackward, TrainingState, ValidSetup

\* A step of the forward pass, or of the forward pass within a recomputation.
LEMMA ForwardControl ==
  ASSUME ControlInv, setup' = setup,
         PreForward \/ PreForwardWait \/ PostForward \/ StopRecompute
  PROVE  ControlInv'
<1> USE DEF ControlInv, HookTypes, Control, MarkedForBackward, InForward, InBackward, Idle, Module
<1>0. setup \in Setups /\ NumModules \in Nat \ {0}
  BY HooksAssumption
<1>1. CASE PreForward
  BY <1>0, <1>1 DEF PreForward, TrainingState
<1>2. CASE PreForwardWait
  BY <1>0, <1>2 DEF PreForwardWait
<1>3. CASE StopRecompute
  BY <1>0, <1>3 DEF StopRecompute, NotRunning
<1>4. CASE PostForward
  <2>1. /\ fwd.stage = "run" /\ UNCHANGED <<bwd, pending>> /\ NextForward
        /\ training_state' = training_state
           \/ /\ training_state[fwd.mod] # "PRE_BACKWARD"
              /\ training_state' = [training_state EXCEPT ![fwd.mod] = "IDLE"]
    BY <1>4 DEF PostForward
  <2>2. fwd.mod \in Module /\ fwd.last \in Module /\ fwd.mod <= fwd.last
    BY <1>0, <2>1
  <2>3. training_state' \in [Module -> TrainingState]
    BY <1>0, <2>1 DEF TrainingState
  <2>4. InBackward => training_state' = training_state
    BY <1>0, <2>1, <2>2
  <2>5. CASE fwd.mod = fwd.last
    <3>1. fwd' = NotRunning /\ graphs' = IF fwd.grad THEN graphs + 1 ELSE graphs
      BY <2>1, <2>5 DEF NextForward
    <3>2. fwd'.mod = 0 /\ fwd'.stage = "none" /\ fwd'.grad = FALSE
      BY <3>1 DEF NotRunning
    <3>3. fwd.grad => graphs + 1 \in 0 .. setup.outstanding
      <4>1. setup.outstanding \in Nat
        BY <1>0, HooksAssumption DEF ValidSetup
      <4> QED
        BY <4>1
    <3>4. HookTypes'
      <4>1. fwd' \in [mod : Module \cup {0}, last : Module \cup {0},
                      stage : {"none", "pre", "wait", "run"}, grad : BOOLEAN]
        BY <3>1 DEF NotRunning
      <4>2. graphs' \in 0 .. setup.outstanding
        BY <3>1, <3>3
      <4> QED
        BY <1>0, <2>1, <2>3, <4>1, <4>2
    <3>5. MarkedForBackward'
      BY <2>1, <2>4
    <3>6. Control'
      BY <1>0, <2>1, <2>2, <3>1, <3>2
    <3> QED
      BY <3>4, <3>5, <3>6
  <2>6. CASE fwd.mod # fwd.last
    <3>1. fwd' = [fwd EXCEPT !.mod = fwd.mod + 1, !.stage = "pre"] /\ graphs' = graphs
      BY <2>1, <2>6 DEF NextForward
    <3>2. /\ fwd.mod + 1 \in Module /\ fwd.mod + 1 <= fwd.last
          /\ fwd'.mod = fwd.mod + 1 /\ fwd'.stage = "pre"
          /\ fwd'.last = fwd.last /\ fwd'.grad = fwd.grad
      BY <1>0, <2>2, <2>6, <3>1
    <3>3. HookTypes'
      BY <1>0, <2>1, <2>3, <3>1, <3>2
    <3> QED
      BY <1>0, <2>1, <2>2, <2>4, <3>1, <3>2, <3>3
  <2> QED
    BY <2>5, <2>6
<1> QED
  BY <1>1, <1>2, <1>3, <1>4

\* A step of the backward pass.
LEMMA BackwardControl ==
  ASSUME ControlInv, setup' = setup,
         \/ Recompute \/ PreBackward \/ PreBackwardWait \/ PostBackward
         \/ PostBackwardRelease \/ RootPostBackward
  PROVE  ControlInv'
<1> USE DEF ControlInv, HookTypes, Control, MarkedForBackward, InForward, InBackward, Idle, Module
<1>0. setup \in Setups /\ NumModules \in Nat \ {0}
  BY HooksAssumption
<1>1. CASE Recompute
  <2>1. InBackward /\ ~InForward /\ bwd.stage \in {"pre", "run"} /\ setup.checkpoint[bwd.mod] # {}
    BY <1>1 DEF Recompute, NeedsRecompute
  <2>2. Min(setup.checkpoint[bwd.mod]) \in Module /\ Min(setup.checkpoint[bwd.mod]) <= bwd.mod
    BY <1>0, <2>1, StretchBegins
  <2>3. /\ fwd' = [mod |-> Min(setup.checkpoint[bwd.mod]), last |-> bwd.mod, stage |-> "pre",
                   grad |-> FALSE]
        /\ bwd' = [bwd EXCEPT !.recomputed = TRUE]
        /\ UNCHANGED <<training_state, graphs, pending>>
    BY <1>1 DEF Recompute
  <2>4. bwd'.mod = bwd.mod /\ bwd'.stage = bwd.stage /\ bwd'.recomputed
    BY <2>3
  <2>5. HookTypes'
    BY <1>0, <2>1, <2>2, <2>3
  <2>6. Control'
    BY <1>0, <2>1, <2>2, <2>3, <2>4
  <2> QED
    BY <2>1, <2>3, <2>4, <2>5, <2>6
<1>2. CASE PreBackward
  <2>1. /\ bwd.stage = "pre" /\ ~InForward /\ UNCHANGED <<fwd, graphs, pending>>
        /\ \/ bwd' = [bwd EXCEPT !.stage = "wait"] \/ bwd' = [bwd EXCEPT !.stage = "run"]
        /\ \/ training_state' = training_state
           \/ training_state' = [training_state EXCEPT ![bwd.mod] = "PRE_BACKWARD"]
    BY <1>2 DEF PreBackward
  <2>2. bwd'.mod = bwd.mod /\ bwd'.stage \in {"wait", "run"} /\ bwd'.recomputed = bwd.recomputed
    BY <2>1
  <2>3. HookTypes'
    BY <1>0, <2>1 DEF TrainingState
  <2>4. Control'
    BY <1>0, <2>1, <2>2
  <2>5. MarkedForBackward'
    BY <1>0, <2>1, <2>2
  <2> QED
    BY <2>3, <2>4, <2>5
<1>3. CASE PreBackwardWait
  BY <1>0, <1>3 DEF PreBackwardWait
<1>4. ASSUME NextBackward, ~InForward, bwd.stage \in {"run", "release"},
             UNCHANGED <<fwd, graphs, pending>>,
             training_state' \in [Module -> TrainingState],
             \A m \in 1 .. bwd.mod - 1 : training_state'[m] = training_state[m]
      PROVE  ControlInv'
  <2>1. CASE bwd.mod = 1
    BY <1>0, <1>4, <2>1 DEF NextBackward
  <2>2. CASE bwd.mod # 1
    BY <1>0, <1>4, <2>2 DEF NextBackward
  <2> QED
    BY <2>1, <2>2
<1>5. CASE PostBackward
  <2>1. /\ bwd.stage = "run" /\ ~InForward /\ UNCHANGED <<training_state, fwd, graphs, pending>>
        /\ \/ bwd' = [bwd EXCEPT !.stage = "release"] /\ IsUnit[bwd.mod]
           \/ NextBackward
    BY <1>5 DEF PostBackward
  <2>2. CASE bwd' = [bwd EXCEPT !.stage = "release"] /\ IsUnit[bwd.mod]
    <3>1. bwd'.mod = bwd.mod /\ bwd'.stage = "release"
      BY <2>2
    <3> QED
      BY <1>0, <2>1, <2>2, <3>1
  <2>3. CASE NextBackward
    BY <1>4, <2>1, <2>3
  <2> QED
    BY <2>1, <2>2, <2>3
<1>6. CASE PostBackwardRelease
  BY <1>0, <1>4, <1>6 DEF PostBackwardRelease, TrainingState
<1>7. CASE RootPostBackward
  <2>1. /\ bwd.stage = "root" /\ bwd' = NoBackward /\ graphs' = graphs - 1 /\ pending' = "step"
        /\ UNCHANGED <<training_state, fwd>>
    BY <1>7 DEF RootPostBackward
  <2>2. ~InForward /\ graphs > 0
    BY <2>1
  <2>3. bwd'.mod = 0 /\ bwd'.stage = "none"
    BY <2>1 DEF NoBackward
  <2>4. HookTypes'
    <3>1. graphs' \in 0 .. setup.outstanding
      <4>1. setup.outstanding \in Nat
        BY <1>0, HooksAssumption DEF ValidSetup
      <4> QED
        BY <2>1, <2>2, <4>1
    <3> QED
      BY <1>0, <2>1, <3>1 DEF NoBackward
  <2> QED
    BY <2>1, <2>2, <2>3, <2>4
<1> QED
  BY <1>1, <1>2, <1>3, <1>5, <1>6, <1>7

\* A step of the training loop, which starts a pass or runs between passes.
LEMMA LoopControl ==
  ASSUME ControlInv, setup' = setup,
         \/ \E grad \in BOOLEAN : StartForward(grad)
         \/ RootPreBackward \/ BeginStep \/ EndStep
         \/ StartParamSync \/ BeginForcedSync \/ EndForcedSync
  PROVE  ControlInv'
<1> USE DEF ControlInv, HookTypes, Control, MarkedForBackward, InForward, InBackward, Idle, Module
<1>0. setup \in Setups /\ NumModules \in Nat \ {0}
  BY HooksAssumption
<1>1. CASE \E grad \in BOOLEAN : StartForward(grad)
  BY <1>0, <1>1 DEF StartForward
<1>2. CASE RootPreBackward
  BY <1>0, <1>2 DEF RootPreBackward, TrainingState
<1>3. CASE BeginStep \/ EndStep \/ BeginForcedSync \/ EndForcedSync
  BY <1>0, <1>3 DEF BeginStep, EndStep, BeginForcedSync, EndForcedSync
<1>4. CASE StartParamSync
  BY <1>0, <1>4 DEF StartParamSync, hookVars
<1> QED
  BY <1>1, <1>2, <1>3, <1>4

\* Every step keeps the order of the passes.
LEMMA NextControl == ControlInv /\ [Next]_vars => ControlInv'
<1> SUFFICES ASSUME ControlInv, [Next]_vars PROVE ControlInv'
  OBVIOUS
<1>1. CASE UNCHANGED vars
  BY <1>1 DEF vars, hookVars, ControlInv, HookTypes, Control, MarkedForBackward, InForward,
              InBackward, Idle
<1> QED
  BY <1>1, ForwardControl, BackwardControl, LoopControl DEF Next

----------------------------------------------------------------------------
(* The hooks keep to the pipeline's contract.                              *)

\* Every step of the hooks is a call the contract allows, or none at all, and
\* what the next step waits for is held.
LEMMA StepContract ==
  ASSUME IInv, ControlInv, WaitsHeld, [Next]_vars
  PROVE  [ClientNext]_clientVars /\ WaitsHeld'
<1> USE DEF WaitsHeld, Holds
<1>0. /\ setup \in Setups
      /\ fwd.stage = "wait" => fwd.mod \in Module
      /\ bwd.stage = "wait" => bwd.mod \in Module
  BY DEF ControlInv, HookTypes, Control, InForward, InBackward
<1>1. ASSUME UNCHANGED clientVars, fwd'.stage # "wait" \/ fwd' = fwd,
             bwd'.stage # "wait" \/ bwd' = bwd
      PROVE  [ClientNext]_clientVars /\ WaitsHeld'
  BY <1>1 DEF clientVars, pipelineVars
<1>2. CASE UNCHANGED vars
  BY <1>1, <1>2 DEF vars, hookVars
<1>3. CASE raised = "none" /\ PreForward
  <2>1. fwd.stage = "pre" /\ fwd.mod \in Module
    BY <1>3 DEF PreForward, ControlInv, HookTypes, Control, InForward
  <2>2. PICK prefetch \in BOOLEAN : Gather(ModuleBuckets[fwd.mod], prefetch, "FORWARD_PASS_ORDER", FALSE)
    BY <1>3 DEF PreForward, UnshardForward
  <2>3. fwd' = [fwd EXCEPT !.stage = "wait"] /\ bwd' = bwd
    BY <1>3 DEF PreForward
  <2>4. fwd'.mod = fwd.mod
    BY <2>3, <2>1 DEF ControlInv, HookTypes
  <2>5. ClientNext /\ (raised' = "none" => Keys(ModuleBuckets[fwd.mod], FALSE) \subseteq held')
    BY <1>3, <2>1, <2>2, GatherKeeps, ModulesTyped DEF Order
  <2>6. bwd.stage # "wait"
    BY <2>1 DEF ControlInv, Control, InForward, InBackward
  <2> QED
    BY <2>3, <2>4, <2>5, <2>6
<1>4. CASE raised = "none" /\ PreForwardWait
  <2>1. Keys(ModuleBuckets[fwd.mod], FALSE) \subseteq held /\ fwd.mod \in Module
    BY <1>0, <1>4 DEF PreForwardWait
  <2>2. ClientNext
    BY <1>4, <2>1, WaitKeeps, ModulesTyped DEF PreForwardWait
  <2>3. fwd'.stage = "run" /\ bwd' = bwd /\ bwd.stage # "wait"
    BY <1>4, <2>1 DEF PreForwardWait, ControlInv, HookTypes, Control, InForward, InBackward
  <2> QED
    BY <2>2, <2>3
<1>5. CASE raised = "none" /\ PostForward
  <2>1. fwd.stage = "run" /\ fwd.mod \in Module
    BY <1>5 DEF PostForward, ControlInv, HookTypes, Control, InForward
  <2>2. UNCHANGED clientVars \/ Release(ModuleBuckets[fwd.mod], FALSE)
        \/ ReleaseLazily(ModuleBuckets[fwd.mod], FALSE)
    BY <1>5 DEF PostForward, ReleaseModule
  <2>3. [ClientNext]_clientVars
    BY <1>5, <2>1, <2>2, ReleaseKeeps, ModulesTyped
  <2>4. fwd'.stage # "wait"
    <3>1. fwd' = NotRunning \/ fwd' = [fwd EXCEPT !.mod = fwd.mod + 1, !.stage = "pre"]
      BY <1>5 DEF PostForward, NextForward
    <3>2. CASE fwd' = NotRunning
      BY <3>2 DEF NotRunning
    <3>3. CASE fwd' = [fwd EXCEPT !.mod = fwd.mod + 1, !.stage = "pre"]
      BY <3>3 DEF ControlInv, HookTypes
    <3> QED
      BY <3>1, <3>2, <3>3
  <2>5. bwd' = bwd /\ bwd.stage # "wait"
    BY <1>5, <2>1 DEF PostForward, ControlInv, Control, InForward, InBackward
  <2> QED
    BY <2>3, <2>4, <2>5
<1>6. CASE raised = "none" /\ PreBackward
  <2>1. bwd.stage = "pre" /\ bwd.mod \in Module /\ ~InForward /\ fwd' = fwd /\ fwd.stage = "none"
    BY <1>6 DEF PreBackward, ControlInv, HookTypes, Control, InForward, InBackward
  <2>2. CASE IsUnit[bwd.mod]
    <3>1. /\ Gather(ModuleBuckets[bwd.mod], TRUE, "BACKWARD_PASS_ORDER", TRUE)
          /\ bwd' = [bwd EXCEPT !.stage = "wait"]
      BY <1>6, <2>2 DEF PreBackward
    <3>2. ClientNext /\ (raised' = "none" => Keys(ModuleBuckets[bwd.mod], TRUE) \subseteq held')
      BY <1>6, <2>1, <3>1, GatherKeeps, ModulesTyped DEF Order
    <3>3. bwd'.mod = bwd.mod
      BY <3>1 DEF ControlInv, HookTypes
    <3> QED
      BY <2>1, <3>2, <3>3
  <2>3. CASE ~IsUnit[bwd.mod]
    <3>1. UNCHANGED clientVars /\ bwd' = [bwd EXCEPT !.stage = "run"]
      BY <1>6, <2>3 DEF PreBackward
    <3>2. bwd'.stage = "run"
      BY <3>1 DEF ControlInv, HookTypes
    <3> QED
      BY <1>1, <2>1, <3>1, <3>2
  <2> QED
    BY <2>2, <2>3
<1>7. CASE raised = "none" /\ PreBackwardWait
  <2>1. Keys(ModuleBuckets[bwd.mod], TRUE) \subseteq held /\ bwd.mod \in Module
    BY <1>0, <1>7 DEF PreBackwardWait
  <2>2. ClientNext
    BY <1>7, <2>1, WaitKeeps, ModulesTyped DEF PreBackwardWait
  <2>3. bwd'.stage = "run" /\ fwd' = fwd /\ fwd.stage = "none"
    BY <1>7, <2>1 DEF PreBackwardWait, ControlInv, HookTypes, Control, InForward, InBackward
  <2> QED
    BY <2>2, <2>3
<1>8. CASE raised = "none" /\ (PostBackward \/ PostBackwardRelease)
  <2>1. bwd.stage \in {"run", "release"} /\ bwd.mod \in Module /\ fwd' = fwd /\ fwd.stage = "none"
    BY <1>8 DEF PostBackward, PostBackwardRelease, ControlInv, HookTypes, Control, InForward,
                InBackward
  <2>2. \/ UNCHANGED clientVars
        \/ \E dir \in BOOLEAN : Release(ModuleBuckets[bwd.mod], dir)
    BY <1>8 DEF PostBackward, PostBackwardRelease
  <2>3. [ClientNext]_clientVars
    BY <1>8, <2>1, <2>2, ReleaseKeeps, ModulesTyped
  <2>4. bwd'.stage # "wait"
    <3>1. \/ bwd' = [bwd EXCEPT !.stage = "release"]
          \/ bwd' = [bwd EXCEPT !.stage = "root"]
          \/ bwd'.stage = "pre"
      <4>1. bwd' = [bwd EXCEPT !.stage = "release"] \/ NextBackward
        BY <1>8 DEF PostBackward, PostBackwardRelease
      <4>2. CASE bwd.mod = 1 /\ NextBackward
        BY <4>2 DEF NextBackward
      <4>3. CASE bwd.mod # 1 /\ NextBackward
        BY <4>3 DEF NextBackward
      <4> QED
        BY <4>1, <4>2, <4>3
    <3>2. CASE bwd' = [bwd EXCEPT !.stage = "release"] \/ bwd' = [bwd EXCEPT !.stage = "root"]
      BY <3>2 DEF ControlInv, HookTypes
    <3> QED
      BY <3>1, <3>2
  <2> QED
    BY <2>1, <2>3, <2>4
<1>9. CASE raised = "none" /\ (RootPreBackward \/ RootPostBackward \/ BeginStep \/ EndStep
                               \/ BeginForcedSync \/ EndForcedSync)
  <2>1. [ClientNext]_clientVars
    BY <1>9 DEF RootPreBackward, RootPostBackward, BeginStep, EndStep, BeginForcedSync,
                EndForcedSync, ClientNext
  <2>2. fwd' = fwd /\ fwd.stage = "none"
    BY <1>9 DEF RootPreBackward, RootPostBackward, BeginStep, EndStep, BeginForcedSync,
                EndForcedSync, ControlInv, Control, Idle, InForward, InBackward
  <2>3. bwd'.stage # "wait"
    BY <1>9 DEF RootPreBackward, RootPostBackward, BeginStep, EndStep, BeginForcedSync,
                EndForcedSync, ControlInv, Control, Idle, InForward, InBackward, NoBackward
  <2> QED
    BY <2>1, <2>2, <2>3
<1>10. CASE raised = "none" /\ StartParamSync
  <2>1. 1 \in Module
    BY HooksAssumption DEF Module
  <2>2. PICK b \in ModuleBuckets[1] : Gather({b}, TRUE, "FORWARD_PASS_ORDER", FALSE)
    BY <1>10 DEF StartParamSync
  <2>3. ClientNext
    BY <1>10, <2>1, <2>2, ModulesTyped, GatherKeeps DEF Order
  <2>4. fwd' = fwd /\ bwd' = bwd /\ fwd.stage = "none" /\ bwd.stage = "none"
    BY <1>10 DEF StartParamSync, hookVars, ControlInv, Control, Idle, InForward, InBackward
  <2> QED
    BY <2>3, <2>4
<1>11. CASE raised = "none" /\ ((\E grad \in BOOLEAN : StartForward(grad))
                                \/ StopRecompute \/ Recompute)
  <2>1. UNCHANGED clientVars
    BY <1>11 DEF StartForward, StopRecompute, Recompute
  <2>2. fwd'.stage # "wait"
    BY <1>11 DEF StartForward, StopRecompute, Recompute, NotRunning
  <2>3. bwd'.stage # "wait" \/ bwd' = bwd
    BY <1>11 DEF StartForward, StopRecompute, Recompute, NeedsRecompute, ControlInv, HookTypes
  <2> QED
    BY <1>1, <2>1, <2>2, <2>3
<1> QED
  BY <1>2, <1>3, <1>4, <1>5, <1>6, <1>7, <1>8, <1>9, <1>10, <1>11 DEF Next

ContractInv == IInv /\ ControlInv /\ WaitsHeld

\* What the contract rests on holds throughout.
LEMMA ContractInvariance == Spec => []ContractInv
<1>1. Init => ContractInv
  BY InitIInv, InitControl DEF Init, ContractInv, WaitsHeld, NotRunning, NoBackward
<1>2. ContractInv /\ [Next]_vars => ContractInv'
  BY StepContract, NextControl, NextIInv DEF ContractInv
<1> QED
  BY <1>1, <1>2, PTL DEF Spec

\* The hooks make only calls the pipeline's contract allows: they never wait for
\* a bucket they have not asked for or have let go of, in whatever order passes,
\* recomputations and optimizer steps follow each other.
THEOREM ContractKept == Spec => UsesPipelineByContract
<1>1. Init => ClientInit
  BY DEF Init
<1>2. ContractInv /\ [Next]_vars => [ClientNext]_clientVars
  BY StepContract DEF ContractInv
<1> QED
  BY <1>1, <1>2, ContractInvariance, PTL DEF Spec, UsesPipelineByContract, ClientSpec

\* The hooks' tables and the pipeline's keep their types.
THEOREM HooksTypeCorrect == Spec => []HooksTypeOK
<1>1. ContractInv => HooksTypeOK
  <2>1. setup \in Setups => setup.outstanding \in 1 .. MaxGraphs
    BY HooksAssumption DEF ValidSetup
  <2> QED
    BY <2>1, HooksAssumption DEF ContractInv, IInv, ControlInv, HookTypes, HooksTypeOK
<1> QED
  BY <1>1, ContractInvariance, PTL

----------------------------------------------------------------------------
(* Every computation finds its weights gathered.                           *)

HInv == ContractInv /\ Kept

\* What stays held through a step stays ready.
LEMMA ModuleStaysReady ==
  ASSUME IInv, [ClientNext]_clientVars, NEW m \in Module, NEW dir \in BOOLEAN,
         Holds(m, dir), Ready(m, dir), Keys(ModuleBuckets[m], dir) \subseteq held'
  PROVE  Ready(m, dir)'
<1>1. Keys(ModuleBuckets[m], dir) \subseteq Key
  BY KeysTyped, ModulesTyped
<1> SUFFICES ASSUME NEW k \in Keys(ModuleBuckets[m], dir) PROVE bucket_status'[k] = "READY_TO_USE"
  BY DEF Ready
<1> QED
  BY <1>1, ReadyStays DEF Holds, Ready

\* The forward pass begins to compute with what it has just waited for.
LEMMA ForwardStep ==
  ASSUME HInv, [Next]_vars PROVE ForwardKept'
<1> SUFFICES ASSUME fwd'.stage = "run" PROVE Ready(fwd.mod, FALSE)' /\ Holds(fwd.mod, FALSE)'
  BY DEF ForwardKept
<1> USE DEF HInv, ContractInv, ControlInv
<1>1. CASE UNCHANGED vars
  <2>1. fwd.stage = "run" /\ fwd' = fwd /\ UNCHANGED <<bucket_status, held>>
    BY <1>1 DEF vars, hookVars, clientVars, pipelineVars
  <2> QED
    BY <2>1 DEF Kept, ForwardKept, Ready, Holds
<1>2. CASE raised = "none" /\ PreForwardWait
  <2>1. fwd.stage = "wait" /\ fwd.mod \in Module
    BY <1>2 DEF PreForwardWait, HookTypes, Control, InForward
  <2>2. Keys(ModuleBuckets[fwd.mod], FALSE) \subseteq held
    BY <1>2, <2>1 DEF WaitsHeld, Holds
  <2>3. /\ held' = held
        /\ \A k \in Keys(ModuleBuckets[fwd.mod], FALSE) : bucket_status'[k] = "READY_TO_USE"
    BY <1>2, <2>1, <2>2, WaitKeeps, ModulesTyped DEF PreForwardWait
  <2>4. fwd'.mod = fwd.mod
    BY <1>2 DEF PreForwardWait, HookTypes
  <2> QED
    BY <2>2, <2>3, <2>4 DEF Ready, Holds
<1>3. CASE PreForward \/ StopRecompute \/ Recompute \/ \E grad \in BOOLEAN : StartForward(grad)
  BY <1>3 DEF PreForward, StopRecompute, Recompute, StartForward, NotRunning, HookTypes
<1>4. CASE PostForward
  <2>1. fwd' = NotRunning \/ fwd' = [fwd EXCEPT !.mod = fwd.mod + 1, !.stage = "pre"]
    BY <1>4 DEF PostForward, NextForward
  <2>2. CASE fwd' = NotRunning
    BY <2>2 DEF NotRunning
  <2>3. CASE fwd' = [fwd EXCEPT !.mod = fwd.mod + 1, !.stage = "pre"]
    BY <2>3 DEF HookTypes
  <2> QED
    BY <2>1, <2>2, <2>3
<1>5. CASE RootPreBackward \/ BeginStep \/ EndStep \/ StartParamSync \/ BeginForcedSync
           \/ EndForcedSync
  BY <1>5 DEF RootPreBackward, BeginStep, EndStep, StartParamSync, BeginForcedSync,
              EndForcedSync, hookVars, Idle, InForward, Control
<1>6. CASE PreBackward \/ PreBackwardWait \/ PostBackward \/ PostBackwardRelease
           \/ RootPostBackward
  BY <1>6 DEF PreBackward, PreBackwardWait, PostBackward, PostBackwardRelease,
              RootPostBackward, InForward, InBackward, Control
<1> QED
  BY <1>1, <1>2, <1>3, <1>4, <1>5, <1>6 DEF Next

\* The backward pass of a unit begins with what it has just waited for, and the
\* recomputation in between takes none of it away.
LEMMA BackwardStep ==
  ASSUME UnitsDisjoint, HInv, [Next]_vars PROVE BackwardKept'
<1> SUFFICES ASSUME bwd'.stage = "run", IsUnit[bwd'.mod]
             PROVE  /\ Ready(bwd.mod, TRUE)'
                    /\ (InForward \/ ~bwd.recomputed)' => Holds(bwd.mod, TRUE)'
  BY DEF BackwardKept
<1> USE DEF HInv, ContractInv, ControlInv
<1>0. [ClientNext]_clientVars
  BY StepContract
<1>1. CASE UNCHANGED vars
  <2>1. bwd' = bwd /\ fwd' = fwd /\ UNCHANGED <<bucket_status, held>>
    BY <1>1 DEF vars, hookVars, clientVars, pipelineVars
  <2> QED
    BY <2>1 DEF Kept, BackwardKept, Ready, Holds, InForward
<1>2. CASE raised = "none" /\ PreBackwardWait
  <2>1. bwd.stage = "wait" /\ bwd.mod \in Module
    BY <1>2 DEF PreBackwardWait, HookTypes, Control, InBackward
  <2>2. Keys(ModuleBuckets[bwd.mod], TRUE) \subseteq held
    BY <1>2, <2>1 DEF WaitsHeld, Holds
  <2>3. /\ held' = held
        /\ \A k \in Keys(ModuleBuckets[bwd.mod], TRUE) : bucket_status'[k] = "READY_TO_USE"
    BY <1>2, <2>1, <2>2, WaitKeeps, ModulesTyped DEF PreBackwardWait
  <2>4. bwd'.mod = bwd.mod
    BY <1>2 DEF PreBackwardWait, HookTypes
  <2> QED
    BY <2>2, <2>3, <2>4 DEF Ready, Holds
<1>3. ASSUME bwd.stage = "run", bwd'.mod = bwd.mod, bwd.mod \in Module,
             \/ /\ InForward \/ ~bwd.recomputed
                /\ Keys(ModuleBuckets[bwd.mod], TRUE) \subseteq held
                     => Keys(ModuleBuckets[bwd.mod], TRUE) \subseteq held'
             \/ /\ ~InForward' /\ bwd'.recomputed
                /\ bucket_status' = bucket_status
      PROVE  /\ Ready(bwd.mod, TRUE)'
             /\ (InForward \/ ~bwd.recomputed)' => Holds(bwd.mod, TRUE)'
  <2>1. Ready(bwd.mod, TRUE) /\ (InForward \/ ~bwd.recomputed => Holds(bwd.mod, TRUE))
    BY <1>3 DEF Kept, BackwardKept
  <2>2. CASE /\ InForward \/ ~bwd.recomputed
             /\ Keys(ModuleBuckets[bwd.mod], TRUE) \subseteq held
                  => Keys(ModuleBuckets[bwd.mod], TRUE) \subseteq held'
    <3>1. Keys(ModuleBuckets[bwd.mod], TRUE) \subseteq held'
      BY <2>1, <2>2 DEF Holds
    <3> DEFINE m == bwd.mod
    <3>2. Ready(m, TRUE)'
      BY <1>0, <1>3, <2>1, <2>2, <3>1, ModuleStaysReady
    <3> QED
      BY <1>3, <3>1, <3>2 DEF Ready, Holds
  <2>3. CASE ~InForward' /\ bwd'.recomputed /\ bucket_status' = bucket_status
    BY <1>3, <2>1, <2>3 DEF Ready
  <2> QED
    BY <1>3, <2>2, <2>3
<1>4. CASE raised = "none" /\ (PreForward \/ PreForwardWait \/ StopRecompute)
  <2>1. InForward /\ bwd' = bwd /\ bwd.stage = "run" /\ bwd.mod \in Module /\ fwd.mod \in Module
    BY <1>4 DEF PreForward, PreForwardWait, StopRecompute, HookTypes, Control, InForward,
                InBackward
  <2>2. CASE PreForward
    <3>1. PICK prefetch \in BOOLEAN :
            Gather(ModuleBuckets[fwd.mod], prefetch, "FORWARD_PASS_ORDER", FALSE)
      BY <2>2 DEF PreForward, UnshardForward
    <3>2. held \subseteq held'
      BY <1>4, <2>1, <3>1, GatherKeeps, ModulesTyped DEF Order
    <3> QED
      BY <1>3, <2>1, <3>2
  <2>3. CASE PreForwardWait \/ StopRecompute
    <3>1. held' = held
      BY <2>3 DEF PreForwardWait, StopRecompute, Wait, clientVars
    <3> QED
      BY <1>3, <2>1, <3>1
  <2> QED
    BY <1>4, <2>2, <2>3
<1>5. CASE raised = "none" /\ PostForward
  <2>1. /\ fwd.stage = "run" /\ InForward /\ bwd' = bwd /\ bwd.stage = "run" /\ InBackward
        /\ bwd.mod \in Module /\ fwd.mod \in Module /\ IsUnit[bwd.mod]
    BY <1>5 DEF PostForward, HookTypes, Control, InForward, InBackward
  <2>2. fwd.last = bwd.mod /\ bwd.recomputed /\ fwd.mod \in 1 .. bwd.mod
    BY <2>1 DEF HookTypes, Control, Module
  <2>3. training_state[fwd.mod] = "PRE_BACKWARD"
    BY <2>1, <2>2 DEF MarkedForBackward
  <2>4. IF IsUnit[fwd.mod] THEN ReleaseLazily(ModuleBuckets[fwd.mod], FALSE)
        ELSE UNCHANGED clientVars
    BY <1>5, <2>3 DEF PostForward, ReleaseModule
  <2>5. CASE ~IsUnit[fwd.mod]
    BY <1>3, <2>1, <2>4, <2>5 DEF clientVars
  <2>6. CASE IsUnit[fwd.mod] /\ fwd.mod # bwd.mod
    <3>1. held' = held \ Keys(ModuleBuckets[fwd.mod], FALSE)
      BY <2>4, <2>6 DEF ReleaseLazily
    <3>2. Keys(ModuleBuckets[fwd.mod], FALSE) \cap Keys(ModuleBuckets[bwd.mod], TRUE) = {}
      BY <2>1, <2>6, UnitKeysApart
    <3> QED
      BY <1>3, <2>1, <3>1, <3>2
  <2>7. CASE IsUnit[fwd.mod] /\ fwd.mod = bwd.mod
    <3>1. bucket_status' = bucket_status
      BY <2>4, <2>7 DEF ReleaseLazily, MarkReleasable
    <3>2. fwd' = NotRunning
      BY <1>5, <2>2, <2>7 DEF PostForward, NextForward
    <3> QED
      BY <1>3, <2>1, <2>2, <3>1, <3>2 DEF InForward, NotRunning
  <2> QED
    BY <2>5, <2>6, <2>7
<1>6. CASE Recompute
  <2>1. bwd' = [bwd EXCEPT !.recomputed = TRUE] /\ ~bwd.recomputed /\ InBackward /\ held' = held
    BY <1>6 DEF Recompute, NeedsRecompute, clientVars
  <2>2. bwd.stage = "run" /\ bwd'.mod = bwd.mod /\ bwd.mod \in Module
    BY <2>1 DEF HookTypes, InBackward
  <2> QED
    BY <1>3, <2>1, <2>2
<1>7. CASE PreBackward
  <2>1. CASE IsUnit[bwd.mod]
    BY <1>7, <2>1 DEF PreBackward, HookTypes
  <2>2. CASE ~IsUnit[bwd.mod]
    BY <1>7, <2>2 DEF PreBackward, HookTypes
  <2> QED
    BY <2>1, <2>2
<1>8. CASE PostBackward \/ PostBackwardRelease
  <2>1. bwd' = [bwd EXCEPT !.stage = "release"] \/ NextBackward
    BY <1>8 DEF PostBackward, PostBackwardRelease
  <2>2. CASE bwd' = [bwd EXCEPT !.stage = "release"]
    BY <2>2 DEF HookTypes
  <2>3. CASE bwd.mod = 1 /\ NextBackward
    BY <2>3 DEF NextBackward, HookTypes
  <2>4. CASE bwd.mod # 1 /\ NextBackward
    BY <2>4 DEF NextBackward
  <2> QED
    BY <2>1, <2>2, <2>3, <2>4
<1>9. CASE RootPreBackward \/ RootPostBackward
  BY <1>9 DEF RootPreBackward, RootPostBackward, NoBackward
<1>10. CASE BeginStep \/ EndStep \/ StartParamSync \/ BeginForcedSync \/ EndForcedSync
            \/ \E grad \in BOOLEAN : StartForward(grad)
  BY <1>10 DEF BeginStep, EndStep, StartParamSync, BeginForcedSync, EndForcedSync, StartForward,
               hookVars, Idle, InBackward, Control
<1> QED
  BY <1>1, <1>2, <1>4, <1>5, <1>6, <1>7, <1>8, <1>9, <1>10 DEF Next

\* Between the passes no backward pass awaits the modules that are no units.
LEMMA AtRest ==
  ASSUME ControlInv, Idle, graphs = 0, fwd' = fwd, graphs' = graphs
  PROVE  NonUnitsKept'
BY DEF ControlInv, Control, NonUnitsKept, Visited, Idle, InForward

\* The modules that are no units lose their weights only between the passes:
\* with auto-synchronisation, because no other pass is then in flight.
LEMMA NonUnitsStep ==
  ASSUME UnitsDisjoint, OnePassWhenAutoSync, HInv, [Next]_vars PROVE NonUnitsKept'
<1> USE DEF HInv, ContractInv, ControlInv
<1>0. [ClientNext]_clientVars
  BY StepContract
<1>1. ASSUME \A m \in Module : ~IsUnit[m] /\ Visited(m)' => Visited(m),
             \A m \in Module : ~IsUnit[m] /\ Keys(ModuleBuckets[m], FALSE) \subseteq held
                                 => Keys(ModuleBuckets[m], FALSE) \subseteq held'
      PROVE  NonUnitsKept'
  <2> SUFFICES ASSUME NEW m \in Module, ~IsUnit[m], Visited(m)'
               PROVE  Ready(m, FALSE)' /\ Holds(m, FALSE)'
    BY DEF NonUnitsKept
  <2>1. Ready(m, FALSE) /\ Holds(m, FALSE)
    BY <1>1 DEF Kept, NonUnitsKept
  <2>2. Holds(m, FALSE)'
    BY <1>1, <2>1 DEF Holds
  <2> QED
    BY <1>0, <2>1, <2>2, ModuleStaysReady DEF Holds
<1>2. CASE UNCHANGED vars
  <2>1. fwd' = fwd /\ graphs' = graphs /\ held' = held
    BY <1>2 DEF vars, hookVars, clientVars
  <2> QED
    BY <1>1, <2>1 DEF Visited
<1>3. CASE \E grad \in BOOLEAN : StartForward(grad)
  <2>1. graphs' = graphs /\ held' = held /\ fwd'.mod = 1 /\ fwd'.stage = "pre"
    BY <1>3 DEF StartForward, clientVars
  <2>2. ASSUME NEW m \in Module PROVE ~(m < 1)
    BY HooksAssumption DEF Module
  <2>3. ASSUME NEW m \in Module, Visited(m)' PROVE Visited(m)
    BY <2>1, <2>2, <2>3 DEF Visited
  <2> QED
    BY <1>1, <2>1, <2>3
<1>4. CASE raised = "none" /\ PreForward
  <2>1. /\ fwd.stage = "pre" /\ fwd' = [fwd EXCEPT !.stage = "wait"] /\ graphs' = graphs
        /\ fwd.mod \in Module
    BY <1>4 DEF PreForward, HookTypes, Control, InForward
  <2>2. fwd'.mod = fwd.mod /\ fwd'.stage = "wait" /\ fwd'.grad = fwd.grad
    BY <2>1 DEF HookTypes
  <2>3. PICK prefetch \in BOOLEAN :
          Gather(ModuleBuckets[fwd.mod], prefetch, "FORWARD_PASS_ORDER", FALSE)
    BY <1>4 DEF PreForward, UnshardForward
  <2>4. held \subseteq held'
    BY <1>4, <2>1, <2>3, GatherKeeps, ModulesTyped DEF Order
  <2> QED
    BY <1>1, <2>1, <2>2, <2>4 DEF Visited
<1>5. CASE raised = "none" /\ PreForwardWait
  <2>1. /\ fwd.stage = "wait" /\ fwd' = [fwd EXCEPT !.stage = "run"] /\ graphs' = graphs
        /\ held' = held
    BY <1>5 DEF PreForwardWait, Wait
  <2>2. fwd'.mod = fwd.mod /\ fwd'.stage = "run" /\ fwd'.grad = fwd.grad
    BY <2>1 DEF HookTypes
  <2>3. Ready(fwd.mod, FALSE)' /\ Holds(fwd.mod, FALSE)'
    BY <2>2, ForwardStep DEF ForwardKept
  <2> SUFFICES ASSUME NEW m \in Module, ~IsUnit[m], Visited(m)'
               PROVE  Ready(m, FALSE)' /\ Holds(m, FALSE)'
    BY DEF NonUnitsKept
  <2>4. CASE m = fwd.mod
    BY <2>2, <2>3, <2>4 DEF Ready, Holds
  <2>5. CASE m # fwd.mod
    <3>1. Visited(m)
      BY <2>1, <2>2, <2>5 DEF Visited
    <3>2. Ready(m, FALSE) /\ Holds(m, FALSE)
      BY <3>1 DEF Kept, NonUnitsKept
    <3>3. Keys(ModuleBuckets[m], FALSE) \subseteq held'
      BY <2>1, <3>2 DEF Holds
    <3> QED
      BY <1>0, <3>2, <3>3, ModuleStaysReady DEF Holds
  <2> QED
    BY <2>4, <2>5
<1>6. CASE raised = "none" /\ PostForward
  <2>1. /\ fwd.stage = "run" /\ fwd.mod \in Module /\ fwd.last \in Module /\ NextForward
        /\ fwd.grad => fwd.last = NumModules
    BY <1>6 DEF PostForward, HookTypes, Control, InForward
  <2>2. ASSUME NEW m \in Module, ~IsUnit[m], Visited(m)' PROVE Visited(m)
    <3>1. CASE fwd.mod = fwd.last
      <4>1. fwd'.grad = FALSE /\ graphs' = IF fwd.grad THEN graphs + 1 ELSE graphs
        BY <2>1, <3>1 DEF NextForward, NotRunning
      <4> QED
        BY <2>1, <2>2, <3>1, <4>1 DEF Visited, Module
    <3>2. CASE fwd.mod # fwd.last
      <4>1. fwd' = [fwd EXCEPT !.mod = fwd.mod + 1, !.stage = "pre"] /\ graphs' = graphs
        BY <2>1, <3>2 DEF NextForward
      <4>2. fwd'.mod = fwd.mod + 1 /\ fwd'.stage = "pre" /\ fwd'.grad = fwd.grad
        BY <4>1 DEF HookTypes
      <4> QED
        BY <2>1, <2>2, <4>1, <4>2 DEF Visited, Module
    <3> QED
      BY <3>1, <3>2
  <2>3. ASSUME NEW m \in Module, ~IsUnit[m], Keys(ModuleBuckets[m], FALSE) \subseteq held
        PROVE  Keys(ModuleBuckets[m], FALSE) \subseteq held'
    <3>1. CASE ~IsUnit[fwd.mod]
      BY <1>6, <2>3, <3>1 DEF PostForward, clientVars
    <3>2. CASE IsUnit[fwd.mod]
      <4>1. held' = held \ Keys(ModuleBuckets[fwd.mod], FALSE)
        BY <1>6, <3>2 DEF PostForward, ReleaseModule, Release, ReleaseLazily
      <4>2. Keys(ModuleBuckets[fwd.mod], FALSE) \cap Keys(ModuleBuckets[m], FALSE) = {}
        BY <2>1, <2>3, <3>2, UnitKeysApart
      <4> QED
        BY <2>3, <4>1, <4>2
    <3> QED
      BY <3>1, <3>2
  <2> QED
    BY <1>1, <2>2, <2>3
<1>7. CASE StopRecompute \/ Recompute
  <2>1. graphs' = graphs /\ held' = held /\ ~fwd'.grad
    BY <1>7 DEF StopRecompute, Recompute, clientVars, NotRunning
  <2> QED
    BY <1>1, <2>1 DEF Visited
<1>8. ASSUME NEW m \in Module, NEW dir \in BOOLEAN, IsUnit[m], Release(ModuleBuckets[m], dir),
             fwd' = fwd, graphs' = graphs
      PROVE  NonUnitsKept'
  <2>1. ASSUME NEW n \in Module, ~IsUnit[n], Keys(ModuleBuckets[n], FALSE) \subseteq held
        PROVE  Keys(ModuleBuckets[n], FALSE) \subseteq held'
    BY <1>8, <2>1, UnitKeysApart DEF Release
  <2> QED
    BY <1>1, <1>8, <2>1 DEF Visited
<1>9. CASE raised = "none" /\ (PreBackward \/ PreBackwardWait)
  <2>1. fwd' = fwd /\ graphs' = graphs /\ bwd.mod \in Module
    BY <1>9 DEF PreBackward, PreBackwardWait, HookTypes, Control, InBackward
  <2>2. held \subseteq held'
    <3>1. CASE PreBackwardWait
      BY <3>1 DEF PreBackwardWait, Wait
    <3>2. CASE PreBackward /\ ~IsUnit[bwd.mod]
      BY <3>2 DEF PreBackward, clientVars
    <3>3. CASE PreBackward /\ IsUnit[bwd.mod]
      <4>1. Gather(ModuleBuckets[bwd.mod], TRUE, "BACKWARD_PASS_ORDER", TRUE)
        BY <3>3 DEF PreBackward
      <4> QED
        BY <1>9, <2>1, <4>1, GatherKeeps, ModulesTyped DEF Order
    <3> QED
      BY <1>9, <3>1, <3>2, <3>3
  <2> QED
    BY <1>1, <2>1, <2>2 DEF Visited
<1>10. CASE PostBackward
  <2>1. fwd' = fwd /\ graphs' = graphs /\ bwd.mod \in Module
    BY <1>10 DEF PostBackward, HookTypes, Control, InBackward
  <2>2. CASE UNCHANGED clientVars
    BY <1>1, <2>1, <2>2 DEF Visited, clientVars
  <2>3. CASE IsUnit[bwd.mod] /\ Release(ModuleBuckets[bwd.mod], TRUE)
    BY <1>8, <2>1, <2>3
  <2> QED
    BY <1>10, <2>2, <2>3 DEF PostBackward
<1>11. CASE PostBackwardRelease
  <2>1. fwd' = fwd /\ graphs' = graphs /\ bwd.mod \in Module /\ IsUnit[bwd.mod]
    BY <1>11 DEF PostBackwardRelease, HookTypes, Control, InBackward
  <2> QED
    BY <1>8, <1>11, <2>1 DEF PostBackwardRelease
<1>12. CASE RootPreBackward
  <2>1. /\ fwd' = fwd /\ graphs' = graphs
        /\ held' = held \ Keys(UnitBuckets, FALSE)
    BY <1>12 DEF RootPreBackward, ReleaseUnits
  <2>2. ASSUME NEW n \in Module, ~IsUnit[n], Keys(ModuleBuckets[n], FALSE) \subseteq held
        PROVE  Keys(ModuleBuckets[n], FALSE) \subseteq held'
    BY <2>1, <2>2, NonUnitKeysApart
  <2> QED
    BY <1>1, <2>1, <2>2 DEF Visited
<1>13. CASE RootPostBackward
  <2>1. fwd' = fwd /\ graphs' = graphs - 1 /\ ~fwd.grad /\ graphs \in Nat /\ graphs > 0
    <3>1. bwd.stage = "root" /\ fwd' = fwd /\ graphs' = graphs - 1
      BY <1>13 DEF RootPostBackward
    <3>2. ~fwd.grad /\ graphs > 0
      BY <3>1 DEF Control, InForward, InBackward
    <3>3. graphs \in Nat
      BY DEF HookTypes
    <3> QED
      BY <3>1, <3>2, <3>3
  <2>2. CASE setup.auto_sync
    <3>1. graphs <= 1
      <4>1. setup.outstanding = 1
        BY <2>2 DEF OnePassWhenAutoSync, HookTypes
      <4> QED
        BY <4>1 DEF HookTypes
    <3> QED
      BY <2>1, <3>1 DEF NonUnitsKept, Visited
  <2>3. CASE ~setup.auto_sync
    <3>1. held' = held
      BY <1>13, <2>3 DEF RootPostBackward, clientVars
    <3> QED
      BY <1>1, <2>1, <3>1 DEF Visited
  <2> QED
    BY <2>2, <2>3
<1>14. CASE BeginStep \/ EndStep \/ StartParamSync \/ BeginForcedSync \/ EndForcedSync
  <2>1. Idle /\ graphs = 0 /\ fwd' = fwd /\ graphs' = graphs
    BY <1>14 DEF BeginStep, EndStep, StartParamSync, BeginForcedSync, EndForcedSync, hookVars,
                 Control
  <2> QED
    BY <2>1, AtRest
<1> QED
  BY <1>2, <1>3, <1>4, <1>5, <1>6, <1>7, <1>9, <1>10, <1>11, <1>12, <1>13, <1>14 DEF Next

\* The invariant holds throughout, if no unit shares parameters and one pass at a
\* time is in flight with auto-synchronisation.
LEMMA HooksInvariance ==
  ASSUME UnitsDisjoint, OnePassWhenAutoSync PROVE Spec => []HInv
<1>1. Init => HInv
  <2>1. Init => ContractInv
    BY InitIInv, InitControl DEF Init, ContractInv, WaitsHeld, NotRunning, NoBackward
  <2>2. Init => Kept
    BY DEF Init, Kept, ForwardKept, BackwardKept, NonUnitsKept, Visited, NotRunning, NoBackward
  <2> QED
    BY <2>1, <2>2 DEF HInv
<1>2. HInv /\ [Next]_vars => HInv'
  <2> SUFFICES ASSUME HInv, [Next]_vars PROVE HInv'
    OBVIOUS
  <2>1. ContractInv'
    BY StepContract, NextControl, NextIInv DEF HInv, ContractInv
  <2>2. Kept'
    BY ForwardStep, BackwardStep, NonUnitsStep DEF Kept
  <2> QED
    BY <2>1, <2>2 DEF HInv
<1> QED
  BY <1>1, <1>2, PTL DEF Spec

\* Whatever a computation reads is ready.
LEMMA InUseIsReady == HInv => InUseReady
<1> SUFFICES ASSUME HInv, NEW k \in InUse PROVE bucket_status[k] = "READY_TO_USE"
  BY DEF InUseReady
<1> USE DEF HInv, ContractInv, ControlInv
<1>1. CASE fwd.stage = "run" /\ k \in Keys(ModuleBuckets[fwd.mod], FALSE)
  BY <1>1 DEF Kept, ForwardKept, Ready
<1>2. CASE bwd.stage = "run" /\ k \in Keys(ModuleBuckets[bwd.mod], IsUnit[bwd.mod])
  <2>1. bwd.mod \in Module /\ graphs > 0
    BY <1>2 DEF HookTypes, Control, InBackward
  <2>2. IsUnit[bwd.mod] \in BOOLEAN
    BY <2>1, HooksAssumption
  <2>3. CASE IsUnit[bwd.mod]
    <3>1. IsUnit[bwd.mod] = TRUE
      BY <2>2, <2>3
    <3> QED
      BY <1>2, <2>3, <3>1 DEF Kept, BackwardKept, Ready
  <2>4. CASE ~IsUnit[bwd.mod]
    <3>1. IsUnit[bwd.mod] = FALSE
      BY <2>2, <2>4
    <3> QED
      BY <1>2, <2>1, <2>4, <3>1 DEF Kept, NonUnitsKept, Visited, Ready
  <2> QED
    BY <2>3, <2>4
<1> QED
  BY <1>1, <1>2 DEF InUse

\* Every forward, recomputed forward and backward computation finds the weights it
\* reads gathered, although around it other modules are gathered, prefetched,
\* released, released lazily and recycled.
THEOREM ComputesOnReady ==
  ASSUME UnitsDisjoint, OnePassWhenAutoSync PROVE Spec => []InUseReady
BY HooksInvariance, InUseIsReady, PTL

----------------------------------------------------------------------------
(* Every computation finds the weights of the last step.                   *)

\* A call other than Install keeps every gathered bucket up to date: it launches
\* gathers of the current shard only, and overwrites nothing.
LEMMA GatheredUpToDate ==
  ASSUME IInv, [ClientNext]_clientVars, shard_version' = shard_version,
         NEW k \in Key, bucket_status[k] # "EMPTY" => contents[k] = shard_version,
         bucket_status'[k] # "EMPTY"
  PROVE  contents'[k] = shard_version'
<1>1. CASE bucket_status[k] # "EMPTY"
  BY <1>1, StepNoOverwrite
<1>2. CASE bucket_status[k] = "EMPTY"
  <2>1. bucket_status' # bucket_status
    BY <1>2
  <2>2. ASSUME NEW launched, NEW flagged, Launch(launched, flagged)
        PROVE  contents'[k] = shard_version'
    BY <1>2, <2>2 DEF Launch, Fail
  <2>3. ASSUME NEW req \in SUBSET Bucket, NEW dir \in BOOLEAN, NEW prefetch \in BOOLEAN,
               NEW order \in Order, Gather(req, prefetch, order, dir)
        PROVE  contents'[k] = shard_version'
    <3> DEFINE launched == Launchable(req \cup IF prefetch THEN Prefetched(req, order) ELSE {}, dir)
               flagged  == Flagged({KeyOf(b, dir) : b \in req})
    <3>1. Launch(launched, flagged)
      BY <2>1, <2>3 DEF Gather, AllGatherParams, Fail, pipelineVars
    <3> HIDE DEF launched, flagged
    <3> QED
      BY <2>2, <3>1
  <2>4. ASSUME NEW req \in SUBSET Bucket, NEW dir \in BOOLEAN, Wait(req, dir) PROVE FALSE
    <3>1. k \notin Keys(req, dir) \/ bucket_status' = bucket_status
      BY <1>2, <2>4 DEF Wait, WaitBucketsReady, Keys, Fail
    <3> QED
      BY <1>2, <2>1, <2>4, <3>1 DEF Wait, WaitBucketsReady, Keys, Fail
  <2>5. ASSUME NEW keys, Free(keys) PROVE FALSE
    BY <1>2, <2>5 DEF Free
  <2>6. CASE GatherAll
    BY <1>2, <2>6 DEF GatherAll, GatherEverything, Fail
  <2> QED
    BY <2>1, <2>3, <2>4, <2>5, <2>6
       DEF ClientNext, clientVars, pipelineVars, Release, ReleaseBuckets, ReleaseLazily,
           MarkReleasable, ReleaseUnits, MarkUnitsReleasable, ResetAll, Reset, Install,
           InstallWeights
<1> QED
  BY <1>1, <1>2

\* A reset leaves nothing gathered.
LEMMA ResetEmpties == ResetAll => AllEmpty'
BY DEF ResetAll, Reset, Free, AllEmpty

\* Only the end of an optimizer step changes this rank's shard.
LEMMA ShardKept ==
  ASSUME [Next]_vars, ~EndStep PROVE shard_version' = shard_version
<1>1. ASSUME NEW launched, NEW flagged, Launch(launched, flagged)
      PROVE  shard_version' = shard_version
  BY <1>1 DEF Launch, Fail
<1>2. ASSUME NEW req, NEW prefetch, NEW order, NEW dir, Gather(req, prefetch, order, dir)
      PROVE  shard_version' = shard_version
  BY <1>1, <1>2 DEF Gather, AllGatherParams, Fail, pipelineVars
<1>3. ASSUME NEW req, NEW dir,
             Wait(req, dir) \/ Release(req, dir) \/ ReleaseLazily(req, dir)
      PROVE  shard_version' = shard_version
  BY <1>3 DEF Wait, WaitBucketsReady, Fail, Release, ReleaseBuckets, ReleaseLazily, MarkReleasable
<1>4. CASE ReleaseUnits \/ ResetAll \/ GatherAll
  BY <1>4 DEF ReleaseUnits, MarkUnitsReleasable, ResetAll, Reset, GatherAll, GatherEverything, Fail
<1>5. CASE UNCHANGED clientVars
  BY <1>5 DEF clientVars, pipelineVars
<1>6. CASE UNCHANGED vars
  BY <1>5, <1>6 DEF vars
<1>7. CASE PreForward \/ PreForwardWait \/ PostForward \/ StopRecompute \/ Recompute
           \/ \E grad \in BOOLEAN : StartForward(grad)
  BY <1>2, <1>3, <1>5, <1>7 DEF PreForward, UnshardForward, PreForwardWait, PostForward,
       ReleaseModule, StopRecompute, Recompute, StartForward
<1>8. CASE RootPreBackward \/ PreBackward \/ PreBackwardWait \/ PostBackward
           \/ PostBackwardRelease \/ RootPostBackward
  BY <1>2, <1>3, <1>4, <1>5, <1>8 DEF RootPreBackward, PreBackward, PreBackwardWait, PostBackward,
       PostBackwardRelease, RootPostBackward
<1>9. CASE BeginStep \/ StartParamSync \/ BeginForcedSync \/ EndForcedSync
  BY <1>2, <1>4, <1>5, <1>9 DEF BeginStep, StartParamSync, BeginForcedSync, EndForcedSync
<1> QED
  BY <1>6, <1>7, <1>8, <1>9 DEF Next

\* A step keeps what is gathered up to date, because nothing is gathered when the
\* optimizer's weights are installed.
LEMMA FreshStep ==
  ASSUME NoEvalWhenAutoSync, HInv, Fresh, [Next]_vars
  PROVE  Fresh'
<1> USE DEF HInv, ContractInv, ControlInv
<1>0. [ClientNext]_clientVars /\ ControlInv'
  BY StepContract, NextControl
<1>1. \A k \in Key : bucket_status'[k] # "EMPTY" => contents'[k] = shard_version'
  <2>1. CASE EndStep
    <3>1. AllEmpty /\ bucket_status' = bucket_status
      BY <2>1 DEF EndStep, Install, InstallWeights, Fresh
    <3> QED
      BY <3>1 DEF AllEmpty
  <2>2. CASE ~EndStep
    BY <1>0, <2>2, ShardKept, GatheredUpToDate DEF Fresh
  <2> QED
    BY <2>1, <2>2
<1>2. CASE UNCHANGED vars
  <2>1. UNCHANGED <<setup, fwd, bwd, graphs, pending, bucket_status>>
    BY <1>2 DEF vars, hookVars, clientVars, pipelineVars
  <2> QED
    BY <1>1, <2>1 DEF Fresh, AllEmpty, Idle, InForward, InBackward
<1>3. CASE EndStep \/ StartParamSync \/ BeginForcedSync \/ EndForcedSync
  <2>1. pending' \in {"none", "gather"}
    BY <1>3 DEF EndStep, StartParamSync, BeginForcedSync, EndForcedSync, hookVars
  <2> QED
    BY <1>1, <2>1 DEF Fresh
<1>4. CASE BeginStep
  <2>1. pending' = "install" /\ Idle /\ pending = "step" /\ graphs = 0
    BY <1>4 DEF BeginStep
  <2>2. AllEmpty'
    <3>1. CASE setup.auto_sync
      BY <1>4, <2>1, <3>1 DEF BeginStep, Fresh, AllEmpty, clientVars, pipelineVars
    <3>2. CASE ~setup.auto_sync
      BY <1>4, <3>2, ResetEmpties DEF BeginStep
    <3> QED
      BY <3>1, <3>2
  <2> QED
    BY <1>1, <2>1, <2>2 DEF Fresh
<1>5. ASSUME pending' # "install", ~Idle' PROVE Fresh'
  BY <1>1, <1>5 DEF Fresh
<1>6. CASE (\E grad \in BOOLEAN : StartForward(grad)) \/ PreForward \/ PreForwardWait \/ Recompute
  <2>1. pending' = pending /\ pending # "install"
    BY <1>6 DEF StartForward, PreForward, PreForwardWait, Recompute, NeedsRecompute, Control,
                Idle, InForward, InBackward
  <2>2. fwd'.stage \in {"pre", "wait", "run"}
    <3>1. CASE (\E grad \in BOOLEAN : StartForward(grad)) \/ Recompute
      BY <3>1 DEF StartForward, Recompute
    <3>2. CASE PreForward \/ PreForwardWait
      <4>1. fwd' = [fwd EXCEPT !.stage = "wait"] \/ fwd' = [fwd EXCEPT !.stage = "run"]
        BY <3>2 DEF PreForward, PreForwardWait
      <4> QED
        BY <4>1 DEF HookTypes
    <3> QED
      BY <1>6, <3>1, <3>2
  <2>3. ~Idle'
    BY <1>0, <2>2 DEF Control, Idle
  <2> QED
    BY <1>5, <2>1, <2>3
<1>7. CASE RootPreBackward \/ PreBackward \/ PreBackwardWait \/ PostBackward \/ PostBackwardRelease
  <2>1. pending' = pending /\ pending # "install"
    BY <1>7 DEF RootPreBackward, PreBackward, PreBackwardWait, PostBackward, PostBackwardRelease,
                Control, Idle, InForward, InBackward
  <2>2. bwd'.stage # "none"
    <3>1. CASE RootPreBackward \/ PreBackward \/ PreBackwardWait
      <4>1. CASE RootPreBackward
        BY <4>1 DEF RootPreBackward
      <4>2. CASE PreBackward \/ PreBackwardWait
        <5>1. bwd' = [bwd EXCEPT !.stage = "wait"] \/ bwd' = [bwd EXCEPT !.stage = "run"]
          BY <4>2 DEF PreBackward, PreBackwardWait
        <5> QED
          BY <5>1 DEF HookTypes
      <4> QED
        BY <3>1, <4>1, <4>2
    <3>2. CASE bwd' = [bwd EXCEPT !.stage = "release"]
      BY <3>2 DEF HookTypes
    <3>3. CASE bwd.mod = 1 /\ NextBackward
      BY <3>3 DEF NextBackward, HookTypes
    <3>4. CASE bwd.mod # 1 /\ NextBackward
      BY <3>4 DEF NextBackward
    <3>5. CASE PostBackward \/ PostBackwardRelease
      BY <3>2, <3>3, <3>4, <3>5 DEF PostBackward, PostBackwardRelease
    <3> QED
      BY <1>7, <3>1, <3>5
  <2>3. ~Idle'
    BY <1>0, <2>2 DEF Control, Idle
  <2> QED
    BY <1>5, <2>1, <2>3
<1>8. CASE PostForward \/ StopRecompute
  <2>1. /\ pending' = pending /\ pending # "install" /\ bwd' = bwd /\ fwd.stage = "run"
        /\ StopRecompute => InBackward
    BY <1>8 DEF PostForward, StopRecompute, Control, Idle, InForward
  <2>2. CASE InBackward
    <3>1. ~Idle'
      BY <2>1, <2>2 DEF Idle, InBackward
    <3> QED
      BY <1>5, <2>1, <3>1
  <2>3. CASE PostForward /\ ~InBackward /\ fwd.mod # fwd.last
    <3>1. fwd' = [fwd EXCEPT !.mod = fwd.mod + 1, !.stage = "pre"]
      BY <2>3 DEF PostForward, NextForward
    <3>2. fwd'.stage = "pre"
      BY <3>1 DEF HookTypes
    <3>3. ~Idle'
      BY <1>0, <3>2 DEF Control, Idle
    <3> QED
      BY <1>5, <2>1, <3>3
  <2>4. CASE PostForward /\ ~InBackward /\ fwd.mod = fwd.last
    <3>1. fwd.grad \/ setup.eval
      BY <2>1, <2>4 DEF Control
    <3>2. graphs' = IF fwd.grad THEN graphs + 1 ELSE graphs
      BY <2>4 DEF PostForward, NextForward
    <3>3. graphs \in Nat
      <4>1. setup.outstanding \in Nat
        BY HooksAssumption DEF HookTypes, ValidSetup
      <4> QED
        BY <4>1 DEF HookTypes
    <3>4. setup' = setup
      BY <1>2 DEF Next, vars, hookVars
    <3>5. ~(setup'.auto_sync /\ graphs' = 0)
      <4>1. setup \in Setups
        BY DEF HookTypes
      <4>2. CASE fwd.grad
        BY <3>2, <3>3, <4>2
      <4>3. CASE ~fwd.grad
        BY <3>1, <3>4, <4>1, <4>3 DEF NoEvalWhenAutoSync
      <4> QED
        BY <4>2, <4>3
    <3> QED
      BY <1>1, <2>1, <3>5 DEF Fresh
  <2> QED
    BY <1>8, <2>1, <2>2, <2>3, <2>4
<1>9. CASE setup' = setup /\ RootPostBackward
  <2>1. pending' = "step"
    BY <1>9 DEF RootPostBackward
  <2>2. setup'.auto_sync => AllEmpty'
    BY <1>9, ResetEmpties DEF RootPostBackward
  <2> QED
    BY <1>1, <2>1, <2>2 DEF Fresh
<1> QED
  BY <1>2, <1>3, <1>4, <1>6, <1>7, <1>8, <1>9 DEF Next

\* Every computation reads the weights of the last optimizer step: a bucket that
\* was gathered before the step, and would be taken for ready, never survives it,
\* if with auto-synchronisation every pass has its backward pass before the next.
THEOREM ComputesOnFresh ==
  ASSUME UnitsDisjoint, OnePassWhenAutoSync, NoEvalWhenAutoSync PROVE Spec => []InUseFresh
<1>1. Init => Fresh
  BY DEF Init, Fresh, ClientInit, PipelineInit
<1>2. HInv /\ Fresh /\ [Next]_vars => Fresh'
  BY FreshStep
<1>3. HInv /\ Fresh => InUseFresh
  <2> SUFFICES ASSUME HInv, Fresh, NEW k \in InUse PROVE contents[k] = shard_version
    BY DEF InUseFresh
  <2>1. bucket_status[k] = "READY_TO_USE"
    BY InUseIsReady DEF InUseReady
  <2>2. k \in Key
    <3>1. ASSUME NEW m \in Module, NEW dir \in BOOLEAN, k \in Keys(ModuleBuckets[m], dir)
          PROVE  k \in Key
      BY <3>1, KeysTyped, ModulesTyped
    <3>2. fwd.stage = "run" => fwd.mod \in Module
      BY DEF HInv, ContractInv, ControlInv, HookTypes, Control, InForward
    <3>3. bwd.stage = "run" => bwd.mod \in Module /\ IsUnit[bwd.mod] \in BOOLEAN
      BY HooksAssumption DEF HInv, ContractInv, ControlInv, HookTypes, Control, InBackward
    <3> QED
      BY <3>1, <3>2, <3>3 DEF InUse
  <2> QED
    BY <2>1, <2>2 DEF Fresh
<1> QED
  BY <1>1, <1>2, <1>3, HooksInvariance, PTL DEF Spec

----------------------------------------------------------------------------
(* No hook raises.                                                         *)

\* Outside the fixed pool no call within the contract fails.
LEMMA CallSucceeds ==
  ASSUME ~FsdpDoubleBuffer, IInv, raised = "none", [ClientNext]_clientVars
  PROVE  raised' = "none"
<1>1. \A live : FitsPool(live)
  BY DEF FitsPool, Pooled
<1>2. ASSUME NEW launched, NEW flagged, Launch(launched, flagged) PROVE raised' = "none"
  BY <1>1, <1>2 DEF Launch
<1>3. ASSUME NEW req, NEW prefetch, NEW order, NEW dir, Gather(req, prefetch, order, dir)
      PROVE  raised' = "none"
  BY <1>2, <1>3 DEF Gather, AllGatherParams, pipelineVars
<1>4. ASSUME NEW req \in SUBSET Bucket, NEW dir \in BOOLEAN,
             Keys(req, dir) \subseteq held, Wait(req, dir)
      PROVE  raised' = "none"
  BY <1>4, WaitKeeps
<1>5. CASE GatherAll
  BY <1>1, <1>5 DEF GatherAll, GatherEverything
<1> QED
  BY <1>3, <1>4, <1>5
     DEF ClientNext, clientVars, pipelineVars, Release, ReleaseBuckets, ReleaseLazily,
         MarkReleasable, ReleaseUnits, MarkUnitsReleasable, ResetAll, Reset, Install,
         InstallWeights

\* Without the fixed pool no hook raises, whatever the prefetch limit, the layout
\* of buckets and the way of training: every wait finds its bucket gathered.
THEOREM NoHookRaises == ASSUME ~FsdpDoubleBuffer PROVE Spec => []NoError
<1>1. Init => NoError
  BY DEF Init, ClientInit, PipelineInit, NoError
<1>2. ContractInv /\ NoError /\ [Next]_vars => NoError'
  BY StepContract, CallSucceeds DEF ContractInv, NoError
<1> QED
  BY <1>1, <1>2, ContractInvariance, PTL DEF Spec

----------------------------------------------------------------------------
(* No unit stays in memory after its use.                                  *)

\* The keys of a module, and a key that no computation keeps for itself: it is
\* not ready, or it is recycled by the next gather.
KeysOf(m) == Keys(ModuleBuckets[m], FALSE) \cup Keys(ModuleBuckets[m], TRUE)
Quiet(k) == bucket_status[k] = "READY_TO_USE" => bucket_can_be_released[k]

\* The units that the hooks behind their inputs release.
Returned(m) == IsUnit[m] /\ setup.has_grad_input[m]

\* The backward pass leaves the units behind it quiet, and so they are when the
\* last one has ended; an evaluation pass uses one module at a time.
LeftQuiet ==
  /\ bwd.stage = "release" => \A k \in Keys(ModuleBuckets[bwd.mod], TRUE) : Quiet(k)
  /\ InBackward =>
       \A m \in Module : Returned(m) /\ (bwd.mod < m \/ bwd.stage = "root") =>
         \A k \in KeysOf(m) : Quiet(k)
  /\ ~InBackward /\ pending = "step" /\ graphs = 0 /\ ~fwd.grad =>
       \A m \in Module : Returned(m) =>
         \A k \in KeysOf(m) :
           Quiet(k) \/ (fwd.stage \in {"wait", "run"} /\ k \in Keys(ModuleBuckets[fwd.mod], FALSE))

\* A gather or a wait disturbs the keys it names and no other: a key that was
\* marked is recycled when the marks are cleared.
LEMMA OthersStayQuiet ==
  ASSUME IInv, NEW req \in SUBSET Bucket, NEW dir \in BOOLEAN,
         NEW k \in Key, k \notin Keys(req, dir), Quiet(k),
         \/ \E prefetch \in BOOLEAN, order \in Order : Gather(req, prefetch, order, dir)
         \/ Wait(req, dir)
  PROVE  Quiet(k)'
<1>1. ASSUME NEW launched, NEW flagged, Launch(launched, flagged),
             bucket_can_be_released[k] => k \in flagged
      PROVE  Quiet(k)'
  BY <1>1 DEF Launch, Fail, Quiet
<1>2. ASSUME NEW prefetch \in BOOLEAN, NEW order \in Order, Gather(req, prefetch, order, dir)
      PROVE  Quiet(k)'
  <2> DEFINE launched == Launchable(req \cup IF prefetch THEN Prefetched(req, order) ELSE {}, dir)
             flagged  == Flagged({KeyOf(b, dir) : b \in req})
  <2>1. bucket_can_be_released[k] => k \in flagged
    BY DEF Flagged, Keys
  <2>2. \/ Launch(launched, flagged)
        \/ UNCHANGED <<bucket_status, bucket_can_be_released>>
        \/ /\ UNCHANGED bucket_status
           /\ bucket_can_be_released' =
                [j \in Key |-> j \notin Keys(req, dir) /\ bucket_can_be_released[j]]
    BY <1>2 DEF Gather, AllGatherParams, Fail, pipelineVars, Keys
  <2> HIDE DEF launched, flagged
  <2>3. CASE UNCHANGED <<bucket_status, bucket_can_be_released>>
    BY <2>3 DEF Quiet
  <2>4. CASE /\ UNCHANGED bucket_status
             /\ bucket_can_be_released' =
                  [j \in Key |-> j \notin Keys(req, dir) /\ bucket_can_be_released[j]]
    BY <2>4 DEF Quiet
  <2> QED
    BY <1>1, <2>1, <2>2, <2>3, <2>4
<1>3. CASE Wait(req, dir)
  BY <1>3 DEF Wait, WaitBucketsReady, Fail, Quiet, Keys
<1> QED
  BY <1>2, <1>3

\* A release, immediate or lazy, quiets its own keys and disturbs no other.
LEMMA ReleasesQuieten ==
  ASSUME IInv, NEW req \in SUBSET Bucket, NEW dir \in BOOLEAN,
         Release(req, dir) \/ ReleaseLazily(req, dir), NEW k \in Key
  PROVE  /\ k \in Keys(req, dir) => Quiet(k)'
         /\ Quiet(k) => Quiet(k)'
<1>1. CASE Release(req, dir)
  BY <1>1 DEF Release, ReleaseBuckets, Free, Quiet, Keys
<1>2. CASE ReleaseLazily(req, dir)
  BY <1>2 DEF ReleaseLazily, MarkReleasable, Quiet, Keys
<1> QED
  BY <1>1, <1>2

\* Nothing is left to release after a reset.
LEMMA ResetQuiets == ASSUME ResetAll, NEW k \in Key PROVE Quiet(k)'
BY DEF ResetAll, Reset, Free, Quiet

LEMMA KeysOfTyped == ASSUME NEW m \in Module PROVE KeysOf(m) \subseteq Key
BY ModulesTyped, KeysTyped DEF KeysOf

\* A unit's keys are no other module's.
LEMMA KeysOfApart ==
  ASSUME UnitsDisjoint, NEW m \in Module, IsUnit[m], NEW n \in Module, m # n,
         NEW k \in KeysOf(m), NEW dir \in BOOLEAN
  PROVE  k \notin Keys(ModuleBuckets[n], dir)
BY UnitKeysApart DEF KeysOf

\* The forward pass, and the recomputation within a backward pass, disturb one
\* module at a time and leave it quiet.
LEMMA ForwardQuiet ==
  ASSUME UnitsDisjoint, ContractInv, LeftQuiet, raised = "none", setup' = setup,
         PreForward \/ PreForwardWait \/ PostForward
  PROVE  LeftQuiet'
<1> USE DEF ContractInv, ControlInv
<1>1. /\ fwd.mod \in Module /\ fwd.last \in Module /\ fwd.mod <= fwd.last
      /\ fwd.stage \in {"pre", "wait", "run"} /\ bwd' = bwd
      /\ bwd.stage # "release" /\ bwd.stage # "root"
      /\ InBackward => fwd.mod <= bwd.mod /\ bwd.mod \in Module
      /\ pending' = pending
  BY DEF PreForward, PreForwardWait, PostForward, HookTypes, Control, InForward, InBackward
<1>2. ASSUME NEW k \in Key, Quiet(k), k \notin Keys(ModuleBuckets[fwd.mod], FALSE)
      PROVE  Quiet(k)'
  <2>1. CASE PreForward
    <3>1. \E prefetch \in BOOLEAN, order \in Order :
            Gather(ModuleBuckets[fwd.mod], prefetch, order, FALSE)
      BY <2>1 DEF PreForward, UnshardForward, Order
    <3> QED
      BY <1>1, <1>2, <3>1, OthersStayQuiet, ModulesTyped
  <2>2. CASE PreForwardWait
    BY <1>1, <1>2, <2>2, OthersStayQuiet, ModulesTyped DEF PreForwardWait
  <2>3. CASE PostForward
    <3>1. \/ Release(ModuleBuckets[fwd.mod], FALSE) \/ ReleaseLazily(ModuleBuckets[fwd.mod], FALSE)
          \/ UNCHANGED clientVars
      BY <2>3 DEF PostForward, ReleaseModule
    <3>2. CASE UNCHANGED clientVars
      BY <1>2, <3>2 DEF clientVars, pipelineVars, Quiet
    <3> QED
      BY <1>1, <1>2, <3>1, <3>2, ReleasesQuieten, ModulesTyped
  <2> QED
    BY <2>1, <2>2, <2>3
<1>3. InBackward' => \A m \in Module : Returned(m)' /\ (bwd'.mod < m \/ bwd'.stage = "root") =>
                       \A k \in KeysOf(m) : Quiet(k)'
  <2> SUFFICES ASSUME InBackward, NEW m \in Module, Returned(m), bwd.mod < m, NEW k \in KeysOf(m)
               PROVE  Quiet(k)'
    BY <1>1 DEF InBackward, Returned
  <2>1. Quiet(k)
    BY DEF LeftQuiet
  <2>2. m # fwd.mod
    BY <1>1 DEF Module
  <2> QED
    BY <1>1, <1>2, <2>1, <2>2, KeysOfApart, KeysOfTyped DEF Returned
<1>4. ~InBackward' /\ pending' = "step" /\ graphs' = 0 /\ ~fwd'.grad =>
        \A m \in Module : Returned(m)' =>
          \A k \in KeysOf(m) :
            Quiet(k)' \/ (fwd'.stage \in {"wait", "run"} /\ k \in Keys(ModuleBuckets[fwd'.mod], FALSE))
  <2> SUFFICES ASSUME ~InBackward, pending = "step", graphs' = 0, ~fwd'.grad,
                      NEW m \in Module, Returned(m), NEW k \in KeysOf(m)
               PROVE  \/ Quiet(k)'
                      \/ fwd'.stage \in {"wait", "run"} /\ k \in Keys(ModuleBuckets[fwd'.mod], FALSE)
    BY <1>1 DEF InBackward, Returned
  <2>1. k \in Key
    BY KeysOfTyped
  <2>2. graphs = 0 /\ ~fwd.grad
    <3>1. CASE PreForward \/ PreForwardWait
      BY <3>1 DEF PreForward, PreForwardWait, HookTypes
    <3>2. CASE PostForward /\ fwd.mod = fwd.last
      <4>1. graphs' = IF fwd.grad THEN graphs + 1 ELSE graphs
        BY <3>2 DEF PostForward, NextForward
      <4>2. graphs \in Nat
        BY HooksAssumption DEF HookTypes, ValidSetup
      <4> QED
        BY <4>1, <4>2
    <3>3. CASE PostForward /\ fwd.mod # fwd.last
      BY <3>3 DEF PostForward, NextForward, HookTypes
    <3> QED
      BY <3>1, <3>2, <3>3
  <2>3. k \notin Keys(ModuleBuckets[fwd.mod], FALSE) => Quiet(k)'
    BY <1>2, <2>1, <2>2 DEF LeftQuiet
  <2>4. CASE PreForward \/ PreForwardWait
    <3>1. fwd'.stage \in {"wait", "run"} /\ fwd'.mod = fwd.mod
      BY <2>4 DEF PreForward, PreForwardWait, HookTypes
    <3> QED
      BY <2>3, <3>1
  <2>5. CASE PostForward /\ k \in Keys(ModuleBuckets[fwd.mod], FALSE)
    <3>1. fwd.mod = m
      BY <1>1, <2>5, KeysOfApart DEF Returned
    <3>2. Release(ModuleBuckets[m], FALSE) \/ ReleaseLazily(ModuleBuckets[m], FALSE)
      BY <2>5, <3>1 DEF PostForward, ReleaseModule, Returned
    <3> QED
      BY <2>1, <2>5, <3>1, <3>2, ReleasesQuieten, ModulesTyped
  <2> QED
    BY <2>3, <2>4, <2>5
<1> QED
  BY <1>1, <1>3, <1>4 DEF LeftQuiet

\* The backward pass quiets each module as it leaves it behind.
LEMMA BackwardQuiet ==
  ASSUME UnitsDisjoint, ContractInv, LeftQuiet, raised = "none", setup' = setup,
         PreBackward \/ PreBackwardWait \/ PostBackward \/ PostBackwardRelease
  PROVE  LeftQuiet'
<1> USE DEF ContractInv, ControlInv
<1>1. /\ InBackward /\ ~InForward /\ bwd.mod \in Module /\ bwd.stage # "root"
      /\ bwd'.mod # 0
  <2>1. InBackward /\ ~InForward /\ bwd.stage \notin {"root", "none"}
    BY DEF PreBackward, PreBackwardWait, PostBackward, PostBackwardRelease, Control, InForward,
           InBackward
  <2>2. bwd.mod \in Module
    BY <2>1 DEF HookTypes, InBackward
  <2> SUFFICES bwd'.mod # 0
    BY <2>1, <2>2
  <2>3. \/ \E stage \in {"wait", "run", "release"} : bwd' = [bwd EXCEPT !.stage = stage]
        \/ NextBackward
    BY DEF PreBackward, PreBackwardWait, PostBackward, PostBackwardRelease
  <2>4. CASE \E stage \in {"wait", "run", "release"} : bwd' = [bwd EXCEPT !.stage = stage]
    <3>1. PICK stage \in {"wait", "run", "release"} : bwd' = [bwd EXCEPT !.stage = stage]
      BY <2>4
    <3>2. bwd'.mod = bwd.mod
      BY <3>1 DEF HookTypes
    <3> QED
      BY <2>2, <3>2, HooksAssumption DEF Module
  <2>5. CASE NextBackward
    <3>1. CASE bwd.mod = 1
      <4>1. bwd' = [bwd EXCEPT !.stage = "root"]
        BY <2>5, <3>1 DEF NextBackward
      <4>2. bwd'.mod = bwd.mod
        BY <4>1 DEF HookTypes
      <4> QED
        BY <3>1, <4>2
    <3>2. CASE bwd.mod # 1
      <4>1. bwd'.mod = bwd.mod - 1
        BY <2>5, <3>2 DEF NextBackward
      <4> QED
        BY <2>2, <3>2, <4>1, HooksAssumption DEF Module
    <3> QED
      BY <3>1, <3>2
  <2> QED
    BY <2>3, <2>4, <2>5
<1>2. ASSUME NEW k \in Key, Quiet(k), k \notin KeysOf(bwd.mod)
      PROVE  Quiet(k)'
  <2>1. k \notin Keys(ModuleBuckets[bwd.mod], FALSE) /\ k \notin Keys(ModuleBuckets[bwd.mod], TRUE)
    BY <1>2 DEF KeysOf
  <2>2. \/ \E order \in Order, prefetch \in BOOLEAN :
             Gather(ModuleBuckets[bwd.mod], prefetch, order, TRUE)
        \/ Wait(ModuleBuckets[bwd.mod], TRUE)
        \/ \E dir \in BOOLEAN : Release(ModuleBuckets[bwd.mod], dir)
        \/ UNCHANGED clientVars
    BY DEF PreBackward, PreBackwardWait, PostBackward, PostBackwardRelease, Order
  <2>3. CASE UNCHANGED clientVars
    BY <1>2, <2>3 DEF clientVars, pipelineVars, Quiet
  <2> QED
    BY <1>1, <1>2, <2>1, <2>2, <2>3, OthersStayQuiet, ReleasesQuieten, ModulesTyped
<1>3. ASSUME NEW m \in Module, Returned(m), bwd.mod < m, NEW k \in KeysOf(m) PROVE Quiet(k)'
  <2>1. Quiet(k)
    BY <1>1, <1>3 DEF LeftQuiet
  <2>2. m # bwd.mod /\ IsUnit[m]
    BY <1>1, <1>3 DEF Returned, Module
  <2>3. ASSUME NEW dir \in BOOLEAN PROVE k \notin Keys(ModuleBuckets[bwd.mod], dir)
    BY <1>1, <1>3, <2>2, KeysOfApart
  <2>4. k \notin KeysOf(bwd.mod)
    BY <2>3 DEF KeysOf
  <2> QED
    BY <1>2, <1>3, <2>1, <2>4, KeysOfTyped
<1>4. CASE bwd'.mod = bwd.mod /\ bwd'.stage # "root"
  <2>1. bwd'.stage = "release" => \A k \in Keys(ModuleBuckets[bwd'.mod], TRUE) : Quiet(k)'
    <3>1. SUFFICES ASSUME bwd'.stage = "release", NEW k \in Keys(ModuleBuckets[bwd.mod], TRUE)
                   PROVE  Quiet(k)'
      BY <1>4
    <3>2. ~(PreBackward \/ PreBackwardWait)
      BY <3>1 DEF PreBackward, PreBackwardWait, HookTypes
    <3>3. ~NextBackward
      BY <1>1, <1>4, <3>1 DEF NextBackward, HookTypes
    <3>4. Release(ModuleBuckets[bwd.mod], TRUE)
      BY <3>2, <3>3 DEF PostBackward, PostBackwardRelease
    <3> QED
      BY <1>1, <3>4, ReleasesQuieten, ModulesTyped, KeysTyped
  <2>2. \A m \in Module : Returned(m)' /\ bwd'.mod < m => \A k \in KeysOf(m) : Quiet(k)'
    BY <1>3, <1>4 DEF Returned
  <2> QED
    BY <1>1, <1>4, <2>1, <2>2 DEF LeftQuiet, InBackward
<1>5. CASE NextBackward /\ (PostBackward \/ PostBackwardRelease)
  <2>1. Returned(bwd.mod) => \A k \in KeysOf(bwd.mod) : Quiet(k)'
    <3>1. SUFFICES ASSUME Returned(bwd.mod), NEW k \in KeysOf(bwd.mod) PROVE Quiet(k)'
      OBVIOUS
    <3>2. CASE PostBackward
      <4>1. bwd' = [bwd EXCEPT !.stage = "release"]
        BY <3>1, <3>2 DEF PostBackward, Returned
      <4>2. bwd'.mod = bwd.mod /\ bwd'.stage = "release"
        BY <4>1 DEF HookTypes
      <4> QED
        BY <1>1, <1>5, <4>2 DEF NextBackward, Module, HookTypes
    <3>3. CASE PostBackwardRelease
      <4>1. k \in Keys(ModuleBuckets[bwd.mod], TRUE) => Quiet(k)
        BY <3>3 DEF PostBackwardRelease, LeftQuiet
      <4> QED
        BY <1>1, <3>3, <4>1, ReleasesQuieten, ModulesTyped, KeysOfTyped
           DEF PostBackwardRelease, KeysOf
    <3> QED
      BY <1>5, <3>2, <3>3
  <2>2. \A m \in Module : Returned(m) /\ bwd.mod <= m => \A k \in KeysOf(m) : Quiet(k)'
    BY <1>1, <1>3, <2>1 DEF Module
  <2>3. /\ bwd'.stage # "release"
        /\ \A m \in Module : bwd'.mod < m \/ bwd'.stage = "root" => bwd.mod <= m
    BY <1>1, <1>5 DEF NextBackward, Module, HookTypes
  <2>4. \A m \in Module : Returned(m)' /\ (bwd'.mod < m \/ bwd'.stage = "root") =>
          \A k \in KeysOf(m) : Quiet(k)'
    BY <2>2, <2>3 DEF Returned
  <2> QED
    BY <1>1, <2>3, <2>4 DEF LeftQuiet, InBackward
<1> QED
  <2>1. \/ bwd'.mod = bwd.mod /\ bwd'.stage # "root"
        \/ NextBackward /\ (PostBackward \/ PostBackwardRelease)
    BY DEF PreBackward, PreBackwardWait, PostBackward, PostBackwardRelease, HookTypes
  <2> QED
    BY <1>4, <1>5, <2>1

\* No step brings back a unit that has been left behind.
LEMMA QuietStep ==
  ASSUME UnitsDisjoint, ContractInv, LeftQuiet, [Next]_vars PROVE LeftQuiet'
<1> USE DEF ContractInv, ControlInv
<1>1. CASE UNCHANGED vars
  BY <1>1 DEF vars, hookVars, clientVars, pipelineVars, LeftQuiet, InBackward, Returned, Quiet
<1>2. CASE setup' = setup /\ RootPreBackward
  <2>1. bwd'.stage = "pre" /\ bwd'.mod = NumModules /\ NumModules \in Nat \ {0}
    BY <1>2, HooksAssumption DEF RootPreBackward
  <2>2. InBackward' /\ bwd'.stage \notin {"release", "root"}
    BY <2>1 DEF InBackward
  <2>3. \A m \in Module : ~(bwd'.mod < m)
    BY <2>1 DEF Module
  <2> QED
    BY <2>2, <2>3 DEF LeftQuiet
<1>3. CASE setup' = setup /\ RootPostBackward
  <2>1. /\ InBackward /\ bwd.stage = "root" /\ bwd'.stage = "none" /\ bwd'.mod = 0
    BY <1>3 DEF RootPostBackward, NoBackward, Control
  <2>2. ASSUME NEW m \in Module, Returned(m), NEW k \in KeysOf(m) PROVE Quiet(k)'
    <3>1. CASE setup.auto_sync
      BY <1>3, <2>2, <3>1, ResetQuiets, KeysOfTyped DEF RootPostBackward
    <3>2. CASE ~setup.auto_sync
      BY <1>3, <2>1, <2>2, <3>2 DEF RootPostBackward, clientVars, pipelineVars, LeftQuiet, Quiet
    <3> QED
      BY <3>1, <3>2
  <2>3. \A m \in Module : Returned(m)' => \A k \in KeysOf(m) : Quiet(k)'
    BY <1>3, <2>2 DEF Returned
  <2> QED
    BY <2>1, <2>3 DEF LeftQuiet, InBackward
<1>4. CASE setup' = setup /\ (BeginStep \/ EndStep \/ StartParamSync \/ BeginForcedSync \/ EndForcedSync)
  <2>1. ~InBackward /\ bwd' = bwd /\ pending' # "step"
    BY <1>4 DEF BeginStep, EndStep, StartParamSync, BeginForcedSync, EndForcedSync, hookVars,
         Control, Idle
  <2>2. bwd.stage = "none"
    BY <2>1 DEF Control
  <2> QED
    BY <2>1, <2>2 DEF LeftQuiet, InBackward
<1>5. CASE setup' = setup /\ ((\E grad \in BOOLEAN : StartForward(grad)) \/ StopRecompute \/ Recompute)
  <2>1. UNCHANGED <<bucket_status, bucket_can_be_released, graphs, pending>>
    BY <1>5 DEF StartForward, StopRecompute, Recompute, clientVars, pipelineVars
  <2>2. /\ bwd'.mod = bwd.mod /\ bwd'.stage = bwd.stage
        /\ ~InBackward => ~fwd.grad /\ fwd.stage = "none"
    BY <1>5 DEF StartForward, StopRecompute, Recompute, NeedsRecompute, HookTypes, Control, Idle,
         InBackward, InForward
  <2>3. \A k : Quiet(k)' <=> Quiet(k)
    BY <2>1 DEF Quiet
  <2>4. \A m \in Module : Returned(m)' <=> Returned(m)
    BY <1>5 DEF Returned
  <2> QED
    BY <2>1, <2>2, <2>3, <2>4 DEF LeftQuiet, InBackward
<1> QED
  BY <1>1, <1>2, <1>3, <1>4, <1>5, ForwardQuiet, BackwardQuiet DEF Next

\* Once the backward passes are done and before the optimizer steps, no unit whose
\* inputs carry a gradient stays unsharded unless the next gather recycles it, for
\* every model, layout of buckets, prefetch limit and way of training.
THEOREM UnitsReleased == ASSUME UnitsDisjoint PROVE Spec => []UnitsReleasedAfterUse
<1>1. Init => LeftQuiet
  BY DEF Init, LeftQuiet, InBackward, NotRunning, NoBackward
<1>2. ContractInv /\ LeftQuiet /\ [Next]_vars => LeftQuiet'
  BY QuietStep
<1>3. ContractInv /\ LeftQuiet => UnitsReleasedAfterUse
  BY DEF ContractInv, ControlInv, Control, LeftQuiet, UnitsReleasedAfterUse, Idle, InForward,
         InBackward, Returned, KeysOf, Quiet
<1> QED
  BY <1>1, <1>2, <1>3, ContractInvariance, PTL DEF Spec

----------------------------------------------------------------------------
(* What a gather fetches ahead.                                            *)

\* A set of numbers with a bound has a least and a greatest member.
LEMMA Bottom ==
  ASSUME NEW S, S \subseteq Int, NEW x \in S, NEW low \in Int, \A y \in S : low <= y
  PROVE  Min(S) \in S /\ \A y \in S : Min(S) <= y
<1> DEFINE T == {y - low : y \in S}
<1>1. T \subseteq Nat /\ x - low \in T
  OBVIOUS
<1>2. PICK n \in T : \A m \in T : n <= m
  BY <1>1, Least
<1>3. PICK y \in S : n = y - low
  BY <1>2
<1>4. \A z \in S : z \in Int /\ y <= z
  <2> SUFFICES ASSUME NEW z \in S PROVE z \in Int /\ y <= z
    OBVIOUS
  <2>1. z - low \in T
    OBVIOUS
  <2>2. n <= z - low
    BY <1>2, <2>1
  <2> QED
    BY <1>3, <2>2
<1> QED
  BY <1>4 DEF Min

LEMMA Top ==
  ASSUME NEW S, S \subseteq Int, NEW x \in S, NEW high \in Int, \A y \in S : y <= high
  PROVE  Max(S) \in S /\ \A y \in S : y <= Max(S)
<1> DEFINE T == {high - y : y \in S}
<1>1. T \subseteq Nat /\ high - x \in T
  OBVIOUS
<1>2. PICK n \in T : \A m \in T : n <= m
  BY <1>1, Least
<1>3. PICK y \in S : n = high - y
  BY <1>2
<1>4. \A z \in S : z \in Int /\ z <= y
  <2> SUFFICES ASSUME NEW z \in S PROVE z \in Int /\ z <= y
    OBVIOUS
  <2>1. high - z \in T
    OBVIOUS
  <2>2. n <= high - z
    BY <1>2, <2>1
  <2> QED
    BY <1>3, <2>2
<1> QED
  BY <1>4 DEF Max

\* What the search goes on with: the first bucket not asked for yet beyond the
\* first or the last one asked for, and all between are asked for.
LEMMA NextAfter ==
  ASSUME NEW A \in SUBSET Bucket, NEW r \in A,
         NEW c, c = NextBucketId(A, "FORWARD_PASS_ORDER"), c \in Bucket
  PROVE  /\ c \notin A /\ Min(A) \in A /\ Min(A) < c /\ Min(A) <= r
         /\ \A b \in Bucket : r < b /\ b < c => b \in A
<1>1. NumBuckets \in Nat /\ A \subseteq Int /\ \A b \in A : 0 <= b
  BY PipelineAssumption DEF Bucket
<1>2. Min(A) \in A /\ \A b \in A : Min(A) <= b
  BY <1>1, Bottom, 0 \in Int
<1> DEFINE S == {b \in Min(A) + 1 .. NumBuckets : b \notin A}
<1>3. Min(A) \in Int /\ Min(A) < NumBuckets /\ NumBuckets \in S
  <2>1. Min(A) \in Bucket
    BY <1>2
  <2>2. NumBuckets \notin Bucket
    BY <1>1 DEF Bucket
  <2> QED
    BY <1>1, <2>1, <2>2 DEF Bucket
<1>4. S \subseteq Int /\ \A b \in S : Min(A) <= b
  BY <1>3
<1>5. Min(S) \in S /\ \A b \in S : Min(S) <= b
  BY <1>3, <1>4, Bottom
<1>6. c = Min(S)
  BY DEF NextBucketId
<1> HIDE DEF S
<1>7. c \in S /\ \A b \in S : c <= b
  BY <1>5, <1>6
<1> QED
  BY <1>1, <1>2, <1>3, <1>7 DEF S, Bucket

LEMMA NextBefore ==
  ASSUME NEW A \in SUBSET Bucket, NEW r \in A,
         NEW c, c = NextBucketId(A, "BACKWARD_PASS_ORDER"), c \in Bucket
  PROVE  /\ c \notin A /\ Max(A) \in A /\ c < Max(A) /\ r <= Max(A)
         /\ \A b \in Bucket : c < b /\ b < r => b \in A
<1>1. NumBuckets \in Int /\ A \subseteq Int /\ r \in A /\ \A b \in A : b <= NumBuckets
  BY PipelineAssumption DEF Bucket
<1>2. Max(A) \in A /\ \A b \in A : b <= Max(A)
  BY <1>1, Top
<1> DEFINE S == {b \in -1 .. Max(A) - 1 : b \notin A}
<1>3. Max(A) \in Int /\ 0 <= Max(A) /\ -1 \in S
  <2>1. Max(A) \in Bucket
    BY <1>2
  <2>2. -1 \notin Bucket
    BY <1>1 DEF Bucket
  <2> QED
    BY <1>1, <2>1, <2>2 DEF Bucket
<1>4. S \subseteq Int /\ \A b \in S : b <= Max(A)
  BY <1>3
<1>5. Max(S) \in S /\ \A b \in S : b <= Max(S)
  BY <1>3, <1>4, Top
<1>6. c = Max(S)
  BY DEF NextBucketId
<1> HIDE DEF S
<1>7. c \in S /\ \A b \in S : b <= c
  BY <1>5, <1>6
<1> QED
  BY <1>1, <1>2, <1>3, <1>7 DEF S, Bucket

\* The search as a table: how far it has got after each step.
Extends(req, order, f) ==
  f = [n \in 0 .. NumBuckets |->
         IF n = 0 THEN req
         ELSE LET A == f[n - 1]
                  c == NextBucketId(A, order)
              IN  IF MayPrefetch(req, A, c) THEN A \cup GroupOf[c] ELSE A]

LEMMA PrefetchedByTable ==
  ASSUME NEW req, NEW order
  PROVE  Prefetched(req, order) = (CHOOSE f : Extends(req, order, f))[NumBuckets] \ req
BY DEF Prefetched, Extends

\* a function may be iterated
Iterated(f, T, A, base, n) ==
  f \in [0 .. n -> A] /\ f[0] = base /\ \A k \in 1 .. n : f[k] = T[f[k - 1]]

LEMMA Iterates ==
  ASSUME NEW A, NEW base \in A, NEW T \in [A -> A], NEW n \in Nat
  PROVE  \E f : Iterated(f, T, A, base, n)
<1> DEFINE Good == {m \in Nat : \E f \in [0 .. m -> A] :
                                  f[0] = base /\ \A k \in 1 .. m : f[k] = T[f[k - 1]]}
<1>1. 0 \in Good
  <2> DEFINE f == [k \in 0 .. 0 |-> base]
  <2>1. f \in [0 .. 0 -> A] /\ f[0] = base /\ \A k \in 1 .. 0 : f[k] = T[f[k - 1]]
    OBVIOUS
  <2> QED
    BY <2>1
<1>2. ASSUME NEW m \in Nat, m \in Good PROVE m + 1 \in Good
  <2>1. PICK f \in [0 .. m -> A] : f[0] = base /\ \A k \in 1 .. m : f[k] = T[f[k - 1]]
    BY <1>2
  <2> DEFINE g == [k \in 0 .. m + 1 |-> IF k = m + 1 THEN T[f[m]] ELSE f[k]]
  <2>2. g \in [0 .. m + 1 -> A]
    BY <2>1
  <2>3. g[0] = base
    BY <2>1
  <2>4. ASSUME NEW k \in 1 .. m + 1 PROVE g[k] = T[g[k - 1]]
    <3>1. CASE k = m + 1
      <4>1. k - 1 = m /\ m \in 0 .. m + 1 /\ m # m + 1 /\ k \in 0 .. m + 1
        BY <3>1
      <4> QED
        BY <3>1, <4>1
    <3>2. CASE k # m + 1
      <4>1. k \in 1 .. m /\ k - 1 \in 0 .. m + 1 /\ k - 1 # m + 1 /\ k \in 0 .. m + 1
        BY <3>2
      <4> QED
        BY <2>1, <3>2, <4>1
    <3> QED
      BY <3>1, <3>2
  <2> HIDE DEF g
  <2> QED
    BY <2>2, <2>3, <2>4
<1> HIDE DEF Good
<1>3. n \in Good
  BY <1>1, <1>2, Induct
<1> QED
  BY <1>3 DEF Good, Iterated

LEMMA ExtendsExists ==
  ASSUME NEW req \in SUBSET Bucket, NEW order
  PROVE  \E f : Extends(req, order, f)
<1> DEFINE T == [A \in SUBSET Bucket |->
                   IF MayPrefetch(req, A, NextBucketId(A, order))
                   THEN A \cup GroupOf[NextBucketId(A, order)] ELSE A]
<1>1. T \in [SUBSET Bucket -> SUBSET Bucket]
  <2> SUFFICES ASSUME NEW A \in SUBSET Bucket, MayPrefetch(req, A, NextBucketId(A, order))
               PROVE  GroupOf[NextBucketId(A, order)] \in SUBSET Bucket
    OBVIOUS
  <2> QED
    BY PipelineAssumption DEF MayPrefetch
<1>2. \A A \in SUBSET Bucket :
        T[A] = IF MayPrefetch(req, A, NextBucketId(A, order))
               THEN A \cup GroupOf[NextBucketId(A, order)] ELSE A
  OBVIOUS
<1> HIDE DEF T
<1>3. NumBuckets \in Nat
  BY PipelineAssumption
<1>4. PICK f \in [0 .. NumBuckets -> SUBSET Bucket] :
        f[0] = req /\ \A k \in 1 .. NumBuckets : f[k] = T[f[k - 1]]
  <2> DEFINE D == SUBSET Bucket
  <2>1. req \in D /\ T \in [D -> D]
    BY <1>1
  <2> HIDE DEF D
  <2>2. \E f : Iterated(f, T, D, req, NumBuckets)
    BY <1>3, <2>1, Iterates
  <2> QED
    BY <2>2 DEF D, Iterated
<1> DEFINE F(n) == IF n = 0 THEN req
                   ELSE IF MayPrefetch(req, f[n - 1], NextBucketId(f[n - 1], order))
                        THEN f[n - 1] \cup GroupOf[NextBucketId(f[n - 1], order)] ELSE f[n - 1]
<1>5. ASSUME NEW n \in 0 .. NumBuckets PROVE f[n] = F(n)
  <2>1. CASE n = 0
    BY <1>4, <2>1
  <2>2. CASE n # 0
    <3>1. n \in 1 .. NumBuckets /\ n - 1 \in 0 .. NumBuckets
      BY <1>3, <2>2
    <3>2. f[n] = T[f[n - 1]] /\ f[n - 1] \in SUBSET Bucket
      BY <1>4, <3>1
    <3> QED
      BY <1>2, <2>2, <3>2
  <2> QED
    BY <2>1, <2>2
<1>6. f = [n \in 0 .. NumBuckets |-> F(n)]
  BY <1>4, <1>5
<1> QED
  BY <1>6 DEF Extends

\* What is fetched ahead is of a set of buckets, if no step of the search leaves it.
LEMMA PrefetchedIn ==
  ASSUME NEW req \in SUBSET Bucket, NEW order, NEW T,
         \A A \in SUBSET Bucket : req \subseteq A /\ A \subseteq req \cup T =>
           \A c \in Bucket : c = NextBucketId(A, order) /\ MayPrefetch(req, A, c) => GroupOf[c] \subseteq T
  PROVE  Prefetched(req, order) \subseteq T
<1> DEFINE f == CHOOSE f : Extends(req, order, f)
<1>1. Extends(req, order, f)
  BY ExtendsExists
<1>2. Prefetched(req, order) = f[NumBuckets] \ req
  BY PrefetchedByTable
<1> HIDE DEF f
<1>3. NumBuckets \in Nat
  BY PipelineAssumption
<1> DEFINE Within(A) == A \in SUBSET Bucket /\ req \subseteq A /\ A \subseteq req \cup T
           Good == {n \in Nat : n <= NumBuckets => Within(f[n])}
<1>4. 0 \in Good
  BY <1>1, <1>3 DEF Extends
<1>5. ASSUME NEW n \in Nat, n \in Good PROVE n + 1 \in Good
  <2>1. SUFFICES ASSUME n + 1 <= NumBuckets PROVE Within(f[n + 1])
    OBVIOUS
  <2>2. Within(f[n])
    BY <1>3, <1>5, <2>1
  <2>3. n + 1 \in 0 .. NumBuckets /\ n + 1 # 0 /\ (n + 1) - 1 = n
    BY <1>3, <2>1
  <2> DEFINE c == NextBucketId(f[n], order)
  <2>4. f[n + 1] = IF MayPrefetch(req, f[n], c) THEN f[n] \cup GroupOf[c] ELSE f[n]
    BY <1>1, <2>3 DEF Extends
  <2>5. CASE MayPrefetch(req, f[n], c)
    <3>1. c \in Bucket
      BY <2>5 DEF MayPrefetch
    <3>2. GroupOf[c] \subseteq T /\ GroupOf[c] \in SUBSET Bucket
      BY <2>2, <2>5, <3>1, PipelineAssumption
    <3> HIDE DEF c
    <3> QED
      BY <2>2, <2>4, <2>5, <3>2
  <2> QED
    BY <2>2, <2>4, <2>5
<1> HIDE DEF Good
<1>6. NumBuckets \in Good
  BY <1>3, <1>4, <1>5, Induct
<1>7. Within(f[NumBuckets])
  BY <1>3, <1>6 DEF Good
<1> QED
  BY <1>2, <1>7

\* Each bucket is within the size of the buckets it is one of.
SizesSummed(A, g) ==
  g = [s \in SUBSET A |-> IF s = {} THEN 0 ELSE BucketSize[Picked(s)] + g[s \ {Picked(s)}]]

LEMMA SizeChosen ==
  ASSUME NEW A PROVE SizeOf(A) = (CHOOSE g : SizesSummed(A, g))[A]
<1>1. SizeOf(A)
        = MapThenFoldSet(+, 0, LAMBDA b : BucketSize[b], LAMBDA s : CHOOSE x \in s : TRUE, A)
  BY DEF SizeOf, MapThenSumSet
<1>2. MapThenFoldSet(+, 0, LAMBDA b : BucketSize[b], LAMBDA s : CHOOSE x \in s : TRUE, A)
        = (CHOOSE g : g = [s \in SUBSET A |->
             IF s = {} THEN 0 ELSE BucketSize[CHOOSE x \in s : TRUE] + g[s \ {CHOOSE x \in s : TRUE}]])[A]
  BY DEF MapThenFoldSet
<1> QED
  BY <1>1, <1>2 DEF SizesSummed, Picked

LEMMA FiniteBucket == IsFiniteSet(Bucket) /\ \A A \in SUBSET Bucket : IsFiniteSet(A)
<1>1. NumBuckets - 1 \in Int
  BY PipelineAssumption
<1>2. IsFiniteSet(Bucket)
  BY <1>1, FS_Interval DEF Bucket
<1> QED
  BY <1>2, FS_Subset

\* A sum of numbers that are not negative is at least each of them.
LEMMA TermInSum ==
  ASSUME NEW S, IsFiniteSet(S), NEW f \in [S -> Nat], NEW g, SumsUp(g, f, S), NEW x \in S
  PROVE  f[x] <= g[S]
<1> DEFINE Good == {s \in SUBSET S : g[s] \in Nat}
<1>1. {} \in Good
  BY DEF SumsUp
<1>2. ASSUME NEW s \in SUBSET S, s # {},
             \A t \in SUBSET S : Cardinality(t) < Cardinality(s) => t \in Good
      PROVE  s \in Good
  <2>1. PICK y \in s : TRUE
    BY <1>2
  <2>2. IsFiniteSet(s)
    BY FS_Subset
  <2>3. Cardinality(s \ {y}) < Cardinality(s)
    <3>1. /\ Cardinality(s) \in Nat /\ Cardinality(s \ {y}) \in Nat
          /\ Cardinality(s) = Cardinality(s \ {y}) + 1
      BY <2>1, <2>2, Fewer
    <3> QED
      BY <3>1
  <2>4. g[s \ {y}] \in Nat
    BY <1>2, <2>3
  <2>5. g[s] = f[y] + g[s \ {y}] /\ f[y] \in Nat
    BY <2>1 DEF SumsUp
  <2> QED
    BY <2>4, <2>5
<1> HIDE DEF Good
<1>3. SUBSET S \subseteq Good
  BY <1>1, <1>2, FiniteInduct
<1>4. g[S \ {x}] \in Nat
  BY <1>3 DEF Good
<1>5. g[S] = f[x] + g[S \ {x}] /\ f[x] \in Nat
  BY DEF SumsUp
<1> QED
  BY <1>4, <1>5

LEMMA SizeAtLeast ==
  ASSUME NEW A \in SUBSET Bucket, NEW x \in A
  PROVE  SizeOf(A) \in Int /\ BucketSize[x] <= SizeOf(A)
<1> DEFINE h == [b \in A |-> BucketSize[b]]
           chosen == CHOOSE g : SizesSummed(A, g)
<1>1. h \in [A -> Nat] /\ h \in [A -> Int] /\ \A b \in A : h[b] = BucketSize[b]
  BY PipelineAssumption
<1>2. IsFiniteSet(A)
  BY FiniteBucket
<1> HIDE DEF h
<1>3. PICK g \in [SUBSET A -> Int] : SumTable(g, h, A)
  BY <1>1, <1>2, SumTableExists
<1>4. SizesSummed(A, g)
  <2>1. ASSUME NEW s \in SUBSET A
        PROVE  g[s] = IF s = {} THEN 0 ELSE BucketSize[Picked(s)] + g[s \ {Picked(s)}]
    <3>1. s # {} => h[Picked(s)] = BucketSize[Picked(s)]
      BY <1>1, PickedIn
    <3> QED
      BY <1>3, <3>1 DEF SumTable
  <2> QED
    BY <1>3, <2>1 DEF SizesSummed
<1>5. SizesSummed(A, chosen)
  BY <1>4
<1> HIDE DEF chosen
<1>6. SumTable(chosen, h, A)
  <2>1. ASSUME NEW s \in SUBSET A
        PROVE  chosen[s] = IF s = {} THEN 0 ELSE h[Picked(s)] + chosen[s \ {Picked(s)}]
    <3>1. s # {} => h[Picked(s)] = BucketSize[Picked(s)]
      BY <1>1, PickedIn
    <3> QED
      BY <1>5, <3>1 DEF SizesSummed
  <2> QED
    BY <2>1 DEF SumTable
<1>7. SumsUp(chosen, h, A)
  BY <1>1, <1>2, <1>6, SumAnyOrder
<1>8. chosen[A] \in Int /\ h[x] <= chosen[A]
  BY <1>1, <1>2, <1>7, TermInSum DEF SumsUp
<1> QED
  BY <1>1, <1>8, SizeChosen DEF chosen

\* Three different elements of a finite set.
LEMMA ThreeIn ==
  ASSUME NEW S, IsFiniteSet(S), NEW x \in S, NEW y \in S, NEW z \in S, x # y, y # z, x # z
  PROVE  ~(Cardinality(S) <= 2)
<1> DEFINE Two == {x} \cup {y}
           Three == Two \cup {z}
<1>1. IsFiniteSet({x}) /\ Cardinality({x}) = 1 /\ y \notin {x}
  BY FS_Singleton
<1>2. IsFiniteSet(Two) /\ Cardinality(Two) = Cardinality({x}) + 1
  BY <1>1, FS_AddElement
<1>3. z \notin Two /\ Three \in SUBSET S
  OBVIOUS
<1> HIDE DEF Two
<1>4. Cardinality(Three) = Cardinality(Two) + 1
  BY <1>2, <1>3, FS_AddElement
<1> HIDE DEF Three
<1>5. Cardinality(Three) <= Cardinality(S) /\ Cardinality(S) \in Nat
  BY <1>3, FS_Subset, FS_CardinalityType
<1> QED
  BY <1>1, <1>2, <1>4, <1>5

\* The limit is reached: with a bucket of another unit fetched ahead, and one of a
\* further unit asked for or fetched, the search takes up no third unit.
LEMMA Full ==
  ASSUME OneUnitAhead, NEW req \in SUBSET Bucket, NEW A \in SUBSET Bucket, req \subseteq A,
         NEW x \in A, x \notin req, NEW y \in A, UnitOf[y] # NoUnit,
         NEW c \in Bucket, c \notin A,
         UnitOf[x] # UnitOf[y], UnitOf[x] # UnitOf[c], UnitOf[y] # UnitOf[c]
  PROVE  ~MayPrefetch(req, A, c)
<1>1. CASE \A b \in Bucket : PrefetchSize <= BucketSize[b]
  <2>1. PrefetchSize <= BucketSize[x] /\ PrefetchSize \in Nat /\ BucketSize[x] \in Nat
    BY <1>1, PipelineAssumption
  <2>2. SizeOf(A \ req) \in Int /\ BucketSize[x] <= SizeOf(A \ req)
    BY SizeAtLeast
  <2>3. ~(SizeOf(A \ req) < PrefetchSize)
    BY <2>1, <2>2
  <2> QED
    BY <2>3 DEF MayPrefetch
<1>2. CASE FsdpDoubleBuffer /\ \A b \in Bucket : UnitOf[b] # NoUnit => UnitOf[b] \in DoubleBufUnits
  <2> DEFINE B == A \cup {c}
             D == DoubleBuffered(req, B)
             of == [b \in B |-> UnitOf[b]]
             T == {of[b] : b \in B}
  <2>1. of \in Surjection(B, T) /\ IsFiniteSet(B)
    BY FiniteBucket DEF Surjection
  <2>2. IsFiniteSet(T)
    BY <2>1, FS_Surjection
  <2>3. D \in SUBSET T
    BY DEF DoubleBuffered
  <2>4. IsFiniteSet(D)
    BY <2>2, <2>3, FS_Subset
  <2>5. UnitOf[x] \in D /\ UnitOf[y] \in D /\ UnitOf[c] \in D
    BY <1>2 DEF DoubleBuffered
  <2>6. ~(Cardinality(D) <= 2)
    BY <2>4, <2>5, ThreeIn
  <2> QED
    BY <1>2, <2>6 DEF MayPrefetch
<1> QED
  BY <1>1, <1>2 DEF OneUnitAhead

----------------------------------------------------------------------------
(* Where buckets are in a chain of units.                                  *)

\* The buckets of the units among the modules in S, and a bucket that is of one of
\* them or of no unit at all.
OfUnits(S) == {b \in Bucket : \E m \in Module : m \in S /\ IsUnit[m] /\ b \in ModuleBuckets[m]}
InRoom(b, S) == UnitOf[b] # NoUnit => b \in OfUnits(S)

\* The first unit, and the first two.
FirstUnits == {m \in Module : IsUnit[m] /\ \A n \in Module : n < m => ~IsUnit[n]}
Leading == {m \in Module : IsUnit[m] /\ \A n \in Module : n + 1 < m => ~IsUnit[n]}

LEMMA InRoomGrows ==
  ASSUME NEW S, NEW T, \A m \in Module : m \in S /\ IsUnit[m] => m \in T, NEW b, InRoom(b, S)
  PROVE  InRoom(b, T)
BY DEF InRoom, OfUnits

\* A bucket with a unit is of one module, which is a unit.
LEMMA UnitBucket ==
  ASSUME UnitsInOrder, NEW b \in Bucket
  PROVE  \E m \in Module : b \in ModuleBuckets[m] /\ (IsUnit[m] <=> UnitOf[b] # NoUnit)
BY HooksAssumption DEF UnitsInOrder

LEMMA OneModule ==
  ASSUME UnitsInOrder, NEW m \in Module, NEW n \in Module, IsUnit[m],
         NEW b, b \in ModuleBuckets[m], b \in ModuleBuckets[n]
  PROVE  m = n
<1>1. b \in Bucket /\ m \in Int /\ n \in Int
  BY ModulesTyped DEF Module
<1>2. IsUnit[n]
  BY <1>1, HooksAssumption
<1>3. ~(m < n) /\ ~(n < m)
  BY <1>2 DEF UnitsInOrder
<1> QED
  BY <1>1, <1>3

\* Buckets of different units are apart, in the order of the units.
LEMMA UnitsApart ==
  ASSUME UnitsInOrder, NEW m \in Module, NEW n \in Module, IsUnit[m], IsUnit[n], m < n,
         NEW b \in ModuleBuckets[m], NEW c \in ModuleBuckets[n]
  PROVE  b < c /\ UnitOf[b] # UnitOf[c]
BY DEF UnitsInOrder

\* A group is gathered as one, and stays within a unit.
LEMMA GroupInRoom ==
  ASSUME UnitsInOrder, NEW S, NEW c \in Bucket, InRoom(c, S), NEW b \in GroupOf[c]
  PROVE  b \in Bucket /\ InRoom(b, S)
<1>1. b \in Bucket /\ UnitOf[b] = UnitOf[c]
  BY PipelineAssumption
<1>2. CASE UnitOf[c] = NoUnit
  BY <1>1, <1>2 DEF InRoom
<1>3. CASE UnitOf[c] # NoUnit
  <2>1. PICK m \in Module : m \in S /\ IsUnit[m] /\ c \in ModuleBuckets[m]
    BY <1>3 DEF InRoom, OfUnits
  <2>2. PICK n \in Module : b \in ModuleBuckets[n] /\ IsUnit[n]
    BY <1>1, <1>3, UnitBucket
  <2>3. m \in Int /\ n \in Int
    BY DEF Module
  <2>4. ~(m < n) /\ ~(n < m)
    BY <1>1, <2>1, <2>2, UnitsApart
  <2>5. m = n
    BY <2>3, <2>4
  <2> QED
    BY <1>1, <2>1, <2>2, <2>5 DEF InRoom, OfUnits
<1> QED
  BY <1>2, <1>3

\* Units follow each other.
LEMMA Between ==
  ASSUME UnitsInOrder, NEW l \in Module, NEW n \in Module, IsUnit[l], IsUnit[n],
         NEW m \in Int, l <= m, m <= n
  PROVE  m \in Module /\ IsUnit[m] /\ \E b \in ModuleBuckets[m] : b \in Bucket /\ UnitOf[b] # NoUnit
<1>1. m \in Module /\ NumModules \in Int
  BY HooksAssumption DEF Module
<1>2. IsUnit[m]
  <2>1. CASE l < m /\ m < n
    BY <1>1, <2>1 DEF UnitsInOrder
  <2>2. CASE m = l \/ m = n
    BY <2>2
  <2> QED
    BY <2>1, <2>2 DEF Module
<1>3. PICK b \in ModuleBuckets[m] : TRUE
  BY <1>1, <1>2 DEF UnitsInOrder
<1>4. b \in Bucket /\ UnitOf[b] # NoUnit
  BY <1>1, <1>2, <1>3, HooksAssumption
<1> QED
  BY <1>1, <1>2, <1>3, <1>4

----------------------------------------------------------------------------
(* How far ahead a gather reaches.                                         *)

\* From a unit forward: to the next unit.
LEMMA Ahead ==
  ASSUME UnitsInOrder, OneUnitAhead, NEW m \in Module, IsUnit[m],
         NEW req, req \subseteq ModuleBuckets[m], NEW r \in req
  PROVE  \A b \in Prefetched(req, "FORWARD_PASS_ORDER") : InRoom(b, {m, m + 1})
<1> DEFINE T == OfUnits({m, m + 1})
<1>1. req \in SUBSET Bucket /\ r \in ModuleBuckets[m] /\ r \in Bucket /\ UnitOf[r] # NoUnit
  BY ModulesTyped, HooksAssumption
<1>2. ASSUME NEW A \in SUBSET Bucket, req \subseteq A, A \subseteq req \cup T,
             NEW c \in Bucket, c = NextBucketId(A, "FORWARD_PASS_ORDER"), MayPrefetch(req, A, c)
      PROVE  GroupOf[c] \subseteq T
  <2> DEFINE low == Min(A)
  <2>1. /\ c \notin A /\ low \in A /\ low < c
        /\ \A b \in Bucket : r < b /\ b < c => b \in A
    BY <1>2, NextAfter
  <2> HIDE DEF low
  <2>2. PICK k \in Module : low \in ModuleBuckets[k] /\ IsUnit[k] /\ k \in {m, m + 1}
    BY <1>2, <2>1 DEF OfUnits
  <2>3. PICK n \in Module : c \in ModuleBuckets[n] /\ (IsUnit[n] <=> UnitOf[c] # NoUnit)
    BY UnitBucket
  <2>4. m \in Int /\ n \in Int /\ k \in Int /\ c \in Int /\ low \in Int /\ r \in Int
    BY <1>1, <2>1 DEF Module, Bucket
  <2>5. IsUnit[n] /\ k <= n
    <3>1. ASSUME IsUnit[n] => n < k PROVE FALSE
      <4>1. c < low
        BY <2>2, <2>3, <3>1 DEF UnitsInOrder
      <4> QED
        BY <2>1, <2>4, <4>1
    <3> QED
      BY <2>4, <3>1
  <2>6. ~(m + 1 < n)
    <3> SUFFICES ASSUME m + 1 < n PROVE FALSE
      OBVIOUS
    <3>1. m + 1 \in Module /\ IsUnit[m + 1]
      BY <2>4, <2>5, Between
    <3>2. PICK x \in ModuleBuckets[m + 1] : x \in Bucket
      BY <2>4, <2>5, Between
    <3>3. r < x /\ UnitOf[r] # UnitOf[x]
      BY <1>1, <2>4, <3>1, <3>2, UnitsApart
    <3>4. x < c /\ UnitOf[x] # UnitOf[c]
      BY <2>3, <2>5, <3>1, <3>2, UnitsApart
    <3>5. UnitOf[r] # UnitOf[c]
      BY <1>1, <2>3, <2>4, <2>5, UnitsApart
    <3>6. x \in A
      BY <2>1, <3>2, <3>3, <3>4
    <3>7. x \notin req
      <4>1. x \in req => m = m + 1
        BY <3>1, <3>2, OneModule
      <4> QED
        BY <2>4, <4>1
    <3> QED
      BY <1>1, <1>2, <2>1, <3>3, <3>4, <3>5, <3>6, <3>7, Full
  <2>7. n \in {m, m + 1}
    BY <2>2, <2>4, <2>5, <2>6
  <2>8. InRoom(c, {m, m + 1})
    BY <2>3, <2>5, <2>7 DEF InRoom, OfUnits
  <2>9. UnitOf[c] # NoUnit
    BY <2>3, <2>5
  <2>10. ASSUME NEW b \in GroupOf[c] PROVE b \in T
    <3>1. UnitOf[b] = UnitOf[c] /\ InRoom(b, {m, m + 1})
      BY <2>8, GroupInRoom, PipelineAssumption
    <3> QED
      BY <2>9, <3>1 DEF InRoom
  <2> QED
    BY <2>10
<1> HIDE DEF T
<1>3. Prefetched(req, "FORWARD_PASS_ORDER") \subseteq T
  BY <1>1, <1>2, PrefetchedIn
<1> QED
  BY <1>3 DEF T, InRoom

\* From a unit backward: to the unit before, or beyond the first to what is no unit.
LEMMA Behind ==
  ASSUME UnitsInOrder, OneUnitAhead, NEW m \in Module, IsUnit[m],
         NEW req, req \subseteq ModuleBuckets[m], NEW r \in req
  PROVE  \A b \in Prefetched(req, "BACKWARD_PASS_ORDER") : InRoom(b, {m, m - 1})
<1> DEFINE T == {b \in Bucket : InRoom(b, {m, m - 1})}
<1>1. req \in SUBSET Bucket /\ r \in ModuleBuckets[m] /\ r \in Bucket /\ UnitOf[r] # NoUnit
  BY ModulesTyped, HooksAssumption
<1>2. ASSUME NEW A \in SUBSET Bucket, req \subseteq A, A \subseteq req \cup T,
             NEW c \in Bucket, c = NextBucketId(A, "BACKWARD_PASS_ORDER"), MayPrefetch(req, A, c)
      PROVE  GroupOf[c] \subseteq T
  <2> DEFINE high == Max(A)
  <2>1. /\ c \notin A /\ high \in A /\ c < high
        /\ \A b \in Bucket : c < b /\ b < r => b \in A
    BY <1>2, NextBefore
  <2> HIDE DEF high
  <2>2. PICK n \in Module : c \in ModuleBuckets[n] /\ (IsUnit[n] <=> UnitOf[c] # NoUnit)
    BY UnitBucket
  <2>3. high \in Bucket /\ (UnitOf[high] = NoUnit \/ \E k \in {m, m - 1} : k \in Module /\ IsUnit[k] /\ high \in ModuleBuckets[k])
    BY <1>2, <2>1 DEF InRoom, OfUnits
  <2>4. PICK k \in Module : high \in ModuleBuckets[k] /\ (IsUnit[k] => k \in {m, m - 1})
    <3>1. CASE UnitOf[high] = NoUnit
      BY <2>3, <3>1, UnitBucket
    <3> QED
      BY <2>3, <3>1
  <2>5. m \in Int /\ n \in Int /\ k \in Int /\ c \in Int /\ high \in Int /\ r \in Int
    BY <1>1, <2>3 DEF Module, Bucket
  <2>6. IsUnit[n] => n <= m
    <3> SUFFICES ASSUME IsUnit[n], m < n PROVE FALSE
      BY <2>5
    <3>1. IsUnit[k] => k < n
      BY <2>4, <2>5
    <3>2. high < c
      BY <2>2, <2>4, <3>1 DEF UnitsInOrder
    <3> QED
      BY <2>1, <2>5, <3>2
  <2>7. IsUnit[n] => ~(n < m - 1)
    <3> SUFFICES ASSUME IsUnit[n], n < m - 1 PROVE FALSE
      OBVIOUS
    <3>1. m - 1 \in Module /\ IsUnit[m - 1]
      BY <2>5, Between
    <3>2. PICK x \in ModuleBuckets[m - 1] : x \in Bucket
      BY <2>5, Between
    <3>3. x < r /\ UnitOf[x] # UnitOf[r]
      BY <1>1, <2>5, <3>1, <3>2, UnitsApart
    <3>4. c < x /\ UnitOf[c] # UnitOf[x]
      BY <2>2, <3>1, <3>2, UnitsApart
    <3>5. UnitOf[c] # UnitOf[r]
      BY <1>1, <2>2, <2>5, UnitsApart
    <3>6. x \in A
      BY <2>1, <3>2, <3>3, <3>4
    <3>7. x \notin req
      <4>1. x \in req => m = m - 1
        BY <3>1, <3>2, OneModule
      <4> QED
        BY <2>5, <4>1
    <3> QED
      BY <1>1, <1>2, <2>1, <3>3, <3>4, <3>5, <3>6, <3>7, Full
  <2>8. IsUnit[n] => n \in {m, m - 1}
    BY <2>5, <2>6, <2>7
  <2>9. InRoom(c, {m, m - 1})
    BY <2>2, <2>8 DEF InRoom, OfUnits
  <2> QED
    BY <2>9, GroupInRoom
<1> HIDE DEF T
<1>3. Prefetched(req, "BACKWARD_PASS_ORDER") \subseteq T
  BY <1>1, <1>2, PrefetchedIn
<1> QED
  BY <1>3 DEF T

\* From what is no unit: to the first two units.
LEMMA Leads ==
  ASSUME UnitsInOrder, OneUnitAhead, NEW req \in SUBSET Bucket, NEW r \in req,
         \A b \in req : UnitOf[b] = NoUnit
  PROVE  \A b \in Prefetched(req, "FORWARD_PASS_ORDER") : InRoom(b, Leading)
<1> DEFINE T == {b \in Bucket : InRoom(b, Leading)}
<1>2. ASSUME NEW A \in SUBSET Bucket, req \subseteq A, A \subseteq req \cup T,
             NEW c \in Bucket, c = NextBucketId(A, "FORWARD_PASS_ORDER"), MayPrefetch(req, A, c)
      PROVE  GroupOf[c] \subseteq T
  <2>1. c \notin A /\ \A b \in Bucket : r < b /\ b < c => b \in A
    BY <1>2, NextAfter
  <2>2. PICK n \in Module : c \in ModuleBuckets[n] /\ (IsUnit[n] <=> UnitOf[c] # NoUnit)
    BY UnitBucket
  <2>3. PICK k \in Module : r \in ModuleBuckets[k] /\ ~IsUnit[k]
    BY UnitBucket
  <2>4. ASSUME IsUnit[n], NEW l \in Module, IsUnit[l], l + 1 < n PROVE FALSE
    <3>1. l \in Int /\ n \in Int
      BY DEF Module
    <3>2. PICK x \in ModuleBuckets[l] : x \in Bucket /\ UnitOf[x] # NoUnit
      BY <2>4, <3>1, Between
    <3>3. l + 1 \in Module /\ IsUnit[l + 1]
      BY <2>4, <3>1, Between
    <3>4. PICK y \in ModuleBuckets[l + 1] : y \in Bucket /\ UnitOf[y] # NoUnit
      BY <2>4, <3>1, Between
    <3>5. r < x /\ r < y
      BY <2>3, <2>4, <3>2, <3>3, <3>4 DEF UnitsInOrder
    <3>6. x < y /\ UnitOf[x] # UnitOf[y] /\ y < c /\ UnitOf[y] # UnitOf[c] /\ UnitOf[x] # UnitOf[c]
      BY <2>2, <2>4, <3>1, <3>2, <3>3, <3>4, UnitsApart
    <3>7. x \in A /\ y \in A
      <4>1. x \in Int /\ y \in Int /\ c \in Int
        BY <3>2, <3>4 DEF Bucket
      <4> QED
        BY <2>1, <3>2, <3>4, <3>5, <3>6, <4>1
    <3>8. x \notin req
      BY <3>2
    <3> QED
      BY <1>2, <2>1, <3>4, <3>6, <3>7, <3>8, Full
  <2>5. InRoom(c, Leading)
    BY <2>2, <2>4 DEF InRoom, OfUnits, Leading
  <2> QED
    BY <2>5, GroupInRoom
<1> HIDE DEF T
<1>3. Prefetched(req, "FORWARD_PASS_ORDER") \subseteq T
  BY <1>2, PrefetchedIn
<1> QED
  BY <1>3 DEF T

----------------------------------------------------------------------------
(* How many units are among the modules of a set.                          *)

\* Two units, or some that are recomputed together.
Few(S, s) ==
  \/ \E m, n \in Int : S \subseteq {m, n}
  \/ \E m \in Module : S \subseteq s.checkpoint[m]

LEMMA StretchGoesOn ==
  ASSUME NEW s \in Setups, NEW m \in Module, NEW n \in s.checkpoint[m]
  PROVE  /\ m \in s.checkpoint[m] /\ n \in Module
         /\ \A k \in Int : n <= k /\ k <= m => k \in s.checkpoint[m]
<1>1. ValidSetup(s)
  BY HooksAssumption
<1>2. s.checkpoint[m] # {} /\ m \in s.checkpoint[m] /\ s.checkpoint[m] \in SUBSET Module
  BY <1>1 DEF ValidSetup
<1>3. PICK lo \in Module, hi \in Module : s.checkpoint[m] = lo .. hi
  BY <1>1, <1>2 DEF ValidSetup
<1> QED
  BY <1>2, <1>3 DEF Module

UnitsOf(S) == {UnitOf[b] : b \in OfUnits(S)}

LEMMA StretchFinite ==
  ASSUME NEW s \in Setups, NEW m \in Module
  PROVE  /\ IsFiniteSet(StretchUnits(s, m)) /\ Cardinality(StretchUnits(s, m)) \in Nat
         /\ Cardinality(StretchUnits(s, m)) <= NumModules
<1>1. ValidSetup(s) /\ NumModules \in Nat
  BY HooksAssumption
<1>2. StretchUnits(s, m) \in SUBSET (1 .. NumModules)
  BY <1>1 DEF ValidSetup, StretchUnits, Module
<1>3. IsFiniteSet(1 .. NumModules) /\ Cardinality(1 .. NumModules) <= NumModules
  BY <1>1, FS_Interval
<1>4. /\ IsFiniteSet(StretchUnits(s, m)) /\ Cardinality(StretchUnits(s, m)) \in Nat
      /\ Cardinality(StretchUnits(s, m)) <= Cardinality(1 .. NumModules)
      /\ Cardinality(1 .. NumModules) \in Nat
  BY <1>2, <1>3, FS_Subset, FS_CardinalityType
<1> QED
  BY <1>1, <1>3, <1>4

LEMMA TwoAtMost == ASSUME NEW x, NEW y PROVE IsFiniteSet({x, y}) /\ Cardinality({x, y}) <= 2
<1>1. IsFiniteSet({x}) /\ Cardinality({x}) = 1
  BY FS_Singleton
<1>2. IsFiniteSet({x} \cup {y}) /\ Cardinality({x} \cup {y}) <= 2
  BY <1>1, FS_AddElement
<1>3. {x} \cup {y} = {x, y}
  OBVIOUS
<1> QED
  BY <1>2, <1>3

LEMMA FewUnits ==
  ASSUME UnitsInOrder, NEW s \in Setups, NEW S, Few(S, s)
  PROVE  /\ IsFiniteSet(UnitsOf(S)) /\ Cardinality(UnitsOf(S)) \in Nat
         /\ \/ Cardinality(UnitsOf(S)) <= 2
            \/ \E m \in Module : Cardinality(UnitsOf(S)) <= Cardinality(StretchUnits(s, m))
<1> DEFINE unit == [m \in Module |-> UnitOf[Picked(ModuleBuckets[m])]]
<1>1. \A b \in OfUnits(S) : \E m \in Module : m \in S /\ IsUnit[m] /\ UnitOf[b] = unit[m]
  <2> SUFFICES ASSUME NEW b \in OfUnits(S)
               PROVE  \E m \in Module : m \in S /\ IsUnit[m] /\ UnitOf[b] = unit[m]
    OBVIOUS
  <2>1. PICK m \in Module : m \in S /\ IsUnit[m] /\ b \in ModuleBuckets[m]
    BY DEF OfUnits
  <2>2. Picked(ModuleBuckets[m]) \in ModuleBuckets[m]
    BY <2>1, PickedIn
  <2>3. UnitOf[b] = UnitOf[Picked(ModuleBuckets[m])]
    BY <2>1, <2>2 DEF UnitsInOrder
  <2> QED
    BY <2>1, <2>3
<1> HIDE DEF unit
<1>2. ASSUME NEW m \in Int, NEW n \in Int, S \subseteq {m, n}
      PROVE  IsFiniteSet(UnitsOf(S)) /\ Cardinality(UnitsOf(S)) \in Nat /\ Cardinality(UnitsOf(S)) <= 2
  <2>1. UnitsOf(S) \in SUBSET {unit[m], unit[n]}
    BY <1>1, <1>2 DEF UnitsOf
  <2>2. /\ IsFiniteSet(UnitsOf(S)) /\ Cardinality(UnitsOf(S)) \in Nat
        /\ Cardinality(UnitsOf(S)) <= Cardinality({unit[m], unit[n]})
        /\ Cardinality({unit[m], unit[n]}) \in Nat
    BY <2>1, TwoAtMost, FS_Subset, FS_CardinalityType
  <2>3. Cardinality({unit[m], unit[n]}) <= 2
    BY TwoAtMost
  <2> QED
    BY <2>2, <2>3
<1>3. ASSUME NEW m \in Module, S \subseteq s.checkpoint[m]
      PROVE  /\ IsFiniteSet(UnitsOf(S)) /\ Cardinality(UnitsOf(S)) \in Nat
             /\ Cardinality(UnitsOf(S)) <= Cardinality(StretchUnits(s, m))
  <2> DEFINE L == StretchUnits(s, m)
             of == [n \in L |-> unit[n]]
             V == {of[n] : n \in L}
  <2>1. IsFiniteSet(L) /\ Cardinality(L) \in Nat
    BY StretchFinite
  <2>2. of \in Surjection(L, V)
    BY DEF Surjection
  <2>3. UnitsOf(S) \in SUBSET V
    BY <1>1, <1>3 DEF UnitsOf, StretchUnits
  <2> HIDE DEF L, of, V
  <2>4. IsFiniteSet(V) /\ Cardinality(V) <= Cardinality(L) /\ Cardinality(V) \in Nat
    BY <2>1, <2>2, FS_Surjection, FS_CardinalityType
  <2>5. /\ IsFiniteSet(UnitsOf(S)) /\ Cardinality(UnitsOf(S)) \in Nat
        /\ Cardinality(UnitsOf(S)) <= Cardinality(V)
    BY <2>3, <2>4, FS_Subset, FS_CardinalityType
  <2> QED
    BY <2>1, <2>4, <2>5 DEF L
<1> QED
  BY <1>2, <1>3 DEF Few

LEMMA ServedUnits ==
  ASSUME UnitsInOrder, NEW s \in Setups, PoolServes(s), NEW S, Few(S, s)
  PROVE  IsFiniteSet(UnitsOf(S)) /\ Cardinality(UnitsOf(S)) \in Nat /\ Cardinality(UnitsOf(S)) <= 2
<1>1. \A m \in Module : Cardinality(StretchUnits(s, m)) \in Nat /\ Cardinality(StretchUnits(s, m)) <= 2
  BY StretchFinite DEF PoolServes
<1>2. Cardinality(UnitsOf(S)) \in Nat
  BY FewUnits
<1>3. \/ Cardinality(UnitsOf(S)) <= 2
      \/ \E m \in Module : Cardinality(UnitsOf(S)) <= Cardinality(StretchUnits(s, m))
  BY FewUnits
<1> QED
  BY <1>1, <1>2, <1>3, FewUnits

\* Buckets of one unit are at different offsets in the pool.
LEMMA OffsetsApart ==
  ASSUME NEW b \in Bucket, NEW c \in Bucket, UnitOf[b] = UnitOf[c], Offset(b) = Offset(c)
  PROVE  b = c
<1>1. ASSUME NEW x \in Bucket, NEW y \in Bucket, UnitOf[x] = UnitOf[y], x < y
      PROVE  Offset(x) # Offset(y)
  <2> DEFINE Before(z) == {w \in 0 .. z - 1 : UnitOf[w] = UnitOf[z]}
  <2>1. x \in Int /\ y \in Int /\ 0 <= x
    BY DEF Bucket
  <2>2. Before(x) \in SUBSET (0 .. x - 1) /\ Before(y) \in SUBSET (0 .. y - 1)
    OBVIOUS
  <2>3. IsFiniteSet(0 .. x - 1) /\ IsFiniteSet(0 .. y - 1)
    BY <2>1, FS_Interval
  <2>4. x \in Before(y) /\ x \notin Before(x) /\ Before(x) \in SUBSET Before(y)
    BY <1>1, <2>1
  <2>5. Offset(x) = Cardinality(Before(x)) /\ Offset(y) = Cardinality(Before(y))
    BY DEF Offset
  <2> HIDE DEF Before
  <2>6. IsFiniteSet(Before(y))
    BY <2>2, <2>3, FS_Subset
  <2>7. Cardinality(Before(y)) = Cardinality(Before(x)) => Before(y) = Before(x)
    BY <2>4, <2>6, FS_Subset
  <2> QED
    BY <2>4, <2>5, <2>7
<1> QED
  BY <1>1 DEF Bucket

LEMMA KeyShape ==
  ASSUME NEW k \in Key
  PROVE  k[1] \in Bucket /\ k[2] \in BOOLEAN /\ k = <<k[1], k[2]>> /\ k = KeyOf(k[1], k[2])
BY PipelineAssumption DEF Key, KeyOf

\* Two units always fit the pool.
LEMMA TwoUnitsFit ==
  ASSUME UnitsInOrder, NEW s \in Setups, PoolServes(s), NEW S, Few(S, s),
         NEW live, live \subseteq Key, \A k \in live : InRoom(k[1], S)
  PROVE  FitsPool(live)
<1> SUFFICES ASSUME NEW k \in live, Pooled(k)
             PROVE  Cardinality({j \in live : /\ Pooled(j)
                                              /\ j[2] = k[2]
                                              /\ Offset(j[1]) = Offset(k[1])}) <= PoolSize
  BY DEF FitsPool
<1> DEFINE J == {j \in live : Pooled(j) /\ j[2] = k[2] /\ Offset(j[1]) = Offset(k[1])}
           of == [j \in J |-> UnitOf[j[1]]]
<1>1. \A j \in J : UnitOf[j[1]] \in UnitsOf(S)
  <2> SUFFICES ASSUME NEW j \in J PROVE UnitOf[j[1]] \in UnitsOf(S)
    OBVIOUS
  <2>1. UnitOf[j[1]] # NoUnit
    BY PipelineAssumption DEF Pooled
  <2> QED
    BY <2>1 DEF InRoom, UnitsOf
<1>2. \A i, j \in J : UnitOf[i[1]] = UnitOf[j[1]] => i = j
  <2> SUFFICES ASSUME NEW i \in J, NEW j \in J, UnitOf[i[1]] = UnitOf[j[1]] PROVE i = j
    OBVIOUS
  <2>1. /\ i[1] \in Bucket /\ j[1] \in Bucket /\ Offset(i[1]) = Offset(j[1]) /\ i[2] = j[2]
        /\ i = <<i[1], i[2]>> /\ j = <<j[1], j[2]>>
    BY KeyShape
  <2>2. i[1] = j[1]
    BY <2>1, OffsetsApart
  <2> QED
    BY <2>1, <2>2
<1> HIDE DEF J
<1>3. of \in Injection(J, UnitsOf(S))
  BY <1>1, <1>2 DEF Injection, IsInjective
<1>4. IsFiniteSet(UnitsOf(S)) /\ Cardinality(UnitsOf(S)) \in Nat /\ Cardinality(UnitsOf(S)) <= 2
  BY ServedUnits
<1>5. IsFiniteSet(J) /\ Cardinality(J) <= Cardinality(UnitsOf(S)) /\ Cardinality(J) \in Nat
  BY <1>3, <1>4, FS_Injection, FS_CardinalityType
<1>6. Cardinality(J) <= PoolSize
  BY <1>4, <1>5, PipelineAssumption DEF PoolServes
<1> QED
  BY <1>6 DEF J

----------------------------------------------------------------------------
(* What each call of the pipeline does to the units in memory.             *)

\* Of which modules the units are that are kept, that have transposed weights in
\* memory, and that are in memory at all, marked for release or not.
KeptIn(status, marked, S) == \A k \in Key : status[k] # "EMPTY" /\ ~marked[k] => InRoom(k[1], S)
BackIn(status, S) == \A k \in Key : status[k] # "EMPTY" /\ k[2] => InRoom(k[1], S)
LiveIn(status, S) == \A k \in Key : status[k] # "EMPTY" => InRoom(k[1], S)

LEMMA KeptGrows ==
  ASSUME NEW status, NEW marked, NEW S, NEW T, KeptIn(status, marked, S),
         \A m \in Module : m \in S /\ IsUnit[m] => m \in T
  PROVE  KeptIn(status, marked, T)
BY DEF KeptIn, InRoom, OfUnits

LEMMA BackGrows ==
  ASSUME NEW status, NEW S, NEW T, BackIn(status, S),
         \A m \in Module : m \in S /\ IsUnit[m] => m \in T
  PROVE  BackIn(status, T)
BY DEF BackIn, InRoom, OfUnits

\* A gather leaves what was kept, what it names and what it fetches ahead; if it
\* launches anything, nothing else is in memory, and the pool serves it all.
LEMMA GatherRoom ==
  ASSUME UnitsInOrder, IInv, NEW req \in SUBSET Bucket, NEW prefetch \in BOOLEAN, NEW order \in Order,
         NEW dir \in BOOLEAN, Gather(req, prefetch, order, dir), NEW S,
         KeptIn(bucket_status, bucket_can_be_released, S),
         \A b \in req : InRoom(b, S),
         prefetch /\ req # {} => \A b \in Prefetched(req, order) : InRoom(b, S)
  PROVE  /\ KeptIn(bucket_status', bucket_can_be_released', S)
         /\ LiveIn(bucket_status', S) \/ bucket_status' = bucket_status
         /\ BackIn(bucket_status, S) => BackIn(bucket_status', S)
         /\ \A B : ~dir /\ BackIn(bucket_status, B) => BackIn(bucket_status', B)
         /\ \A s \in Setups : PoolServes(s) /\ Few(S, s) => raised' = raised
<1> DEFINE wanted == req \cup IF prefetch THEN Prefetched(req, order) ELSE {}
           launched == Launchable(wanted, dir)
           requested == {KeyOf(b, dir) : b \in req}
           flagged == Flagged(requested)
           Same == bucket_status' = bucket_status /\ bucket_can_be_released' = bucket_can_be_released
           Unmarks == /\ bucket_status' = bucket_status
                      /\ bucket_can_be_released' =
                           [k \in Key |-> k \notin requested /\ bucket_can_be_released[k]]
           Launches == /\ bucket_status' = [k \in Key |-> IF k \in launched THEN "COMMUNICATING"
                                                          ELSE IF k \in flagged THEN "EMPTY"
                                                          ELSE bucket_status[k]]
                       /\ req # {}
           served == Cardinality({UnitOf[b] : b \in req} \cap DoubleBufUnits)
           live == launched \cup {k \in Key \ flagged : bucket_status[k] # "EMPTY"}
<1>1. /\ Same \/ Unmarks \/ Launches
      /\ raised' # raised => served > 2 \/ (req # {} /\ ~FitsPool(live))
  <2>1. CASE req = {}
    BY <2>1 DEF Gather, AllGatherParams, pipelineVars
  <2>2. CASE FsdpDoubleBuffer /\ served > 2
    <3>1. CASE req # {}
      <4>1. Fail("ValueError")
        BY <2>2, <3>1 DEF Gather, AllGatherParams
      <4> HIDE DEF launched, flagged, served
      <4> QED
        BY <2>2, <4>1 DEF Fail
    <3> QED
      BY <2>1, <3>1
  <2>3. CASE req # {} /\ ~(FsdpDoubleBuffer /\ served > 2)
    <3>1. CASE launched = {}
      BY <2>3, <3>1 DEF Gather, AllGatherParams
    <3>2. CASE launched # {}
      <4>1. Launch(launched, flagged)
        BY <2>3, <3>2 DEF Gather, AllGatherParams
      <4> HIDE DEF launched, flagged
      <4> QED
        BY <2>3, <4>1 DEF Launch, Fail
    <3> QED
      BY <3>1, <3>2
  <2> QED
    BY <2>1, <2>2, <2>3
<1>2. req # {} => \A b \in wanted : InRoom(b, S)
  OBVIOUS
<1>3. \A k \in launched : \E b \in wanted : k = KeyOf(b, dir)
  BY DEF Launchable
<1>4. \A k \in requested : k[1] \in req
  BY DEF KeyOf
<1>5. \A k \in Key : k \in flagged <=> bucket_can_be_released[k] /\ k \notin requested
  BY DEF Flagged
<1>6. \A b : KeyOf(b, dir)[1] = b /\ KeyOf(b, FALSE)[2] = FALSE
  BY DEF KeyOf
<1>10. launched \subseteq Key
  BY DEF Launchable
<1> HIDE DEF wanted, launched, requested, flagged, live
<1>11. req # {} => \A k \in live : k \in Key /\ InRoom(k[1], S)
  <2> SUFFICES ASSUME req # {}, NEW k \in live, k \in Key PROVE InRoom(k[1], S)
    BY <1>10 DEF live
  <2>1. CASE k \in launched
    BY <1>2, <1>3, <1>6, <2>1
  <2>2. CASE k \in requested
    BY <1>4, <2>2
  <2>3. CASE k \notin launched /\ k \notin requested
    BY <1>5, <2>3 DEF KeptIn, live
  <2> QED
    BY <2>1, <2>2, <2>3
<1>12. ASSUME NEW s \in Setups, PoolServes(s), Few(S, s) PROVE raised' = raised
  <2> DEFINE D == {UnitOf[b] : b \in req} \cap DoubleBufUnits
  <2>1. D \in SUBSET UnitsOf(S)
    BY PipelineAssumption DEF InRoom, UnitsOf
  <2>2. IsFiniteSet(UnitsOf(S)) /\ Cardinality(UnitsOf(S)) \in Nat /\ Cardinality(UnitsOf(S)) <= 2
    BY <1>12, ServedUnits
  <2>3. Cardinality(D) <= Cardinality(UnitsOf(S)) /\ Cardinality(D) \in Nat
    BY <2>1, <2>2, FS_Subset, FS_CardinalityType
  <2>4. ~(Cardinality(D) > 2)
    BY <2>2, <2>3
  <2>5. req # {} => FitsPool(live)
    BY <1>11, <1>12, TwoUnitsFit
  <2> QED
    BY <1>1, <2>4, <2>5
<1>7. CASE Same
  BY <1>7, <1>12
<1>8. CASE Unmarks
  <2>1. KeptIn(bucket_status', bucket_can_be_released', S)
    BY <1>4, <1>8 DEF KeptIn
  <2> QED
    BY <1>8, <1>12, <2>1
<1>9. CASE Launches
  <2>1. ASSUME NEW k \in Key, bucket_status'[k] # "EMPTY" PROVE InRoom(k[1], S)
    <3>1. k \in live
      BY <1>9, <2>1 DEF live
    <3> QED
      BY <1>9, <1>11, <3>1
  <2>2. ASSUME NEW B, ~dir, BackIn(bucket_status, B) PROVE BackIn(bucket_status', B)
    <3> SUFFICES ASSUME NEW k \in Key, bucket_status'[k] # "EMPTY", k[2] PROVE InRoom(k[1], B)
      BY DEF BackIn
    <3>1. k \notin launched
      BY <1>3, <1>6, <2>2
    <3>2. bucket_status[k] # "EMPTY"
      BY <1>9, <3>1
    <3> QED
      BY <2>2, <3>2 DEF BackIn
  <2> QED
    BY <1>12, <2>1, <2>2 DEF KeptIn, LiveIn, BackIn
<1> QED
  BY <1>1, <1>7, <1>8, <1>9

\* Nothing comes into memory by other calls, and no mark is taken back.
Shrinks(status, marked, status2, marked2) ==
  \A k \in Key : /\ status2[k] # "EMPTY" => status[k] # "EMPTY"
                 /\ status2[k] # "EMPTY" /\ ~marked2[k] => ~marked[k]

LEMMA ShrinksRoom ==
  ASSUME NEW status, NEW marked, NEW status2, NEW marked2,
         Shrinks(status, marked, status2, marked2), NEW S
  PROVE  /\ KeptIn(status, marked, S) => KeptIn(status2, marked2, S)
         /\ BackIn(status, S) => BackIn(status2, S)
         /\ LiveIn(status, S) => LiveIn(status2, S)
BY DEF Shrinks, KeptIn, BackIn, LiveIn

CallShrinks == Shrinks(bucket_status, bucket_can_be_released, bucket_status', bucket_can_be_released')

LEMMA WaitShrinks ==
  ASSUME IInv, NEW req \in SUBSET Bucket, NEW dir \in BOOLEAN, Wait(req, dir)
  PROVE  CallShrinks
<1>1. \/ UNCHANGED <<bucket_status, bucket_can_be_released>>
      \/ /\ UNCHANGED bucket_can_be_released
         /\ \A k \in {KeyOf(b, dir) : b \in req} : bucket_status[k] # "EMPTY"
         /\ bucket_status' = [k \in Key |-> IF k \in {KeyOf(b, dir) : b \in req} THEN "READY_TO_USE"
                                            ELSE bucket_status[k]]
  BY DEF Wait, WaitBucketsReady, Fail
<1> QED
  BY <1>1 DEF CallShrinks, Shrinks

LEMMA ReleaseShrinks ==
  ASSUME IInv, NEW req \in SUBSET Bucket, NEW dir \in BOOLEAN,
         Release(req, dir) \/ ReleaseLazily(req, dir)
  PROVE  /\ CallShrinks
         /\ \A k \in Keys(req, dir) : bucket_status'[k] = "EMPTY" \/ bucket_can_be_released'[k]
         /\ Release(req, dir) => \A k \in Keys(req, dir) : bucket_status'[k] = "EMPTY"
<1>0. Keys(req, dir) \subseteq Key
  BY KeysTyped
<1>1. CASE Release(req, dir)
  BY <1>0, <1>1 DEF Release, ReleaseBuckets, Free, CallShrinks, Shrinks, Keys
<1>2. CASE ReleaseLazily(req, dir)
  <2>1. bucket_status' = bucket_status
    BY <1>2 DEF ReleaseLazily, MarkReleasable
  <2>2. bucket_can_be_released' =
          [k \in Key |-> \/ bucket_can_be_released[k]
                         \/ bucket_status[k] # "EMPTY" /\ k \in Keys(req, dir)]
    BY <1>2 DEF ReleaseLazily, MarkReleasable, Keys
  <2> QED
    BY <1>0, <1>1, <2>1, <2>2 DEF CallShrinks, Shrinks
<1> QED
  BY <1>1, <1>2

LEMMA ReleaseUnitsShrinks ==
  ASSUME IInv, ReleaseUnits
  PROVE  /\ CallShrinks
         /\ \A k \in Key : ~k[2] /\ UnitOf[k[1]] # NoUnit => bucket_can_be_released'[k]
<1>1. bucket_status' = bucket_status
  BY DEF ReleaseUnits, MarkUnitsReleasable
<1>2. bucket_can_be_released' =
        [k \in Key |-> \/ bucket_can_be_released[k]
                       \/ \E b \in Bucket : UnitOf[b] # NoUnit /\ k = KeyOf(b, FALSE)]
  BY DEF ReleaseUnits, MarkUnitsReleasable
<1>3. \A k \in Key : ~k[2] => k = KeyOf(k[1], FALSE) /\ k[1] \in Bucket
  BY KeyShape
<1> QED
  BY <1>1, <1>2, <1>3 DEF CallShrinks, Shrinks

LEMMA ResetShrinks ==
  ASSUME ResetAll PROVE CallShrinks
BY DEF ResetAll, Reset, Free, CallShrinks, Shrinks

\* A unit whose weights are released or marked is kept no longer, unless the
\* backward pass keeps the transposed ones.
LEMMA Shed ==
  ASSUME UnitsInOrder, NEW status, NEW marked, NEW S, KeptIn(status, marked, S),
         NEW B, BackIn(status, B), NEW m \in Module, IsUnit[m],
         \A k \in Keys(ModuleBuckets[m], FALSE) : status[k] = "EMPTY" \/ marked[k]
  PROVE  KeptIn(status, marked, (S \ {m}) \cup B)
<1> SUFFICES ASSUME NEW k \in Key, status[k] # "EMPTY", ~marked[k], UnitOf[k[1]] # NoUnit
             PROVE  k[1] \in OfUnits((S \ {m}) \cup B)
  BY DEF KeptIn, InRoom
<1>1. k[1] \in Bucket /\ k[2] \in BOOLEAN /\ k = KeyOf(k[1], k[2])
  BY KeyShape
<1>2. PICK n \in Module : n \in S /\ IsUnit[n] /\ k[1] \in ModuleBuckets[n]
  BY DEF KeptIn, InRoom, OfUnits
<1>3. CASE k[2]
  <2>1. k[1] \in OfUnits(B)
    BY <1>3 DEF BackIn, InRoom
  <2> QED
    BY <2>1 DEF OfUnits
<1>4. CASE ~k[2]
  <2>1. k = KeyOf(k[1], FALSE)
    BY <1>1, <1>4
  <2>2. n # m
    BY <1>2, <2>1 DEF Keys
  <2> QED
    BY <1>1, <1>2, <2>2 DEF OfUnits
<1> QED
  BY <1>1, <1>3, <1>4

\* The same of the transposed weights of a unit, once they are released.
LEMMA ShedBack ==
  ASSUME UnitsInOrder, NEW status, NEW B, BackIn(status, B), NEW m \in Module, IsUnit[m],
         \A k \in Keys(ModuleBuckets[m], TRUE) : status[k] = "EMPTY"
  PROVE  BackIn(status, B \ {m})
<1> SUFFICES ASSUME NEW k \in Key, status[k] # "EMPTY", k[2], UnitOf[k[1]] # NoUnit
             PROVE  k[1] \in OfUnits(B \ {m})
  BY DEF BackIn, InRoom
<1>1. k[1] \in Bucket /\ k[2] \in BOOLEAN /\ k = KeyOf(k[1], k[2])
  BY KeyShape
<1>2. PICK n \in Module : n \in B /\ IsUnit[n] /\ k[1] \in ModuleBuckets[n]
  BY DEF BackIn, InRoom, OfUnits
<1>3. n # m
  BY <1>1, <1>2 DEF Keys
<1> QED
  BY <1>1, <1>2, <1>3 DEF OfUnits

----------------------------------------------------------------------------
(* The units that the passes leave room for.                               *)

\* During the backward pass of a module: itself and the unit before it.
BackRoom ==
  IF bwd.stage = "root" THEN FirstUnits
  ELSE IF ~IsUnit[bwd.mod] THEN {m \in FirstUnits : bwd.mod < m}
  ELSE IF bwd.stage = "pre" THEN {bwd.mod}
  ELSE {bwd.mod, bwd.mod - 1}

\* The unit that is recomputed besides, the unit of the forward pass and the next
\* one, or the first two before and after a pass.
Room ==
  IF InBackward THEN BackRoom \cup {m \in {fwd.mod} : fwd.stage \in {"wait", "run"}}
  ELSE IF InForward /\ IsUnit[fwd.mod] THEN {fwd.mod, fwd.mod + 1}
  ELSE Leading

\* Of these, the units with transposed weights in memory.
TransposedRoom ==
  IF ~InBackward \/ bwd.stage = "root" \/ ~IsUnit[bwd.mod] THEN {}
  ELSE IF bwd.stage = "pre" THEN {bwd.mod}
  ELSE IF bwd.stage = "release" THEN {bwd.mod - 1}
  ELSE {bwd.mod, bwd.mod - 1}

FewLive(status, s) == \E S : Few(S, s) /\ LiveIn(status, S)

InStretch == InForward /\ InBackward => fwd.mod \in setup.checkpoint[bwd.mod]

\* Unless everything is gathered, the units that are kept are within the room, and
\* nothing is in memory but what was kept when the last gather was launched.
RoomInv ==
  /\ InStretch
  /\ pending # "gather"
  /\ KeptIn(bucket_status, bucket_can_be_released, Room)
  /\ BackIn(bucket_status, TransposedRoom)
  /\ FewLive(bucket_status, setup)

----------------------------------------------------------------------------
LEMMA FewGrows ==
  ASSUME CallShrinks, FewLive(bucket_status, setup)
  PROVE  FewLive(bucket_status', setup)
BY ShrinksRoom DEF CallShrinks, FewLive

\* A gather within few units leaves few.
LEMMA FewGathered ==
  ASSUME FewLive(bucket_status, setup), NEW S, Few(S, setup),
         LiveIn(bucket_status', S) \/ bucket_status' = bucket_status
  PROVE  FewLive(bucket_status', setup)
BY DEF FewLive

LEMMA StretchHasFirst ==
  ASSUME NEW s \in Setups, NEW m \in Module, s.checkpoint[m] # {}
  PROVE  Min(s.checkpoint[m]) \in s.checkpoint[m]
<1>1. ValidSetup(s)
  BY HooksAssumption
<1>2. s.checkpoint[m] \in SUBSET Module
  BY <1>1 DEF ValidSetup
<1>3. PICK x \in s.checkpoint[m] : TRUE
  OBVIOUS
<1>4. s.checkpoint[m] \subseteq Int /\ \A y \in s.checkpoint[m] : 1 <= y
  BY <1>2 DEF Module
<1> QED
  BY <1>3, <1>4, Bottom, 1 \in Int

\* There are two leading units at most, and one first.
LEMMA LeadingAreTwo == \E m, n \in Int : Leading \subseteq {m, n}
<1>1. Leading \subseteq Int
  BY DEF Leading, Module
<1>2. \A l, m, n \in Leading : l = m \/ m = n \/ l = n
  <2> SUFFICES ASSUME NEW l \in Leading, NEW m \in Leading, NEW n \in Leading, l # m, m # n, l # n
               PROVE  FALSE
    OBVIOUS
  <2>1. l \in Int /\ m \in Int /\ n \in Int
    BY <1>1
  <2>2. \A x, y \in Leading : ~(x + 1 < y)
    BY DEF Leading
  <2>3. ~(l + 1 < m) /\ ~(l + 1 < n) /\ ~(m + 1 < l) /\ ~(m + 1 < n) /\ ~(n + 1 < l) /\ ~(n + 1 < m)
    BY <2>2
  <2> QED
    BY <2>1, <2>3
<1>3. CASE Leading = {}
  BY <1>3
<1>4. CASE \E m \in Leading : Leading = {m}
  BY <1>1, <1>4
<1>5. CASE Leading # {} /\ ~\E m \in Leading : Leading = {m}
  <2>1. PICK m \in Leading, n \in Leading : m # n
    BY <1>5
  <2>2. Leading \subseteq {m, n}
    BY <1>2, <2>1
  <2> QED
    BY <1>1, <2>1, <2>2
<1> QED
  BY <1>3, <1>4, <1>5

LEMMA FirstIsOne == \A m, n \in FirstUnits : m = n
BY DEF FirstUnits, Module

\* A unit behind a module that is none is the first; a unit before one is the last.
LEMMA FirstBehind ==
  ASSUME UnitsInOrder, NEW m \in Module, ~IsUnit[m], NEW n \in Module, IsUnit[n], m < n
  PROVE  \A l \in Module : l < m => ~IsUnit[l]
BY DEF UnitsInOrder, Module

\* The room for a recomputation is for few units.
LEMMA RecomputesFew ==
  ASSUME HookTypes, Control, InStretch, InForward, InBackward
  PROVE  Few(BackRoom \cup {fwd.mod}, setup)
<1> DEFINE m == bwd.mod
           f == fwd.mod
<1>1. /\ m \in Module /\ f \in Module /\ f <= m /\ m \in Int /\ f \in Int
      /\ bwd.stage \in {"pre", "run"} /\ f \in setup.checkpoint[m] /\ setup \in Setups
  BY DEF HookTypes, Control, InForward, InBackward, InStretch, Module
<1>2. m \in setup.checkpoint[m] /\ \A k \in Int : f <= k /\ k <= m => k \in setup.checkpoint[m]
  BY <1>1, StretchGoesOn
<1>3. CASE ~IsUnit[m]
  <2>1. BackRoom \subseteq FirstUnits
    BY <1>1, <1>3 DEF BackRoom
  <2>2. FirstUnits \subseteq Int
    BY DEF FirstUnits, Module
  <2>3. CASE FirstUnits = {}
    <3>1. BackRoom \cup {f} \subseteq {f, f}
      BY <2>1, <2>3
    <3> QED
      BY <1>1, <3>1 DEF Few
  <2>4. CASE FirstUnits # {}
    <3>1. PICK x \in FirstUnits : FirstUnits \subseteq {x}
      BY <2>4, FirstIsOne
    <3>2. BackRoom \cup {f} \subseteq {x, f}
      BY <2>1, <3>1
    <3> QED
      BY <1>1, <2>2, <3>2 DEF Few
  <2> QED
    BY <2>3, <2>4
<1>4. CASE IsUnit[m] /\ bwd.stage = "pre"
  <2>1. BackRoom \cup {f} \subseteq {m, f}
    BY <1>4 DEF BackRoom
  <2> QED
    BY <1>1, <2>1 DEF Few
<1>5. CASE IsUnit[m] /\ bwd.stage = "run"
  <2>1. BackRoom = {m, m - 1}
    BY <1>5 DEF BackRoom
  <2>2. CASE f < m - 1
    <3>1. BackRoom \cup {f} \subseteq setup.checkpoint[m]
      BY <1>1, <1>2, <2>1, <2>2
    <3> QED
      BY <1>1, <3>1 DEF Few
  <2>3. CASE ~(f < m - 1)
    <3>1. BackRoom \cup {f} \subseteq {m, m - 1}
      BY <1>1, <2>1, <2>3
    <3> QED
      BY <1>1, <3>1 DEF Few
  <2> QED
    BY <2>2, <2>3
<1> QED
  BY <1>1, <1>3, <1>4, <1>5

\* The weights of a module are of that module.
LEMMA OwnRoom ==
  ASSUME NEW m \in Module, NEW S, m \in S, NEW b \in ModuleBuckets[m]
  PROVE  InRoom(b, S)
BY HooksAssumption DEF InRoom, OfUnits

LEMMA NonUnitRoom ==
  ASSUME NEW m \in Module, ~IsUnit[m], NEW S, NEW b \in ModuleBuckets[m]
  PROVE  UnitOf[b] = NoUnit /\ InRoom(b, S)
BY HooksAssumption DEF InRoom

\* The first forward module begins where the units do.
LEMMA StartRoom ==
  ASSUME UnitsInOrder, RoomInv, setup' = setup, NEW grad \in BOOLEAN, StartForward(grad)
  PROVE  RoomInv'
<1>1. /\ Room = Leading /\ TransposedRoom = {} /\ TransposedRoom' = {} /\ InStretch' /\ pending' = pending
      /\ UNCHANGED <<bucket_status, bucket_can_be_released>>
  BY DEF StartForward, Idle, InForward, InBackward, Room, TransposedRoom, InStretch, clientVars, pipelineVars
<1>2. Room' = IF IsUnit[1] THEN {1, 2} ELSE Leading
  BY DEF StartForward, Idle, InForward, InBackward, Room
<1>3. \A m \in Module : m \in Leading => m \in Room'
  <2>1. 1 \in Module
    BY HooksAssumption DEF Module
  <2>2. IsUnit[1] => \A m \in Leading : ~(2 < m)
    BY <2>1 DEF Leading
  <2> QED
    BY <1>2, <2>2 DEF Module
<1>4. KeptIn(bucket_status', bucket_can_be_released', Room')
  BY <1>1, <1>3, KeptGrows DEF RoomInv
<1> QED
  BY <1>1, <1>4 DEF RoomInv

\* A forward gather stays within the room, and a recomputation takes up its unit.
LEMMA PreForwardRoom ==
  ASSUME UnitsInOrder, OneUnitAhead, IInv, ControlInv, RoomInv, setup' = setup, PreForward
  PROVE  RoomInv' /\ (PoolServes(setup) => raised' = raised)
<1> DEFINE m == fwd.mod
           prefetch == ~(training_state[m] = "PRE_BACKWARD")
           order == "FORWARD_PASS_ORDER"
<1>1. /\ m \in Module /\ m \in Int /\ fwd.stage = "pre" /\ InForward /\ fwd' = [fwd EXCEPT !.stage = "wait"]
      /\ fwd'.mod = m /\ fwd'.stage = "wait" /\ InForward' /\ bwd' = bwd /\ pending' = pending
      /\ InBackward' = InBackward /\ setup \in Setups
  BY DEF PreForward, ControlInv, HookTypes, Control, InForward, InBackward, Module
<1>2. Gather(ModuleBuckets[m], prefetch, order, FALSE) /\ prefetch \in BOOLEAN /\ order \in Order
      /\ ModuleBuckets[m] \in SUBSET Bucket
  BY <1>1, ModulesTyped DEF PreForward, UnshardForward, Order
<1>3. TransposedRoom' = TransposedRoom /\ InStretch'
  BY <1>1 DEF TransposedRoom, InStretch, RoomInv
<1>4. BackIn(bucket_status, TransposedRoom) /\ FewLive(bucket_status, setup)
      /\ KeptIn(bucket_status, bucket_can_be_released, Room) /\ pending' # "gather"
  BY <1>1 DEF RoomInv
<1>5. BackRoom' = BackRoom
  BY <1>1 DEF BackRoom
<1>6. ASSUME NEW S, Few(S, setup), \A b \in ModuleBuckets[m] : InRoom(b, S),
             KeptIn(bucket_status, bucket_can_be_released, S),
             prefetch /\ ModuleBuckets[m] # {} =>
               \A b \in Prefetched(ModuleBuckets[m], order) : InRoom(b, S)
      PROVE  /\ KeptIn(bucket_status', bucket_can_be_released', S)
             /\ BackIn(bucket_status', TransposedRoom) /\ FewLive(bucket_status', setup)
             /\ PoolServes(setup) => raised' = raised
  <2> HIDE DEF m, prefetch, order
  <2>1. /\ KeptIn(bucket_status', bucket_can_be_released', S)
        /\ LiveIn(bucket_status', S) \/ bucket_status' = bucket_status
        /\ \A B : BackIn(bucket_status, B) => BackIn(bucket_status', B)
        /\ PoolServes(setup) => raised' = raised
    BY <1>1, <1>2, <1>6, GatherRoom
  <2> QED
    BY <1>4, <1>6, <2>1, FewGathered
<1>7. CASE InBackward
  <2> DEFINE S == BackRoom \cup {m}
  <2>1. ~prefetch
    <3>1. /\ bwd.stage \in {"pre", "run"} /\ m \in 1 .. bwd.mod
      BY <1>1, <1>7 DEF ControlInv, HookTypes, Control, InBackward, Module
    <3> QED
      BY <3>1 DEF ControlInv, MarkedForBackward
  <2>2. Few(S, setup)
    BY <1>1, <1>7, RecomputesFew DEF ControlInv, RoomInv
  <2>3. KeptIn(bucket_status, bucket_can_be_released, S)
    BY <1>1, <1>4, <1>7, KeptGrows DEF Room
  <2>4. \A b \in ModuleBuckets[m] : InRoom(b, S)
    BY <1>1, OwnRoom
  <2>5. Room' = S
    BY <1>1, <1>5, <1>7 DEF Room
  <2> HIDE DEF S
  <2> QED
    BY <1>3, <1>4, <1>6, <2>1, <2>2, <2>3, <2>4, <2>5 DEF RoomInv
<1>8. CASE ~InBackward /\ IsUnit[m]
  <2> DEFINE S == {m, m + 1}
  <2>1. Room = S /\ Room' = S
    BY <1>1, <1>8 DEF Room
  <2>2. Few(S, setup)
    BY <1>1 DEF Few
  <2>3. \A b \in ModuleBuckets[m] : InRoom(b, S)
    BY <1>1, OwnRoom
  <2>4. ModuleBuckets[m] # {} => \A b \in Prefetched(ModuleBuckets[m], order) : InRoom(b, S)
    BY <1>1, <1>8, Ahead
  <2> HIDE DEF S
  <2> QED
    BY <1>3, <1>4, <1>6, <2>1, <2>2, <2>3, <2>4 DEF RoomInv
<1>9. CASE ~InBackward /\ ~IsUnit[m]
  <2>1. Room = Leading /\ Room' = Leading
    BY <1>1, <1>9 DEF Room
  <2>2. Few(Leading, setup)
    BY LeadingAreTwo DEF Few
  <2>3. \A b \in ModuleBuckets[m] : UnitOf[b] = NoUnit /\ InRoom(b, Leading)
    BY <1>1, <1>9, NonUnitRoom
  <2>4. ModuleBuckets[m] # {} => \A b \in Prefetched(ModuleBuckets[m], order) : InRoom(b, Leading)
    BY <1>2, <2>3, Leads
  <2> QED
    BY <1>3, <1>4, <1>6, <2>1, <2>2, <2>3, <2>4 DEF RoomInv
<1> QED
  BY <1>7, <1>8, <1>9

\* Waiting brings nothing into memory.
LEMMA PreForwardWaitRoom ==
  ASSUME IInv, ControlInv, RoomInv, setup' = setup, PreForwardWait
  PROVE  RoomInv'
<1>1. /\ fwd.mod \in Module /\ fwd.stage = "wait" /\ InForward
      /\ fwd'.mod = fwd.mod /\ fwd'.stage = "run" /\ bwd' = bwd /\ pending' = pending
  BY DEF PreForwardWait, ControlInv, HookTypes, Control, InForward
<1>2. CallShrinks
  BY <1>1, WaitShrinks, ModulesTyped DEF PreForwardWait
<1>3. Room' = Room /\ TransposedRoom' = TransposedRoom /\ InStretch'
  BY <1>1 DEF Room, BackRoom, TransposedRoom, InStretch, RoomInv, InForward, InBackward
<1>4. /\ KeptIn(bucket_status', bucket_can_be_released', Room)
      /\ BackIn(bucket_status', TransposedRoom)
  BY <1>2, ShrinksRoom DEF CallShrinks, RoomInv
<1> QED
  BY <1>1, <1>2, <1>3, <1>4, FewGrows DEF RoomInv

\* A forward pass leaves its unit; a recomputation leaves it to the backward pass.
LEMMA PostForwardRoom ==
  ASSUME UnitsInOrder, IInv, ControlInv, RoomInv, setup' = setup, PostForward
  PROVE  RoomInv'
<1> DEFINE m == fwd.mod
<1>1. /\ m \in Module /\ m \in Int /\ fwd.stage = "run" /\ InForward /\ bwd' = bwd /\ pending' = pending
      /\ NextForward /\ IsUnit[m] \in BOOLEAN /\ fwd.last \in Module /\ m <= fwd.last
  BY HooksAssumption DEF PostForward, ControlInv, HookTypes, Control, InForward, Module
<1>2. /\ CallShrinks
      /\ IsUnit[m] => \A k \in Keys(ModuleBuckets[m], FALSE) :
                        bucket_status'[k] = "EMPTY" \/ bucket_can_be_released'[k]
  <2>1. CASE ~IsUnit[m]
    <3>1. UNCHANGED <<bucket_status, bucket_can_be_released>>
      BY <2>1 DEF PostForward, clientVars, pipelineVars
    <3> QED
      BY <2>1, <3>1 DEF CallShrinks, Shrinks
  <2>2. CASE IsUnit[m]
    <3>1. Release(ModuleBuckets[m], FALSE) \/ ReleaseLazily(ModuleBuckets[m], FALSE)
      BY <2>2 DEF PostForward, ReleaseModule
    <3> QED
      BY <1>1, <3>1, ReleaseShrinks, ModulesTyped
  <2> QED
    BY <2>1, <2>2
<1>3. /\ KeptIn(bucket_status', bucket_can_be_released', Room)
      /\ BackIn(bucket_status', TransposedRoom)
      /\ FewLive(bucket_status', setup)
  BY <1>2, ShrinksRoom, FewGrows DEF CallShrinks, RoomInv
<1>4. KeptIn(bucket_status', bucket_can_be_released', IF IsUnit[m] THEN (Room \ {m}) \cup TransposedRoom ELSE Room)
  BY <1>1, <1>2, <1>3, Shed
<1>5. TransposedRoom' = TransposedRoom /\ BackRoom' = BackRoom /\ InBackward' = InBackward
  BY <1>1 DEF TransposedRoom, BackRoom, InBackward
<1>6. \/ fwd.mod = fwd.last /\ fwd' = NotRunning
      \/ fwd.mod < fwd.last /\ fwd'.mod = m + 1 /\ fwd'.stage = "pre" /\ m + 1 \in Module
  <2>1. CASE fwd.mod = fwd.last
    BY <1>1, <2>1 DEF NextForward
  <2>2. CASE fwd.mod # fwd.last
    <3>1. fwd.mod < fwd.last /\ m + 1 \in Module
      BY <1>1, <2>2, HooksAssumption DEF Module
    <3>2. fwd' = [fwd EXCEPT !.mod = @ + 1, !.stage = "pre"]
      BY <1>1, <2>2 DEF NextForward
    <3>3. fwd'.mod = m + 1 /\ fwd'.stage = "pre"
      BY <3>2 DEF ControlInv, HookTypes
    <3> QED
      BY <3>1, <3>3
  <2> QED
    BY <2>1, <2>2
<1>7. InStretch'
  <2>1. CASE InBackward /\ fwd.mod < fwd.last
    <3>1. fwd.last = bwd.mod /\ m \in setup.checkpoint[bwd.mod] /\ setup \in Setups
      BY <1>1, <2>1 DEF ControlInv, HookTypes, Control, RoomInv, InStretch
    <3>2. m + 1 \in setup.checkpoint[bwd.mod]
      BY <1>1, <2>1, <3>1, StretchGoesOn DEF Module
    <3> QED
      BY <1>1, <1>6, <2>1, <3>2 DEF InStretch
  <2>2. CASE ~InBackward \/ ~(fwd.mod < fwd.last)
    BY <1>1, <1>6, <2>2 DEF InStretch, InForward, InBackward, NotRunning
  <2> QED
    BY <2>1, <2>2
<1>8. KeptIn(bucket_status', bucket_can_be_released', Room')
  <2>1. CASE InBackward
    <3>1. Room = BackRoom \cup {m} /\ Room' = BackRoom
      BY <1>1, <1>5, <1>6, <2>1 DEF Room, NotRunning
    <3>2. \A n \in Module : n \in TransposedRoom => n \in BackRoom
      BY DEF TransposedRoom, BackRoom
    <3> QED
      BY <1>4, <3>1, <3>2, KeptGrows
  <2>2. CASE ~InBackward /\ IsUnit[m]
    <3>1. Room = {m, m + 1} /\ TransposedRoom = {}
      BY <1>1, <2>2 DEF Room, TransposedRoom
    <3>2. CASE fwd.mod = fwd.last
      <4>1. m + 1 \notin Module
        BY <1>1, <2>2, <3>2 DEF ControlInv, Control, Module
      <4> QED
        BY <1>4, <2>2, <3>1, <4>1, KeptGrows
    <3>3. CASE fwd.mod < fwd.last
      <4>1. IsUnit[m + 1] => Room' = {m + 1, (m + 1) + 1}
        BY <1>1, <1>5, <1>6, <2>2, <3>3 DEF Room, InForward, Module
      <4> QED
        BY <1>4, <2>2, <3>1, <4>1, KeptGrows
    <3> QED
      BY <1>6, <3>2, <3>3
  <2>3. CASE ~InBackward /\ ~IsUnit[m]
    <3>1. Room = Leading
      BY <1>1, <2>3 DEF Room
    <3>2. CASE fwd' = NotRunning
      <4>1. Room' = Leading
        BY <1>5, <2>3, <3>2 DEF Room, InForward, NotRunning
      <4> QED
        BY <1>4, <2>3, <3>1, <4>1
    <3>3. CASE fwd'.mod = m + 1 /\ m + 1 \in Module
      <4>1. Room' = IF IsUnit[m + 1] THEN {m + 1, (m + 1) + 1} ELSE Leading
        BY <1>1, <1>5, <2>3, <3>3 DEF Room, InForward, Module
      <4>2. CASE IsUnit[m + 1]
        <5>1. ASSUME NEW l \in Module, l \in Leading PROVE l \in {m + 1, (m + 1) + 1}
          <6>1. l \in Int /\ IsUnit[l] /\ ~((m + 1) + 1 < l)
            BY <3>3, <4>2, <5>1 DEF Leading, Module
          <6>2. ~(l < m) /\ l # m
            BY <1>1, <2>3, <3>3, <4>2, <6>1, FirstBehind
          <6> QED
            BY <1>1, <6>1, <6>2
        <5> QED
          BY <1>4, <2>3, <3>1, <4>1, <4>2, <5>1, KeptGrows
      <4>3. CASE ~IsUnit[m + 1]
        BY <1>4, <2>3, <3>1, <4>1, <4>3
      <4> QED
        BY <4>2, <4>3
    <3> QED
      BY <1>6, <3>2, <3>3
  <2> QED
    BY <2>1, <2>2, <2>3
<1>9. BackIn(bucket_status', TransposedRoom') /\ FewLive(bucket_status', setup') /\ pending' # "gather"
  BY <1>1, <1>3, <1>5 DEF RoomInv
<1> QED
  BY <1>7, <1>8, <1>9 DEF RoomInv

\* A recomputation that stops early has the module whose backward is under way.
LEMMA StopRoom ==
  ASSUME ControlInv, RoomInv, setup' = setup, StopRecompute
  PROVE  RoomInv'
<1>1. /\ fwd.mod = bwd.mod /\ bwd.stage \in {"pre", "run"} /\ InForward /\ InBackward
      /\ fwd' = NotRunning /\ bwd' = bwd /\ pending' = pending /\ ~InForward' /\ InBackward'
      /\ UNCHANGED <<bucket_status, bucket_can_be_released>>
  BY DEF StopRecompute, ControlInv, Control, InForward, InBackward, NotRunning, clientVars, pipelineVars
<1>2. TransposedRoom' = TransposedRoom /\ InStretch' /\ Room' = BackRoom
  BY <1>1 DEF TransposedRoom, InStretch, Room, BackRoom, InBackward, NotRunning
<1>3. \A m \in Module : m \in Room /\ IsUnit[m] => m \in BackRoom
  BY <1>1 DEF Room, BackRoom
<1>4. KeptIn(bucket_status', bucket_can_be_released', Room')
  BY <1>1, <1>2, <1>3, KeptGrows DEF RoomInv
<1> QED
  BY <1>1, <1>2, <1>4 DEF RoomInv

\* What the backward pass of a module leaves is the room for the module before it.
LEMMA NextBackwardRoom ==
  ASSUME UnitsInOrder, HookTypes, bwd.mod \in Module, ~InForward, fwd' = fwd, NextBackward,
         NEW status, NEW marked, NEW S, NEW T, KeptIn(status, marked, S), BackIn(status, T),
         \A m \in Module : m \in S /\ IsUnit[m] =>
           m = bwd.mod - 1 \/ (m \in FirstUnits /\ bwd.mod <= m),
         \A m \in Module : m \in T /\ IsUnit[m] => m = bwd.mod - 1
  PROVE  KeptIn(status, marked, Room') /\ BackIn(status, TransposedRoom')
<1>1. bwd.mod \in Int /\ ~InForward' /\ fwd.mod = 0 /\ 0 \notin Module
  BY DEF InForward, Module
<1>2. CASE bwd.mod = 1
  <2>1. bwd'.mod = 1 /\ bwd'.stage = "root"
    BY <1>2 DEF NextBackward, HookTypes
  <2>2. FirstUnits \subseteq Room' /\ TransposedRoom' = {}
    BY <2>1 DEF Room, BackRoom, TransposedRoom, InBackward
  <2>3. \A m \in Module : m # bwd.mod - 1
    BY <1>1, <1>2
  <2> QED
    BY <2>2, <2>3, KeptGrows, BackGrows
<1>3. CASE bwd.mod # 1
  <2> DEFINE n == bwd.mod - 1
  <2>1. bwd'.mod = n /\ bwd'.stage = "pre" /\ n \in Module /\ n \in Int /\ InBackward'
    <3>1. bwd' = [mod |-> n, stage |-> "pre",
                  recomputed |-> bwd.recomputed /\ n \in setup.checkpoint[bwd.mod]]
      BY <1>3 DEF NextBackward
    <3>2. n \in Module /\ n \in Int /\ n # 0
      BY <1>1, <1>3, HooksAssumption DEF Module
    <3> QED
      BY <3>1, <3>2 DEF InBackward
  <2>2. CASE IsUnit[n]
    <3>1. n \in Room' /\ TransposedRoom' = {n}
      BY <2>1, <2>2 DEF Room, BackRoom, TransposedRoom
    <3>2. \A m \in Module : m \in FirstUnits => ~(bwd.mod <= m)
      BY <1>1, <2>1, <2>2 DEF FirstUnits, Module
    <3> QED
      BY <3>1, <3>2, KeptGrows, BackGrows
  <2>3. CASE ~IsUnit[n]
    <3>1. {m \in FirstUnits : n < m} \subseteq Room' /\ TransposedRoom' = {}
      BY <2>1, <2>3 DEF Room, BackRoom, TransposedRoom
    <3>2. \A m \in Module : m \in FirstUnits /\ bwd.mod <= m => m \in {l \in FirstUnits : n < l}
      BY <1>1 DEF Module
    <3> QED
      BY <2>3, <3>1, <3>2, KeptGrows, BackGrows
  <2> QED
    BY <2>2, <2>3
<1> QED
  BY <1>2, <1>3

\* A backward gather stays within the room of its module.
LEMMA PreBackwardRoom ==
  ASSUME UnitsInOrder, OneUnitAhead, IInv, ControlInv, RoomInv, setup' = setup, PreBackward
  PROVE  RoomInv' /\ (PoolServes(setup) => raised' = raised)
<1> DEFINE m == bwd.mod
           order == "BACKWARD_PASS_ORDER"
<1>1. /\ m \in Module /\ m \in Int /\ bwd.stage = "pre" /\ InBackward /\ ~InForward /\ fwd' = fwd
      /\ pending' = pending /\ ~InForward' /\ InStretch' /\ IsUnit[m] \in BOOLEAN /\ setup \in Setups
  BY HooksAssumption DEF PreBackward, ControlInv, HookTypes, Control, InForward, InBackward, InStretch, Module
<1>2. fwd.stage = "none"
  BY <1>1 DEF ControlInv, Control
<1>3. CASE IsUnit[m]
  <2> DEFINE S == {m, m - 1}
  <2>1. /\ Gather(ModuleBuckets[m], TRUE, order, TRUE) /\ order \in Order /\ ModuleBuckets[m] \in SUBSET Bucket
        /\ bwd'.mod = m /\ bwd'.stage = "wait"
    BY <1>1, <1>3, ModulesTyped DEF PreBackward, Order, ControlInv, HookTypes
  <2>2. Room = {m} /\ TransposedRoom = {m} /\ Room' = S /\ TransposedRoom' = S
    BY <1>1, <1>2, <1>3, <2>1 DEF Room, BackRoom, TransposedRoom, InBackward
  <2>3. KeptIn(bucket_status, bucket_can_be_released, S) /\ BackIn(bucket_status, S)
    BY <2>2, KeptGrows, BackGrows DEF RoomInv
  <2>4. \A b \in ModuleBuckets[m] : InRoom(b, S)
    BY <1>1, OwnRoom
  <2>5. ModuleBuckets[m] # {} => \A b \in Prefetched(ModuleBuckets[m], order) : InRoom(b, S)
    BY <1>1, <1>3, Behind
  <2>6. Few(S, setup)
    BY <1>1 DEF Few
  <2> HIDE DEF S, m, order
  <2>7. /\ KeptIn(bucket_status', bucket_can_be_released', S) /\ BackIn(bucket_status', S)
        /\ LiveIn(bucket_status', S) \/ bucket_status' = bucket_status
        /\ PoolServes(setup) => raised' = raised
    BY <1>1, <2>1, <2>3, <2>4, <2>5, <2>6, GatherRoom
  <2>8. FewLive(bucket_status', setup)
    BY <2>6, <2>7, FewGathered DEF RoomInv
  <2> QED
    BY <1>1, <2>2, <2>7, <2>8 DEF RoomInv
<1>4. CASE ~IsUnit[m]
  <2>1. /\ bwd'.mod = m /\ bwd'.stage = "run" /\ UNCHANGED <<bucket_status, bucket_can_be_released, raised>>
    BY <1>1, <1>4 DEF PreBackward, ControlInv, HookTypes, clientVars, pipelineVars
  <2>2. Room' = Room /\ TransposedRoom' = TransposedRoom
    BY <1>1, <1>2, <1>4, <2>1 DEF Room, BackRoom, TransposedRoom, InBackward
  <2> QED
    BY <1>1, <2>1, <2>2 DEF RoomInv
<1> QED
  BY <1>1, <1>3, <1>4

LEMMA PreBackwardWaitRoom ==
  ASSUME IInv, ControlInv, RoomInv, setup' = setup, PreBackwardWait
  PROVE  RoomInv'
<1>1. /\ bwd.mod \in Module /\ bwd.stage = "wait" /\ InBackward /\ ~InForward /\ fwd' = fwd
      /\ bwd'.mod = bwd.mod /\ bwd'.stage = "run" /\ pending' = pending
  BY DEF PreBackwardWait, ControlInv, HookTypes, Control, InForward, InBackward
<1>2. CallShrinks
  BY <1>1, WaitShrinks, ModulesTyped DEF PreBackwardWait
<1>3. Room' = Room /\ TransposedRoom' = TransposedRoom /\ InStretch'
  BY <1>1 DEF Room, BackRoom, TransposedRoom, InStretch, InForward, InBackward
<1>4. /\ KeptIn(bucket_status', bucket_can_be_released', Room)
      /\ BackIn(bucket_status', TransposedRoom)
  BY <1>2, ShrinksRoom DEF CallShrinks, RoomInv
<1> QED
  BY <1>1, <1>2, <1>3, <1>4, FewGrows DEF RoomInv

\* The backward pass of a unit releases its transposed weights first.
LEMMA PostBackwardRoom ==
  ASSUME UnitsInOrder, UnitsReturned, IInv, ControlInv, RoomInv, setup' = setup, PostBackward
  PROVE  RoomInv'
<1> DEFINE m == bwd.mod
<1>1. /\ m \in Module /\ m \in Int /\ bwd.stage = "run" /\ InBackward /\ ~InForward /\ fwd' = fwd
      /\ pending' = pending /\ ~InForward' /\ IsUnit[m] \in BOOLEAN /\ setup \in Setups
  BY HooksAssumption DEF PostBackward, ControlInv, HookTypes, Control, InForward, InBackward, Module
<1>2. fwd.stage = "none" /\ InStretch'
  BY <1>1 DEF ControlInv, Control, InStretch
<1>3. CASE IsUnit[m] /\ setup.has_grad_input[m]
  <2>1. /\ Release(ModuleBuckets[m], TRUE) /\ bwd'.mod = m /\ bwd'.stage = "release"
    BY <1>1, <1>3 DEF PostBackward, ControlInv, HookTypes
  <2>2. CallShrinks /\ \A k \in Keys(ModuleBuckets[m], TRUE) : bucket_status'[k] = "EMPTY"
    BY <1>1, <2>1, ReleaseShrinks, ModulesTyped
  <2>3. /\ Room' = Room
        /\ TransposedRoom = {m, m - 1} /\ TransposedRoom' = {m - 1}
    BY <1>1, <1>2, <1>3, <2>1 DEF Room, BackRoom, TransposedRoom, InBackward
  <2>4. /\ KeptIn(bucket_status', bucket_can_be_released', Room)
        /\ BackIn(bucket_status', TransposedRoom) /\ FewLive(bucket_status', setup)
    BY <2>2, ShrinksRoom, FewGrows DEF CallShrinks, RoomInv
  <2>5. BackIn(bucket_status', TransposedRoom \ {m})
    BY <1>1, <1>3, <2>2, <2>4, ShedBack
  <2>6. BackIn(bucket_status', TransposedRoom')
    BY <2>3, <2>5, BackGrows
  <2> QED
    BY <1>1, <1>2, <2>3, <2>4, <2>6 DEF RoomInv
<1>4. CASE ~(IsUnit[m] /\ setup.has_grad_input[m])
  <2>1. NextBackward /\ UNCHANGED <<bucket_status, bucket_can_be_released>>
    BY <1>4 DEF PostBackward, clientVars, pipelineVars
  <2>2. CASE ~IsUnit[m]
    <3>1. Room = {n \in FirstUnits : m < n} /\ TransposedRoom = {}
      BY <1>1, <1>2, <2>2 DEF Room, BackRoom, TransposedRoom
    <3>2. \A n \in Module : n \in Room => n \in FirstUnits /\ m <= n
      BY <1>1, <3>1 DEF Module
    <3>3. KeptIn(bucket_status, bucket_can_be_released, Room') /\ BackIn(bucket_status, TransposedRoom')
      BY <1>1, <2>1, <3>1, <3>2, NextBackwardRoom DEF RoomInv, ControlInv
    <3> QED
      BY <1>1, <1>2, <2>1, <3>3 DEF RoomInv
  <2>3. CASE IsUnit[m] /\ ~setup.has_grad_input[m]
    <3>1. Room = {m, m - 1} /\ TransposedRoom = {m, m - 1}
      BY <1>1, <1>2, <2>3 DEF Room, BackRoom, TransposedRoom
    <3>2. m \in FirstUnits /\ \A b \in ModuleBuckets[m] : ~HasTranspose[b]
      BY <1>1, <2>3 DEF UnitsReturned, FirstUnits
    <3>3. BackIn(bucket_status, {m - 1})
      <4> SUFFICES ASSUME NEW k \in Key, bucket_status[k] # "EMPTY", k[2], UnitOf[k[1]] # NoUnit
                   PROVE  k[1] \in OfUnits({m - 1})
        BY DEF BackIn, InRoom
      <4>1. PICK n \in Module : n \in {m, m - 1} /\ IsUnit[n] /\ k[1] \in ModuleBuckets[n]
        BY <3>1 DEF RoomInv, BackIn, InRoom, OfUnits
      <4>2. k[1] \in Bucket /\ HasTranspose[k[1]]
        BY KeyShape DEF KeyOf
      <4> QED
        BY <3>2, <4>1, <4>2 DEF OfUnits
    <3>4. \A n \in Module : n \in Room => n = m - 1 \/ (n \in FirstUnits /\ m <= n)
      BY <1>1, <3>1, <3>2
    <3>5. KeptIn(bucket_status, bucket_can_be_released, Room') /\ BackIn(bucket_status, TransposedRoom')
      BY <1>1, <2>1, <3>3, <3>4, NextBackwardRoom DEF RoomInv, ControlInv
    <3> QED
      BY <1>1, <1>2, <2>1, <3>5 DEF RoomInv
  <2> QED
    BY <1>1, <1>4, <2>2, <2>3
<1> QED
  BY <1>3, <1>4

\* ... and then the others.
LEMMA PostBackwardReleaseRoom ==
  ASSUME UnitsInOrder, IInv, ControlInv, RoomInv, setup' = setup, PostBackwardRelease
  PROVE  RoomInv'
<1> DEFINE m == bwd.mod
<1>1. /\ m \in Module /\ m \in Int /\ bwd.stage = "release" /\ InBackward /\ ~InForward /\ fwd' = fwd
      /\ pending' = pending /\ IsUnit[m] /\ NextBackward /\ Release(ModuleBuckets[m], FALSE)
  <2>1. /\ bwd.stage = "release" /\ fwd' = fwd /\ pending' = pending /\ NextBackward
        /\ Release(ModuleBuckets[m], FALSE)
    BY DEF PostBackwardRelease
  <2>2. InBackward /\ ~InForward /\ IsUnit[m]
    BY <2>1 DEF ControlInv, Control
  <2>3. m \in Module /\ m \in Int
    BY <2>2 DEF ControlInv, HookTypes, InBackward, Module
  <2> QED
    BY <2>1, <2>2, <2>3
<1>2. fwd.stage = "none" /\ InStretch'
  BY <1>1 DEF ControlInv, Control, InStretch, InForward
<1>3. CallShrinks /\ \A k \in Keys(ModuleBuckets[m], FALSE) : bucket_status'[k] = "EMPTY"
  BY <1>1, ReleaseShrinks, ModulesTyped
<1>4. Room = {m, m - 1} /\ TransposedRoom = {m - 1}
  BY <1>1, <1>2 DEF Room, BackRoom, TransposedRoom
<1>5. /\ KeptIn(bucket_status', bucket_can_be_released', Room)
      /\ BackIn(bucket_status', TransposedRoom) /\ FewLive(bucket_status', setup)
  BY <1>3, ShrinksRoom, FewGrows DEF CallShrinks, RoomInv
<1> DEFINE S == (Room \ {m}) \cup TransposedRoom
<1>6. KeptIn(bucket_status', bucket_can_be_released', S)
  BY <1>1, <1>3, <1>5, Shed
<1>7. /\ \A n \in Module : n \in S => n = m - 1
      /\ \A n \in Module : n \in TransposedRoom => n = m - 1
  BY <1>4
<1> HIDE DEF S
<1>8. KeptIn(bucket_status', bucket_can_be_released', Room') /\ BackIn(bucket_status', TransposedRoom')
  BY <1>1, <1>5, <1>6, <1>7, NextBackwardRoom DEF ControlInv
<1> QED
  BY <1>1, <1>2, <1>5, <1>8 DEF RoomInv

\* What stays gathered is marked when a backward pass begins.
LEMMA RootPreBackwardRoom ==
  ASSUME IInv, RoomInv, setup' = setup, RootPreBackward
  PROVE  RoomInv'
<1>1. ReleaseUnits /\ fwd' = fwd /\ pending' = pending /\ ~InBackward /\ ~InForward /\ ~InForward'
      /\ bwd'.stage = "pre"
  BY DEF RootPreBackward, Idle, InForward
<1>2. CallShrinks /\ \A k \in Key : ~k[2] /\ UnitOf[k[1]] # NoUnit => bucket_can_be_released'[k]
  BY <1>1, ReleaseUnitsShrinks
<1>3. BackIn(bucket_status', {}) /\ FewLive(bucket_status', setup)
  <2>1. BackIn(bucket_status, {})
    BY <1>1 DEF RoomInv, TransposedRoom
  <2> QED
    BY <1>2, <2>1, ShrinksRoom, FewGrows DEF CallShrinks, RoomInv
<1>4. KeptIn(bucket_status', bucket_can_be_released', {})
  <2> SUFFICES ASSUME NEW k \in Key, bucket_status'[k] # "EMPTY", ~bucket_can_be_released'[k]
               PROVE  InRoom(k[1], {})
    BY DEF KeptIn
  <2>1. k[2] \in BOOLEAN
    BY KeyShape
  <2> QED
    BY <1>2, <1>3, <2>1 DEF BackIn, InRoom
<1>5. KeptIn(bucket_status', bucket_can_be_released', Room') /\ BackIn(bucket_status', TransposedRoom')
  BY <1>3, <1>4, KeptGrows, BackGrows
<1> QED
  BY <1>1, <1>3, <1>5 DEF RoomInv, InStretch

\* A recomputation begins with the first module of the stretch.
LEMMA RecomputeRoom ==
  ASSUME ControlInv, RoomInv, setup' = setup, Recompute
  PROVE  RoomInv'
<1>1. /\ InBackward /\ ~InForward /\ setup.checkpoint[bwd.mod] # {} /\ bwd.mod \in Module /\ setup \in Setups
      /\ fwd'.mod = Min(setup.checkpoint[bwd.mod]) /\ fwd'.stage = "pre" /\ pending' = pending
      /\ bwd'.mod = bwd.mod /\ bwd'.stage = bwd.stage /\ fwd.stage = "none"
      /\ UNCHANGED <<bucket_status, bucket_can_be_released>>
  BY DEF Recompute, NeedsRecompute, ControlInv, HookTypes, Control, InBackward, clientVars, pipelineVars
<1>2. Min(setup.checkpoint[bwd.mod]) \in setup.checkpoint[bwd.mod]
  BY <1>1, StretchHasFirst
<1>3. InStretch'
  BY <1>1, <1>2 DEF InStretch
<1>4. \A m \in Module : m \in Room => m \in Room'
  BY <1>1 DEF Room, BackRoom, InBackward
<1>5. TransposedRoom' = TransposedRoom
  BY <1>1 DEF TransposedRoom, InBackward
<1>6. KeptIn(bucket_status', bucket_can_be_released', Room')
  BY <1>1, <1>4, KeptGrows DEF RoomInv
<1> QED
  BY <1>1, <1>3, <1>5, <1>6 DEF RoomInv

\* Between passes there is room for the first units.
LEMMA LoopRoom ==
  ASSUME UnitsInOrder, ControlInv, RoomInv, setup' = setup, ~setup.force_sync,
         RootPostBackward \/ BeginStep \/ EndStep \/ BeginForcedSync \/ EndForcedSync
  PROVE  RoomInv' /\ raised' = raised
<1>1. /\ fwd' = fwd /\ ~InForward /\ ~InForward' /\ pending' # "gather" /\ ~InBackward'
      /\ ResetAll \/ UNCHANGED <<bucket_status, bucket_can_be_released, raised>>
      /\ bwd.stage = "root" \/ ~InBackward
  <2>1. CASE RootPostBackward
    <3>1. ~InForward /\ bwd.stage = "root"
      BY <2>1 DEF RootPostBackward, ControlInv, Control, InForward, InBackward
    <3> QED
      BY <2>1, <3>1 DEF RootPostBackward, InForward, InBackward, NoBackward, clientVars, pipelineVars
  <2>2. CASE BeginStep
    BY <2>2 DEF BeginStep, Idle, InForward, InBackward, clientVars, pipelineVars
  <2>3. CASE EndStep
    <3>1. Idle
      BY <2>3 DEF EndStep, ControlInv, Control
    <3> QED
      BY <2>3, <3>1 DEF EndStep, Idle, InForward, InBackward, Install, InstallWeights
  <2>4. CASE BeginForcedSync \/ EndForcedSync
    BY <2>4 DEF BeginForcedSync, EndForcedSync, RoomInv
  <2> QED
    BY <2>1, <2>2, <2>3, <2>4
<1>2. CallShrinks /\ raised' = raised
  <2>1. CASE ResetAll
    BY <2>1, ResetShrinks DEF ResetAll, Reset
  <2>2. CASE UNCHANGED <<bucket_status, bucket_can_be_released, raised>>
    BY <2>2 DEF CallShrinks, Shrinks
  <2> QED
    BY <1>1, <2>1, <2>2
<1>3. Room' = Leading /\ TransposedRoom' = {} /\ TransposedRoom = {} /\ InStretch'
  BY <1>1 DEF Room, TransposedRoom, InStretch
<1>4. \A m \in Module : m \in Room => m \in Leading
  <2>1. CASE InBackward
    <3>1. fwd.stage = "none" /\ bwd.stage = "root"
      BY <1>1, <2>1 DEF ControlInv, Control
    <3>2. Room = FirstUnits
      BY <2>1, <3>1 DEF Room, BackRoom
    <3> QED
      BY <3>2 DEF FirstUnits, Leading, Module
  <2>2. CASE ~InBackward
    BY <1>1, <2>2 DEF Room
  <2> QED
    BY <2>1, <2>2
<1>5. KeptIn(bucket_status, bucket_can_be_released, Leading)
  BY <1>4, KeptGrows DEF RoomInv
<1>6. /\ KeptIn(bucket_status', bucket_can_be_released', Leading)
      /\ BackIn(bucket_status', TransposedRoom)
      /\ FewLive(bucket_status', setup)
  BY <1>2, <1>5, ShrinksRoom, FewGrows DEF CallShrinks, RoomInv
<1> QED
  BY <1>1, <1>2, <1>3, <1>6 DEF RoomInv

\* A synchronisation that overlaps the next step fetches the first units.
LEMMA StartSyncRoom ==
  ASSUME UnitsInOrder, OneUnitAhead, IInv, ControlInv, RoomInv, setup' = setup, StartParamSync
  PROVE  RoomInv' /\ (PoolServes(setup) => raised' = raised)
<1> DEFINE order == "FORWARD_PASS_ORDER"
<1>1. PICK b \in ModuleBuckets[1] : Gather({b}, TRUE, order, FALSE)
  BY DEF StartParamSync
<1>2. /\ ~InForward /\ ~InBackward /\ hookVars' = hookVars /\ 1 \in Module /\ order \in Order
      /\ setup \in Setups
  BY HooksAssumption DEF StartParamSync, Idle, Module, Order, ControlInv, HookTypes
<1>3. {b} \in SUBSET Bucket /\ b \in {b} /\ {b} \subseteq ModuleBuckets[1]
  BY <1>1, <1>2, ModulesTyped
<1>4. Room = Leading /\ Room' = Leading /\ TransposedRoom' = TransposedRoom /\ InStretch' /\ pending' = pending
  BY <1>2 DEF Room, TransposedRoom, InStretch, hookVars, InForward, InBackward
<1>5. InRoom(b, Leading) /\ \A c \in Prefetched({b}, order) : InRoom(c, Leading)
  <2>1. CASE IsUnit[1]
    <3>1. \A m \in Module : m \in {1, 1 + 1} /\ IsUnit[m] => m \in Leading
      BY <2>1 DEF Leading, Module
    <3>2. InRoom(b, {1, 1 + 1})
      BY <1>1, <1>2, OwnRoom
    <3>3. \A c \in Prefetched({b}, order) : InRoom(c, {1, 1 + 1})
      BY <1>2, <1>3, <2>1, Ahead
    <3> QED
      BY <3>1, <3>2, <3>3, InRoomGrows
  <2>2. CASE ~IsUnit[1]
    <3>1. UnitOf[b] = NoUnit /\ InRoom(b, Leading)
      BY <1>1, <1>2, <2>2, NonUnitRoom
    <3>2. \A c \in Prefetched({b}, order) : InRoom(c, Leading)
      BY <1>3, <3>1, Leads
    <3> QED
      BY <3>1, <3>2
  <2> QED
    BY <2>1, <2>2
<1>6. Few(Leading, setup)
  BY LeadingAreTwo DEF Few
<1> HIDE DEF order
<1>7. /\ KeptIn(bucket_status', bucket_can_be_released', Leading)
      /\ LiveIn(bucket_status', Leading) \/ bucket_status' = bucket_status
      /\ BackIn(bucket_status', TransposedRoom)
      /\ PoolServes(setup) => raised' = raised
  BY <1>1, <1>2, <1>3, <1>4, <1>5, <1>6, GatherRoom DEF RoomInv
<1>8. FewLive(bucket_status', setup)
  BY <1>6, <1>7, FewGathered DEF RoomInv
<1> QED
  BY <1>4, <1>7, <1>8 DEF RoomInv

----------------------------------------------------------------------------
Modest == ~setup.force_sync => RoomInv

LEMMA InitModest == Init => Modest
<1> SUFFICES ASSUME Init PROVE RoomInv
  BY DEF Modest
<1>1. \A k \in Key : bucket_status[k] = "EMPTY"
  BY DEF Init, ClientInit, PipelineInit
<1>2. InStretch /\ pending # "gather"
  BY DEF Init, InStretch, InForward, NotRunning
<1>3. LiveIn(bucket_status, {0, 0}) /\ Few({0, 0}, setup)
  BY <1>1 DEF LiveIn, Few
<1> QED
  BY <1>1, <1>2, <1>3 DEF RoomInv, KeptIn, BackIn, FewLive

LEMMA RoomStep ==
  ASSUME UnitsInOrder, OneUnitAhead, UnitsReturned, ContractInv, RoomInv, ~setup.force_sync,
         [Next]_vars
  PROVE  RoomInv' /\ (PoolServes(setup) /\ raised = "none" => raised' = "none")
<1> USE DEF ContractInv
<1>1. CASE Next
  <2>1. setup' = setup /\ raised = "none"
    BY <1>1 DEF Next
  <2>2. CASE \E grad \in BOOLEAN : StartForward(grad)
    BY <2>1, <2>2, StartRoom DEF StartForward, clientVars, pipelineVars
  <2>3. CASE PreForward
    BY <2>1, <2>3, PreForwardRoom
  <2>4. CASE PreForwardWait
    <3>1. raised' = "none"
      BY <2>1, <2>4, WaitKeeps, ModulesTyped DEF PreForwardWait, WaitsHeld, Holds, ControlInv, HookTypes, Control, InForward
    <3> QED
      BY <2>1, <2>4, <3>1, PreForwardWaitRoom
  <2>5. CASE PostForward
    <3>1. raised' = "none"
      BY <2>1, <2>5 DEF PostForward, ReleaseModule, Release, ReleaseBuckets, ReleaseLazily,
                        MarkReleasable, clientVars, pipelineVars
    <3> QED
      BY <2>1, <2>5, <3>1, PostForwardRoom
  <2>6. CASE StopRecompute
    BY <2>1, <2>6, StopRoom DEF StopRecompute, clientVars, pipelineVars
  <2>7. CASE RootPreBackward
    BY <2>1, <2>7, RootPreBackwardRoom DEF RootPreBackward, ReleaseUnits, MarkUnitsReleasable
  <2>8. CASE Recompute
    BY <2>1, <2>8, RecomputeRoom DEF Recompute, clientVars, pipelineVars
  <2>9. CASE PreBackward
    BY <2>1, <2>9, PreBackwardRoom
  <2>10. CASE PreBackwardWait
    <3>1. raised' = "none"
      BY <2>1, <2>10, WaitKeeps, ModulesTyped DEF PreBackwardWait, WaitsHeld, Holds, ControlInv, HookTypes, Control, InBackward
    <3> QED
      BY <2>1, <2>10, <3>1, PreBackwardWaitRoom
  <2>11. CASE PostBackward
    <3>1. raised' = "none"
      BY <2>1, <2>11 DEF PostBackward, Release, ReleaseBuckets, clientVars, pipelineVars
    <3> QED
      BY <2>1, <2>11, <3>1, PostBackwardRoom
  <2>12. CASE PostBackwardRelease
    <3>1. raised' = "none"
      BY <2>1, <2>12 DEF PostBackwardRelease, Release, ReleaseBuckets
    <3> QED
      BY <2>1, <2>12, <3>1, PostBackwardReleaseRoom
  <2>13. CASE RootPostBackward \/ BeginStep \/ EndStep \/ BeginForcedSync \/ EndForcedSync
    BY <2>1, <2>13, LoopRoom
  <2>14. CASE StartParamSync
    BY <2>1, <2>14, StartSyncRoom
  <2> QED
    BY <1>1, <2>2, <2>3, <2>4, <2>5, <2>6, <2>7, <2>8, <2>9, <2>10, <2>11, <2>12, <2>13, <2>14 DEF Next
<1>2. CASE UNCHANGED vars
  <2>1. UNCHANGED <<bucket_status, bucket_can_be_released, raised, setup, fwd, bwd, pending>>
    BY <1>2 DEF vars, clientVars, pipelineVars, hookVars
  <2>2. Room' = Room /\ TransposedRoom' = TransposedRoom /\ InStretch' = InStretch
    BY <2>1 DEF Room, BackRoom, TransposedRoom, InStretch, InForward, InBackward
  <2> QED
    BY <2>1, <2>2 DEF RoomInv
<1> QED
  BY <1>1, <1>2

\* Few units in memory are no more than the bound.
LEMMA FewAreWithin ==
  ASSUME UnitsInOrder, setup \in Setups, FewLive(bucket_status, setup)
  PROVE  Cardinality(LiveUnits) <= Max({2, LargestStretch})
<1>1. PICK S : Few(S, setup) /\ LiveIn(bucket_status, S)
  BY DEF FewLive
<1>2. LiveUnits \in SUBSET UnitsOf(S)
  BY <1>1 DEF LiveUnits, LiveIn, InRoom, UnitsOf
<1>3. IsFiniteSet(UnitsOf(S)) /\ Cardinality(UnitsOf(S)) \in Nat
  BY <1>1, FewUnits
<1>4. \/ Cardinality(UnitsOf(S)) <= 2
      \/ \E m \in Module : Cardinality(UnitsOf(S)) <= Cardinality(StretchUnits(setup, m))
  BY <1>1, FewUnits
<1>5. Cardinality(LiveUnits) <= Cardinality(UnitsOf(S)) /\ Cardinality(LiveUnits) \in Nat
  BY <1>2, <1>3, FS_Subset, FS_CardinalityType
<1> DEFINE C == {Cardinality(StretchUnits(setup, m)) : m \in Module}
<1>6. \A m \in Module : Cardinality(StretchUnits(setup, m)) \in Nat
                        /\ Cardinality(StretchUnits(setup, m)) <= NumModules
  BY StretchFinite
<1>7. 1 \in Module /\ NumModules \in Nat
  BY HooksAssumption DEF Module
<1>8. C \subseteq Int /\ Cardinality(StretchUnits(setup, 1)) \in C /\ \A x \in C : x <= NumModules
  BY <1>6, <1>7
<1>9. LargestStretch = Max(C)
  BY DEF LargestStretch, StretchUnits
<1> HIDE DEF C
<1>10. Max(C) \in C /\ \A x \in C : x <= Max(C)
  <2>1. PICK x \in C : TRUE
    BY <1>8
  <2>2. NumModules \in Int
    BY <1>7
  <2> QED
    BY <1>8, <2>1, <2>2, Top
<1>11. LargestStretch \in Int /\ LargestStretch <= NumModules
       /\ \A m \in Module : Cardinality(StretchUnits(setup, m)) <= LargestStretch
  BY <1>8, <1>9, <1>10 DEF C
<1> DEFINE D == {2, LargestStretch}
<1>12. D \subseteq Int /\ 2 \in D /\ NumModules + 2 \in Int /\ \A x \in D : x <= NumModules + 2
  BY <1>7, <1>11
<1>13. Max(D) \in D /\ \A x \in D : x <= Max(D)
  BY <1>12, Top
<1>14. Max(D) \in Int /\ 2 <= Max(D) /\ LargestStretch <= Max(D)
  BY <1>12, <1>13
<1> HIDE DEF D
<1>15. Cardinality(UnitsOf(S)) <= Max(D)
  BY <1>3, <1>4, <1>6, <1>11, <1>14
<1>16. Cardinality(LiveUnits) <= Max(D)
  BY <1>3, <1>5, <1>14, <1>15
<1> QED
  BY <1>16 DEF D

\* The prefetch limit keeps what it is there for: in every chain of units the unit
\* in use and one more are in memory, or the units that are recomputed together,
\* through every pass, recomputation and optimizer step.
THEOREM FewUnitsInMemory ==
  ASSUME UnitsInOrder, OneUnitAhead, UnitsReturned PROVE Spec => []UnitsInMemory
<1>1. Init => Modest
  BY InitModest
<1>2. ContractInv /\ Modest /\ [Next]_vars => Modest'
  <2> SUFFICES ASSUME ContractInv, Modest, [Next]_vars, ~setup'.force_sync PROVE RoomInv'
    BY DEF Modest
  <2>1. setup' = setup
    BY DEF Next, vars, hookVars
  <2> QED
    BY <2>1, RoomStep DEF Modest
<1>3. ContractInv /\ Modest => UnitsInMemory
  BY FewAreWithin DEF Modest, RoomInv, UnitsInMemory, ContractInv, ControlInv, HookTypes
<1> QED
  BY <1>1, <1>2, <1>3, ContractInvariance, PTL DEF Spec

\* The double buffer is never exhausted, so that no hook raises with it either: if
\* no more than two units are recomputed together and nothing forces all to be
\* gathered, each gather finds two buffers for each offset enough.
THEOREM PoolNeverExhausted ==
  ASSUME UnitsInOrder, OneUnitAhead, UnitsReturned,
         \A s \in Setups : PoolServes(s)
  PROVE  Spec => []NoError
<1>1. Init => Modest /\ NoError
  BY InitModest DEF Init, ClientInit, PipelineInit, NoError
<1>2. ContractInv /\ Modest /\ NoError /\ [Next]_vars => Modest' /\ NoError'
  <2> SUFFICES ASSUME ContractInv, Modest, NoError, [Next]_vars PROVE Modest' /\ NoError'
    OBVIOUS
  <2>1. setup \in Setups /\ PoolServes(setup) /\ ~setup.force_sync
    BY DEF ContractInv, ControlInv, HookTypes, PoolServes
  <2> QED
    BY <2>1, RoomStep DEF Modest, NoError
<1> QED
  BY <1>1, <1>2, ContractInvariance, PTL DEF Spec
=============================================================================
