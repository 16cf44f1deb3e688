----------------------------- MODULE FsdpHooks -----------------------------
(***************************************************************************)
(* The module hooks of GroveFSDP (grove_fsdp.py) driving the all-gather    *)
(* pipeline on one rank through forward passes, backward passes with       *)
(* activation recomputation, and optimizer steps.                          *)
(*                                                                         *)
(* The model is a chain of modules 1 .. NumModules; a module is an FSDP    *)
(* unit or not.  Autograd and activation checkpointing, which decide when  *)
(* the hooks run, are external: they are modelled from the order in which  *)
(* the hooks are registered to fire.  Each hook is split at the calls it   *)
(* makes to the pipeline.                                                  *)
(***************************************************************************)
EXTENDS PipelineClient

CONSTANTS
  NumModules,      \* the modules of the model, in the order they are called
  ModuleBuckets,   \* module -> buckets of its parameters
  IsUnit,          \* module -> instance of fsdp_unit_modules
  Setups,          \* the ways of training that are considered, see setup
  MaxGraphs        \* bound on forward passes that await their backward pass

Module == 1 .. NumModules

\* One way of training the model.  "checkpoint" maps a module to the stretch of
\* modules recomputed together with it, or to {}.
ValidSetup(s) ==
  /\ s \in [checkpoint : [Module -> SUBSET Module],
            reentrant : BOOLEAN,                     \* checkpoint(use_reentrant=...)
            has_grad_input : [Module -> BOOLEAN],    \* some input requires grad
            auto_sync : BOOLEAN,                     \* model_auto_sync
            outstanding : 1 .. MaxGraphs,            \* forward passes in flight
            eval : BOOLEAN,                          \* passes without a backward pass
            force_sync : BOOLEAN]                    \* start_param_sync(force_sync=True)
  /\ \A m \in Module : s.checkpoint[m] # {} =>
       /\ m \in s.checkpoint[m]
       /\ \E lo, hi \in Module : s.checkpoint[m] = lo .. hi
       /\ \A n \in s.checkpoint[m] : s.checkpoint[n] = s.checkpoint[m]

ASSUME HooksAssumption ==
  /\ NumModules \in Nat \ {0}
  /\ ModuleBuckets \in [Module -> SUBSET Bucket]
  /\ IsUnit \in [Module -> BOOLEAN]
  /\ \A m \in Module, b \in Bucket :
       b \in ModuleBuckets[m] => (IsUnit[m] <=> UnitOf[b] # NoUnit)
  /\ \A b \in Bucket : UnitOf[b] = NoUnit => ~HasTranspose[b]
  /\ Setups # {} /\ \A s \in Setups : ValidSetup(s)
  /\ MaxGraphs \in Nat \ {0}

VARIABLES
  setup,          \* the way of training, chosen once
  training_state, \* module -> IDLE, FORWARD or PRE_BACKWARD
  fwd,            \* forward progress: module, last module and stage
  bwd,            \* backward progress: module and stage
  graphs,         \* forward passes whose backward pass has not run
  pending         \* what the training loop does next outside the model

hookVars == <<setup, training_state, fwd, bwd, graphs, pending>>
vars == <<clientVars, hookVars>>

NotRunning == [mod |-> 0, last |-> 0, stage |-> "none", grad |-> FALSE]
NoBackward == [mod |-> 0, stage |-> "none", recomputed |-> FALSE]

InForward  == fwd.mod # 0
InBackward == bwd.mod # 0
Idle == ~InForward /\ ~InBackward

TrainingState == {"IDLE", "FORWARD", "PRE_BACKWARD"}

----------------------------------------------------------------------------
(* Forward pass, and the forward pass repeated by recomputation.           *)

StartForward(grad) ==
  /\ Idle /\ pending \in {"none", "step"}
  /\ IF grad THEN graphs < setup.outstanding ELSE setup.eval
  /\ fwd' = [mod |-> 1, last |-> NumModules, stage |-> "pre", grad |-> grad]
  /\ UNCHANGED <<clientVars, training_state, bwd, graphs, pending>>

\* all_gather_and_wait_parameters_ready up to the wait; prefetching is cancelled
\* during recomputation.
UnshardForward_Mutant(m, recompute) ==
  IF recompute THEN UNCHANGED clientVars
  ELSE Gather(ModuleBuckets[m], TRUE, "FORWARD_PASS_ORDER", FALSE)
UnshardForward(m, recompute) ==
  Gather(ModuleBuckets[m], ~recompute, "FORWARD_PASS_ORDER", FALSE)

\* _pre_forward_param_unshard
PreForward ==
  /\ fwd.stage = "pre"
  /\ LET recompute == training_state[fwd.mod] = "PRE_BACKWARD"
     IN  /\ training_state' = IF recompute THEN training_state
                              ELSE [training_state EXCEPT ![fwd.mod] = "FORWARD"]
         /\ UnshardForward(fwd.mod, recompute)
  /\ fwd' = [fwd EXCEPT !.stage = "wait"]
  /\ UNCHANGED <<bwd, graphs, pending>>

PreForwardWait ==
  /\ fwd.stage = "wait"
  /\ Wait(ModuleBuckets[fwd.mod], FALSE)
  /\ fwd' = [fwd EXCEPT !.stage = "run"]
  /\ UNCHANGED <<training_state, bwd, graphs, pending>>

NextForward ==
  IF fwd.mod = fwd.last
  THEN /\ fwd' = NotRunning
       /\ graphs' = IF fwd.grad THEN graphs + 1 ELSE graphs
  ELSE /\ fwd' = [fwd EXCEPT !.mod = @ + 1, !.stage = "pre"]
       /\ UNCHANGED graphs

\* release_module_parameters after the forward of a unit.
ReleaseModule_EagerMutant(m, lazy) == Release(ModuleBuckets[m], FALSE)
ReleaseModule_KeepMutant(m, lazy) ==
  IF lazy THEN ReleaseLazily(ModuleBuckets[m], FALSE) ELSE UNCHANGED clientVars
ReleaseModule(m, lazy) ==
  IF lazy THEN ReleaseLazily(ModuleBuckets[m], FALSE) ELSE Release(ModuleBuckets[m], FALSE)

\* _post_forward, registered on units only: the parameters are released, lazily
\* when this is the recomputation before the backward pass.
PostForward ==
  /\ fwd.stage = "run"
  /\ IF ~IsUnit[fwd.mod] THEN UNCHANGED <<clientVars, training_state>>
     ELSE LET lazy == training_state[fwd.mod] = "PRE_BACKWARD"
          IN  /\ ReleaseModule(fwd.mod, lazy)
              /\ training_state' = IF lazy THEN training_state
                                   ELSE [training_state EXCEPT ![fwd.mod] = "IDLE"]
  /\ NextForward
  /\ UNCHANGED <<bwd, pending>>

\* Recomputation may stop inside its last module once the last saved tensor
\* is back; the post-forward hook then does not run.
StopRecompute ==
  /\ fwd.stage = "run" /\ InBackward /\ fwd.mod = fwd.last
  /\ fwd' = NotRunning
  /\ UNCHANGED <<clientVars, training_state, bwd, graphs, pending>>

----------------------------------------------------------------------------
(* Backward pass.                                                          *)

\* _root_pre_backward.
RootPreBackward ==
  /\ Idle /\ graphs > 0 /\ pending \in {"none", "step"}
  /\ training_state' = [m \in Module |-> "PRE_BACKWARD"]
  /\ ReleaseUnits
  /\ bwd' = [mod |-> NumModules, stage |-> "pre", recomputed |-> FALSE]
  /\ UNCHANGED <<fwd, graphs, pending>>

\* The backward pass has reached a checkpointed stretch not recomputed yet:
\* before its last module when re-entrant, else when that module unpacks.
NeedsRecompute ==
  /\ InBackward /\ setup.checkpoint[bwd.mod] # {} /\ ~bwd.recomputed
  /\ bwd.stage = IF setup.reentrant THEN "pre" ELSE "run"

Recompute ==
  /\ NeedsRecompute /\ ~InForward
  /\ fwd' = [mod |-> Min(setup.checkpoint[bwd.mod]), last |-> bwd.mod, stage |-> "pre",
             grad |-> FALSE]
  /\ bwd' = [bwd EXCEPT !.recomputed = TRUE]
  /\ UNCHANGED <<clientVars, training_state, graphs, pending>>

\* _pre_backward_param_unshard, registered on units only.
PreBackward ==
  /\ bwd.stage = "pre" /\ ~InForward /\ ~NeedsRecompute
  /\ IF IsUnit[bwd.mod]
     THEN /\ training_state' = [training_state EXCEPT ![bwd.mod] = "PRE_BACKWARD"]
          /\ Gather(ModuleBuckets[bwd.mod], TRUE, "BACKWARD_PASS_ORDER", TRUE)
          /\ bwd' = [bwd EXCEPT !.stage = "wait"]
     ELSE /\ bwd' = [bwd EXCEPT !.stage = "run"]
          /\ UNCHANGED <<clientVars, training_state>>
  /\ UNCHANGED <<fwd, graphs, pending>>

PreBackwardWait ==
  /\ bwd.stage = "wait"
  /\ Wait(ModuleBuckets[bwd.mod], TRUE)
  /\ bwd' = [bwd EXCEPT !.stage = "run"]
  /\ UNCHANGED <<training_state, fwd, graphs, pending>>

NextBackward ==
  bwd' = IF bwd.mod = 1 THEN [bwd EXCEPT !.stage = "root"]
         ELSE [mod |-> bwd.mod - 1, stage |-> "pre",
               recomputed |-> bwd.recomputed /\ bwd.mod - 1 \in setup.checkpoint[bwd.mod]]

\* _post_backward_release_module, in front of the module's inputs that require
\* grad: first the backward key is released, then the forward key.
PostBackward ==
  /\ bwd.stage = "run" /\ ~InForward /\ ~NeedsRecompute
  /\ IF IsUnit[bwd.mod] /\ setup.has_grad_input[bwd.mod]
     THEN Release(ModuleBuckets[bwd.mod], TRUE) /\ bwd' = [bwd EXCEPT !.stage = "release"]
     ELSE UNCHANGED clientVars /\ NextBackward
  /\ UNCHANGED <<training_state, fwd, graphs, pending>>

PostBackwardRelease ==
  /\ bwd.stage = "release"
  /\ Release(ModuleBuckets[bwd.mod], FALSE)
  /\ training_state' = [training_state EXCEPT ![bwd.mod] = "IDLE"]
  /\ NextBackward
  /\ UNCHANGED <<fwd, graphs, pending>>

\* _root_post_backward: with auto-sync, finish_grad_sync resets the pipeline.
RootPostBackward ==
  /\ bwd.stage = "root"
  /\ IF setup.auto_sync THEN ResetAll ELSE UNCHANGED clientVars
  /\ bwd' = NoBackward
  /\ graphs' = graphs - 1
  /\ pending' = "step"
  /\ UNCHANGED <<training_state, fwd>>

----------------------------------------------------------------------------
(* The training loop around the model.                                     *)

\* optimizer.step(): finish_grad_sync unless auto-sync has done it, then the
\* base step and install_optimized_model_weights.
BeginStep ==
  /\ Idle /\ pending = "step" /\ graphs = 0
  /\ IF setup.auto_sync THEN UNCHANGED clientVars ELSE ResetAll
  /\ pending' = "install"
  /\ UNCHANGED <<training_state, fwd, bwd, graphs>>

EndStep ==
  /\ pending = "install"
  /\ Install
  /\ pending' = "none"
  /\ UNCHANGED <<training_state, fwd, bwd, graphs>>

\* start_param_sync, overlapped: the first bucket and its prefetch are launched
\* and not waited for.
StartParamSync ==
  /\ Idle /\ pending = "none" /\ graphs = 0
  /\ \E b \in ModuleBuckets[1] : Gather({b}, TRUE, "FORWARD_PASS_ORDER", FALSE)
  /\ UNCHANGED hookVars

\* start_param_sync(force_sync=True): reset, then gather every bucket.
BeginForcedSync ==
  /\ setup.force_sync /\ Idle /\ pending = "none" /\ graphs = 0
  /\ ResetAll
  /\ pending' = "gather"
  /\ UNCHANGED <<training_state, fwd, bwd, graphs>>

EndForcedSync ==
  /\ pending = "gather"
  /\ GatherAll
  /\ pending' = "none"
  /\ UNCHANGED <<training_state, fwd, bwd, graphs>>

Init ==
  /\ ClientInit
  /\ setup \in Setups
  /\ training_state = [m \in Module |-> "IDLE"]
  /\ fwd = NotRunning
  /\ bwd = NoBackward
  /\ graphs = 0
  /\ pending = "none"

Next ==
  /\ raised = "none"
  /\ setup' = setup
  /\ \/ \E grad \in BOOLEAN : StartForward(grad)
     \/ PreForward \/ PreForwardWait \/ PostForward \/ StopRecompute
     \/ RootPreBackward \/ Recompute \/ PreBackward \/ PreBackwardWait
     \/ PostBackward \/ PostBackwardRelease \/ RootPostBackward
     \/ BeginStep \/ EndStep
     \/ StartParamSync \/ BeginForcedSync \/ EndForcedSync

Spec == Init /\ [][Next]_vars
----------------------------------------------------------------------------
(* Properties.                                                             *)

\* The hooks' own state has its types, and the pipeline's has too.
HooksTypeOK ==
  /\ TypeOK
  /\ setup \in Setups
  /\ training_state \in [Module -> TrainingState]
  /\ fwd \in [mod : Module \cup {0}, last : Module \cup {0},
              stage : {"none", "pre", "wait", "run"}, grad : BOOLEAN]
  /\ bwd \in [mod : Module \cup {0}, recomputed : BOOLEAN,
              stage : {"none", "pre", "wait", "run", "release", "root"}]
  /\ graphs \in 0 .. MaxGraphs
  /\ pending \in {"none", "step", "install", "gather"}

\* The weights the running forward and backward computations read.  A module
\* whose backward is under way keeps reading while its stretch is recomputed.
InUse ==
  (IF fwd.stage = "run" THEN Keys(ModuleBuckets[fwd.mod], FALSE) ELSE {})
  \cup
  (IF bwd.stage = "run" THEN Keys(ModuleBuckets[bwd.mod], IsUnit[bwd.mod]) ELSE {})

\* A computation never runs on weights whose bucket was recycled, freed or is
\* still being gathered, although other modules gather, prefetch, release and
\* lazily release around it.
InUseReady == \A k \in InUse : bucket_status[k] = "READY_TO_USE"

\* A computation reads the weights of the last optimizer step, never a bucket
\* left over from before it.
InUseFresh == \A k \in InUse : contents[k] = shard_version

\* No hook raises: no wait for an empty bucket, and every bucket gathered into
\* the fixed pool finds an idle buffer.
NoError == raised = "none"

\* Units whose weights are unsharded at the same time.
LiveUnits == {UnitOf[k[1]] : k \in {j \in Key : bucket_status[j] # "EMPTY"}} \ {NoUnit}

\* The units that are recomputed with a module, and the most there are together.
StretchUnits(s, m) == {n \in s.checkpoint[m] : IsUnit[n]}
LargestStretch ==
  Max({Cardinality(StretchUnits(setup, m)) : m \in Module})

\* What the prefetch limit is there for: with buckets no smaller than the limit,
\* the unit in use and one more are in memory, or the stretch that is
\* recomputed, unless everything is gathered by a forced synchronisation.
UnitsInMemory ==
  ~setup.force_sync => Cardinality(LiveUnits) <= Max({2, LargestStretch})

\* Outside any pass, and with no backward pass outstanding, no unit with a
\* gradient input stays unsharded unless it is marked for the next recycling.
UnitsReleasedAfterUse ==
  Idle /\ pending = "step" /\ graphs = 0 =>
    \A m \in Module : IsUnit[m] /\ setup.has_grad_input[m] =>
      \A k \in Keys(ModuleBuckets[m], FALSE) \cup Keys(ModuleBuckets[m], TRUE) :
        bucket_status[k] = "READY_TO_USE" => bucket_can_be_released[k]

\* The hooks use the pipeline within the contract of PipelineClient.
UsesPipelineByContract == ClientSpec

----------------------------------------------------------------------------
(* What theorems assume of a model and of the ways of training it.         *)

\* Units follow each other in the chain, and their buckets in the same order
\* after those of modules that are no units; each bucket is of some module.
UnitsInOrder ==
  /\ \A b \in Bucket : \E m \in Module : b \in ModuleBuckets[m]
  /\ \A m \in Module : IsUnit[m] =>
       ModuleBuckets[m] # {} /\ \A b, c \in ModuleBuckets[m] : UnitOf[b] = UnitOf[c]
  /\ \A l, m, n \in Module : IsUnit[l] /\ IsUnit[n] /\ l < m /\ m < n => IsUnit[m]
  /\ \A m, n \in Module : IsUnit[n] /\ (IsUnit[m] => m < n) =>
       \A b \in ModuleBuckets[m], c \in ModuleBuckets[n] : b < c /\ UnitOf[b] # UnitOf[c]

\* No bucket is smaller than the prefetch limit, or the fixed pool serves all units.
OneUnitAhead ==
  \/ \A b \in Bucket : PrefetchSize <= BucketSize[b]
  \/ FsdpDoubleBuffer /\ \A b \in Bucket : UnitOf[b] # NoUnit => UnitOf[b] \in DoubleBufUnits

\* Only the first unit may have no hook behind its input, and no transposed weights then.
UnitsReturned ==
  \A s \in Setups, m \in Module : IsUnit[m] /\ ~s.has_grad_input[m] =>
    /\ \A n \in Module : n < m => ~IsUnit[n]
    /\ \A b \in ModuleBuckets[m] : ~HasTranspose[b]

\* The fixed pool has two buffers, and no more than two units are recomputed
\* together or gathered by force.
PoolServes(s) ==
  /\ 2 <= PoolSize /\ ~s.force_sync
  /\ \A m \in Module : Cardinality(StretchUnits(s, m)) <= 2
============================================================================
