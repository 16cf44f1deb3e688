--------------------------- MODULE ReductionOrder ---------------------------
(***************************************************************************)
(* The gradient reduction of several ranks.  Each runs its own backward    *)
(* passes and launches the collectives of its bucket groups as they become *)
(* ready (GradReducePipeline has the whole of one rank); a collective is   *)
(* executed when every rank of its process group has reached it.  What may *)
(* go wrong is the order: "performing reduce-scatter operations out of     *)
(* order can lead to hangs" (param_and_grad_buffer.py:3672).               *)
(*                                                                         *)
(* All ranks run the same model, so their hooks fire in the same order,    *)
(* but of the parameters that received a gradient only.                    *)
(***************************************************************************)
EXTENDS Integers, Sequences, FiniteSets, Functions, SequencesExt

CONSTANTS
  Rank, NumBuckets, NumParams,
  BucketOf,       \* parameter -> bucket, in the order of the parameters
  GroupOf,        \* bucket -> list of the buckets of its bucket group
  ProcessGroups,  \* bucket -> partition of the ranks, its process groups
  BucketSize,     \* bucket -> elements
  QueueCapacity,  \* suggested_RS_queue_capacity
  Shared,         \* parameters with _is_shared
  HookOrder,      \* the parameters in the order of their hooks
  Uses,           \* what may receive gradients: rank -> set of parameters
  NumPasses       \* number of backward passes that differ; they repeat

Bucket == 0 .. NumBuckets - 1
Param  == 0 .. NumParams - 1
Pass   == 0 .. NumPasses - 1
ParamsOf(b) == {p \in Param : BucketOf[p] = b}

ASSUME OrderAssumption ==
  /\ Rank # {} /\ NumPasses \in Nat \ {0}
  /\ NumBuckets \in Nat /\ NumParams \in Nat
  /\ BucketOf \in [Param -> Bucket]
  /\ \A b \in Bucket : ParamsOf(b) # {}
  /\ \A p, q \in Param : p < q => BucketOf[p] <= BucketOf[q]
  /\ GroupOf \in [Bucket -> Seq(Bucket)]
  /\ \A b \in Bucket : b \in Range(GroupOf[b]) /\ \A c \in Range(GroupOf[b]) :
                         GroupOf[c] = GroupOf[b] /\ ProcessGroups[c] = ProcessGroups[b]
  /\ \A b \in Bucket : /\ UNION ProcessGroups[b] = Rank
                        /\ \A c, d \in ProcessGroups[b] : c # d => c \cap d = {}
  /\ BucketSize \in [Bucket -> Nat] /\ QueueCapacity \in Nat
  /\ Shared \subseteq Param
  /\ HookOrder \in Seq(Param) /\ Range(HookOrder) = Param
  /\ \A i, j \in 1 .. Len(HookOrder) : HookOrder[i] = HookOrder[j] => i = j
  /\ Uses \subseteq [Rank -> SUBSET Param]

VARIABLES
  uses,              \* pass -> rank -> parameters that receive a gradient
  pass,              \* rank -> the backward pass it is in
  at_root,           \* rank -> _root_post_backward has begun
  require_handle,    \* rank -> parameters not handed to the pipeline yet
  ready,             \* rank -> bucket_grad_ready_params
  launching,         \* rank -> the bucket group about to be launched, or <<>>
  grad_reduce_queue, \* rank -> launched buckets whose closure has not run
  rs_stream          \* rank -> collectives launched and not yet executed

vars == <<uses, pass, at_root, require_handle, ready, launching, grad_reduce_queue, rs_stream>>

----------------------------------------------------------------------------
(* One rank.                                                               *)

\* Hooks still to run: shared parameters are left to the root hook.
Coming(r) == (uses[pass[r]][r] \cap require_handle[r]) \ Shared

\* The buckets with a parameter that is left to the root hook.
LeftToRoot(used) == {BucketOf[p] : p \in Shared \cup (Param \ used)}

Before(p, q) ==
  \E i, j \in 1 .. Len(HookOrder) : i < j /\ HookOrder[i] = p /\ HookOrder[j] = q

\* The parameter that is handed to reduce_gradients next: by a hook, or by the
\* root hook, which sorts what is left by bucket.
IsNext_Mutant(r, p) ==
  IF at_root[r] THEN p \in require_handle[r]
  ELSE p \in Coming(r) /\ \A q \in Coming(r) \ {p} : Before(p, q)
IsNext(r, p) ==
  IF at_root[r] THEN p \in require_handle[r] /\ \A q \in require_handle[r] : p <= q
  ELSE p \in Coming(r) /\ \A q \in Coming(r) \ {p} : Before(p, q)

\* get_ready_bucket_group_for_reduction
GroupReady(b, marked) == \A c \in Range(GroupOf[b]) : marked[c] = ParamsOf(c)

\* reduce_gradients, for one parameter.
MarkReady(r) ==
  /\ launching[r] = <<>>
  /\ \E p \in Param :
       /\ IsNext(r, p)
       /\ ready' = [ready EXCEPT ![r][BucketOf[p]] = @ \cup {p}]
       /\ require_handle' = [require_handle EXCEPT ![r] = @ \ {p}]
       /\ launching' = [launching EXCEPT ![r] = IF GroupReady(BucketOf[p], ready'[r])
                                                THEN GroupOf[BucketOf[p]] ELSE <<>>]
  /\ UNCHANGED <<uses, pass, at_root, grad_reduce_queue, rs_stream>>

OverCapacity(r) ==
  FoldLeft(LAMBDA n, b : n + BucketSize[b], 0, grad_reduce_queue[r]) > QueueCapacity

Launch(r) ==
  /\ launching[r] # <<>> /\ ~OverCapacity(r)
  /\ rs_stream' = [rs_stream EXCEPT ![r] = Append(@, launching[r])]
  /\ grad_reduce_queue' = [grad_reduce_queue EXCEPT ![r] = @ \o launching[r]]
  /\ launching' = [launching EXCEPT ![r] = <<>>]
  /\ UNCHANGED <<uses, pass, at_root, require_handle, ready>>

RootPostBackward(r) ==
  /\ ~at_root[r] /\ launching[r] = <<>> /\ Coming(r) = {}
  /\ at_root' = [at_root EXCEPT ![r] = TRUE]
  /\ UNCHANGED <<uses, pass, require_handle, ready, launching, grad_reduce_queue, rs_stream>>

\* The rank has nothing more to launch in this pass and resets the pipeline.
Draining(r) == at_root[r] /\ require_handle[r] = {} /\ launching[r] = <<>>

\* wait_for_previous_grad_reduce: what follows on this rank comes after the
\* collective of the oldest bucket in the queue.
Pop(r) ==
  /\ Draining(r) \/ (launching[r] # <<>> /\ OverCapacity(r))
  /\ grad_reduce_queue[r] # <<>>
  /\ LET b == Head(grad_reduce_queue[r])
     IN  /\ \A i \in 1 .. Len(rs_stream[r]) : b \notin Range(rs_stream[r][i])
         /\ ready' = [ready EXCEPT ![r][b] = {}]
  /\ grad_reduce_queue' = [grad_reduce_queue EXCEPT ![r] = Tail(@)]
  /\ UNCHANGED <<uses, pass, at_root, require_handle, launching, rs_stream>>

\* The end of one backward pass and the beginning of the next.
NextPass(r) ==
  /\ Draining(r) /\ grad_reduce_queue[r] = <<>>
  /\ pass' = [pass EXCEPT ![r] = (@ + 1) % NumPasses]
  /\ at_root' = [at_root EXCEPT ![r] = FALSE]
  /\ require_handle' = [require_handle EXCEPT ![r] = Param]
  /\ UNCHANGED <<uses, ready, launching, grad_reduce_queue, rs_stream>>

----------------------------------------------------------------------------
(* Communication.  External: a collective starts when all ranks of its     *)
(* process group have reached it in their streams.                         *)

AtHead(r, group) == rs_stream[r] # <<>> /\ Head(rs_stream[r]) = group

Collective(ranks, group) ==
  /\ ranks \in ProcessGroups[group[1]]
  /\ \A r \in ranks : AtHead(r, group)
  /\ rs_stream' = [r \in Rank |-> IF r \in ranks THEN Tail(rs_stream[r]) ELSE rs_stream[r]]
  /\ UNCHANGED <<uses, pass, at_root, require_handle, ready, launching, grad_reduce_queue>>

----------------------------------------------------------------------------
Init ==
  /\ uses \in [Pass -> Uses]
  /\ pass = [r \in Rank |-> 0]
  /\ at_root = [r \in Rank |-> FALSE]
  /\ require_handle = [r \in Rank |-> Param]
  /\ ready = [r \in Rank |-> [b \in Bucket |-> {}]]
  /\ launching = [r \in Rank |-> <<>>]
  /\ grad_reduce_queue = [r \in Rank |-> <<>>]
  /\ rs_stream = [r \in Rank |-> <<>>]

Next ==
  \/ \E r \in Rank : MarkReady(r) \/ Launch(r) \/ RootPostBackward(r) \/ Pop(r) \/ NextPass(r)
  \/ \E b \in Bucket : \E ranks \in ProcessGroups[b] : Collective(ranks, GroupOf[b])

Spec == Init /\ [][Next]_vars
----------------------------------------------------------------------------
ProcessGroup == UNION {ProcessGroups[b] : b \in Bucket}

\* The i-th collective that rank r has launched and not executed is one of the
\* process group, and what comes before it.
IsOn(r, i, ranks) == ranks \in ProcessGroups[rs_stream[r][i][1]]
PendingBefore(r, i, ranks) ==
  {rs_stream[r][k] : k \in {j \in 1 .. i - 1 : IsOn(r, j, ranks)}}

\* Ranks launch the collectives of a process group in the same order, passes
\* included: what two of its ranks have pending after the same collectives is the
\* same collective.  Otherwise gradients of different buckets are added up.
SameOrder ==
  \A ranks \in ProcessGroup : \A r, s \in ranks :
    \A i \in 1 .. Len(rs_stream[r]), j \in 1 .. Len(rs_stream[s]) :
      /\ IsOn(r, i, ranks) /\ IsOn(s, j, ranks)
      /\ PendingBefore(r, i, ranks) = PendingBefore(s, j, ranks)
      => rs_stream[r][i] = rs_stream[s][j]

\* Rank r cannot go on before a collective has been executed.
Blocked(r) ==
  /\ Draining(r) \/ (launching[r] # <<>> /\ OverCapacity(r))
  /\ grad_reduce_queue[r] # <<>>
  /\ \E i \in 1 .. Len(rs_stream[r]) : Head(grad_reduce_queue[r]) \in Range(rs_stream[r][i])

\* The collective that rank r has to execute next needs rank s, which is not there.
WaitsFor(r, s) ==
  /\ rs_stream[r] # <<>>
  /\ \E ranks \in ProcessGroups[Head(rs_stream[r])[1]] : {r, s} \subseteq ranks
  /\ ~AtHead(s, Head(rs_stream[r]))

\* Nowhere do blocked ranks wait for each other in a circle, whatever the other
\* ranks do: the streams serialise the collectives of all process groups, so
\* these must be launched in one order across process groups, too.
NoCircularWait ==
  \A ranks \in SUBSET Rank :
    ranks # {} => \E r \in ranks : ~(Blocked(r) /\ \E s \in ranks : WaitsFor(r, s))
============================================================================
