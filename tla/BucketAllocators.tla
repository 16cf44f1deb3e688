--------------------------- MODULE BucketAllocators ----------------------------
(***************************************************************************)
(* The allocators of temporary buckets (param_and_grad_buffer.py), each under *)
(* its most general client: any bucket is allocated, written to and freed at   *)
(* any time.  The variable "kind" says which allocator a behaviour is about.   *)
(*                                                                         *)
(* Memory is a set of named buffers.  The allocator is asked for every bucket  *)
(* with one size and dtype, which are those of its DataParallelBuffer.         *)
(***************************************************************************)
EXTENDS Integers, Sequences, FiniteSets

CONSTANTS
  Groups,          \* sequence of parameter groups: [unit, dtype, numel, size]; bucket b is group b
  NoUnit,          \* fsdp_unit_id is None or -1
  Kinds,           \* the allocators to consider
  PoolSize,        \* FixedPoolAllocator.size
  MaxLive,         \* max_live_workspaces
  MaxWorkspaces,   \* bound on workspaces ever created, for model checking
  Data,            \* what may be in a bucket
  Unallocated,
  Ways             \* "again": a live workspace is asked again for a part of it;
                   \* "replan": the planned size is set after workspaces exist

Kind == {"temporary", "resize", "rotary", "workspace", "fixed_pool", "fixed_pool_persistent"}
Bucket == DOMAIN Groups
SizeOf == [b \in Bucket |-> Groups[b].size]

ASSUME AllocatorAssumption ==
  /\ Groups \in Seq([unit : Nat \cup {NoUnit}, dtype : STRING, numel : Nat, size : Nat \ {0}])
  /\ NoUnit \notin Nat
  /\ Kinds \subseteq Kind
  /\ PoolSize \in Nat /\ MaxLive \in Nat \ {0} /\ MaxWorkspaces \in Nat
  /\ Data # {} /\ Unallocated \notin Data

VARIABLES
  kind,      \* the class of the allocator
  using,     \* bucket -> the buffer it has, or NoBuffer
  extent,    \* bucket -> the size it was handed out with, 0 if it has no buffer
  idle,      \* sequence of numbers of rotary buffers or workspaces to be reused
  created,   \* num_global_buffer, num_workspace_allocations
  planned,   \* planned_size, 0 for None
  capacity,  \* buffer -> its elements, 0 while it has no storage
  memory,    \* buffer -> Data, or Unallocated while it has no storage
  peak,      \* peak_live_workspaces
  raised     \* the exception that ended the program

vars == <<kind, using, extent, idle, created, planned, capacity, memory, peak, raised>>

-----------------------------------------------------------------------------
(* FixedPoolAllocator.__init__: which units share the pool. *)

Units == {Groups[b].unit : b \in Bucket} \ {NoUnit}
UnitBuckets(u) == {b \in Bucket : Groups[b].unit = u}
Offset(b) == Cardinality({c \in UnitBuckets(Groups[b].unit) : c < b})

\* Two units are alike if their buckets are, position by position.
Alike(u, v) ==
  /\ Cardinality(UnitBuckets(u)) = Cardinality(UnitBuckets(v))
  /\ \A b \in UnitBuckets(u), c \in UnitBuckets(v) :
       Offset(b) = Offset(c) => /\ Groups[b].dtype = Groups[c].dtype
                                /\ Groups[b].numel = Groups[c].numel

AlikeUnits(u) == {v \in Units : Alike(u, v)}
FirstBucket(u) == CHOOSE b \in UnitBuckets(u) : \A c \in UnitBuckets(u) : b <= c

\* The largest class of units that are alike; of several, the one met first.
DoubleBufferUnits ==
  IF Units = {} THEN {}
  ELSE AlikeUnits(CHOOSE u \in Units : \A v \in Units :
         LET m == Cardinality(AlikeUnits(u))
             n == Cardinality(AlikeUnits(v))
         IN  m > n \/ (m = n /\ FirstBucket(u) <= FirstBucket(v)))

Pooled(b) == Groups[b].unit \in DoubleBufferUnits

-----------------------------------------------------------------------------
\* Names of buffers: a bucket's own memory, a numbered one, one of the fixed pool.
Own(b) == <<"own", b, 0>>
Numbered(i) == <<"numbered", i, 0>>
InPool(g, o) == <<"pool", g, o>>
Buffer == {Own(b) : b \in Bucket}
            \cup {Numbered(i) : i \in 0 .. MaxWorkspaces - 1}
            \cup {InPool(g, Offset(b)) : g \in 0 .. PoolSize - 1, b \in Bucket}
NoBuffer == <<"none", 0, 0>>

Live(b) == using[b] # NoBuffer
LiveBuckets == {b \in Bucket : Live(b)}

Init ==
  /\ kind \in Kinds
  /\ using = [b \in Bucket |-> NoBuffer]
  /\ extent = [b \in Bucket |-> 0]
  /\ idle = <<>>
  /\ created = 0
  /\ planned = 0
  /\ capacity = [m \in Buffer |-> 0]
  /\ memory = [m \in Buffer |-> Unallocated]
  /\ peak = 0
  /\ raised = "none"

\* The bucket b is handed n elements of the buffer m.
HandOutPart(b, m, n) ==
  /\ using' = [using EXCEPT ![b] = m]
  /\ extent' = [extent EXCEPT ![b] = n]
  /\ peak' = IF Live(b) \/ Cardinality(LiveBuckets) < peak THEN peak
             ELSE Cardinality(LiveBuckets) + 1

HandOut(b, m) == HandOutPart(b, m, SizeOf[b])

\* torch.empty: new memory of n elements, with anything in it.
NewStorage(m, n) ==
  /\ capacity' = [capacity EXCEPT ![m] = n]
  /\ \E d \in Data : memory' = [memory EXCEPT ![m] = d]

\* Its storage is freed.
GiveUp(m) ==
  /\ capacity' = [capacity EXCEPT ![m] = 0]
  /\ memory' = [memory EXCEPT ![m] = Unallocated]

\* GlobalMemoryBuffer.get_tensor: the named buffer, replaced if it is too small.
GetTensor(m, n) ==
  IF capacity[m] < n THEN NewStorage(m, n) ELSE UNCHANGED <<capacity, memory>>

NoLonger(b) ==
  /\ using' = [using EXCEPT ![b] = NoBuffer]
  /\ extent' = [extent EXCEPT ![b] = 0]

-----------------------------------------------------------------------------
(* TemporaryBucketAllocator, and StorageResizeBasedBucketAllocator, which keeps  *)
(* the Bucket and resizes its storage. *)

OwnAllocate(b) ==
  /\ HandOut(b, Own(b))
  /\ IF Live(b) THEN UNCHANGED <<capacity, memory>> ELSE NewStorage(Own(b), SizeOf[b])
  /\ UNCHANGED <<kind, idle, created, planned, raised>>

OwnFree(b) ==
  /\ NoLonger(b)
  /\ GiveUp(Own(b))
  /\ UNCHANGED <<kind, idle, created, planned, peak, raised>>

(* RotaryBucketAllocator. *)

RotaryTake_Mutant(b, i) == HandOut(b, Numbered(i)) /\ idle' = idle
RotaryTake(b, i) == HandOut(b, Numbered(i)) /\ idle' = Tail(idle)

RotaryAllocate(b) ==
  /\ kind = "rotary"
  /\ \/ /\ Live(b)
        /\ HandOut(b, using[b])
        /\ GetTensor(using[b], SizeOf[b])
        /\ UNCHANGED <<idle, created>>
     \/ /\ ~Live(b) /\ idle # <<>>
        /\ RotaryTake(b, Head(idle))
        /\ GetTensor(Numbered(Head(idle)), SizeOf[b])
        /\ UNCHANGED created
     \/ /\ ~Live(b) /\ idle = <<>> /\ created < MaxWorkspaces
        /\ HandOut(b, Numbered(created))
        /\ GetTensor(Numbered(created), SizeOf[b])
        /\ created' = created + 1
        /\ UNCHANGED idle
  /\ UNCHANGED <<kind, planned, raised>>

RotaryFree(b) ==
  /\ kind = "rotary" /\ Live(b)
  /\ NoLonger(b)
  /\ idle' = Append(idle, using[b][2])
  /\ UNCHANGED <<kind, created, planned, capacity, memory, peak, raised>>

-----------------------------------------------------------------------------
(* DBufferWorkspaceAllocator: workspaces of the planned size, of which only      *)
(* MaxLive are kept when they are idle. *)

SetPlannedSize ==
  /\ kind = "workspace"
  /\ created = 0 \/ "replan" \in Ways
  /\ \E b \in Bucket : planned' = SizeOf[b]
  /\ UNCHANGED <<kind, using, extent, idle, created, capacity, memory, peak, raised>>

PlannedFor(b) == IF planned = 0 THEN SizeOf[b] ELSE planned

\* An idle workspace is cut to the request, and is shorter if it is of an older plan.
Cut(n, m) == IF n < capacity[m] THEN n ELSE capacity[m]

WorkspaceAllocate(b) ==
  /\ kind = "workspace"
  /\ planned' = PlannedFor(b)
  /\ \/ /\ SizeOf[b] > PlannedFor(b)
        /\ raised' = "RuntimeError"
        /\ UNCHANGED <<using, extent, idle, created, capacity, memory, peak>>
     \/ \* The whole workspace is returned, not the part that was requested.
        /\ SizeOf[b] <= PlannedFor(b) /\ Live(b)
        /\ SizeOf[b] = capacity[using[b]] \/ "again" \in Ways
        /\ extent' = [extent EXCEPT ![b] = capacity[using[b]]]
        /\ UNCHANGED <<using, idle, created, capacity, memory, peak, raised>>
     \/ /\ SizeOf[b] <= PlannedFor(b) /\ ~Live(b) /\ idle # <<>>
        /\ HandOutPart(b, Numbered(idle[Len(idle)]), Cut(SizeOf[b], Numbered(idle[Len(idle)])))
        /\ idle' = SubSeq(idle, 1, Len(idle) - 1)
        /\ UNCHANGED <<created, capacity, memory, raised>>
     \/ /\ SizeOf[b] <= PlannedFor(b) /\ ~Live(b) /\ idle = <<>> /\ created < MaxWorkspaces
        /\ HandOut(b, Numbered(created))
        /\ NewStorage(Numbered(created), PlannedFor(b))
        /\ created' = created + 1
        /\ UNCHANGED <<idle, raised>>
  /\ UNCHANGED kind

\* A workspace that is not kept is returned to the device when its last view is gone.
Kept_Mutant(m) == Len(idle) <= MaxLive
Kept(m) == Len(idle) < MaxLive

WorkspaceFree(b) ==
  /\ kind = "workspace" /\ Live(b)
  /\ NoLonger(b)
  /\ IF Kept(using[b])
     THEN idle' = Append(idle, using[b][2]) /\ UNCHANGED <<capacity, memory>>
     ELSE UNCHANGED idle /\ GiveUp(using[b])
  /\ UNCHANGED <<kind, created, planned, peak, raised>>

-----------------------------------------------------------------------------
(* FixedPoolAllocator: a bucket takes a buffer at its own offset in the first      *)
(* buffer group that has it idle. *)

Taken == {using[b] : b \in Bucket}

IdleGroups_Mutant(b) == {g \in 0 .. PoolSize - 2 : InPool(g, Offset(b)) \notin Taken}
IdleGroups(b) == {g \in 0 .. PoolSize - 1 : InPool(g, Offset(b)) \notin Taken}

PoolAllocate(b) ==
  /\ Pooled(b)
  /\ \/ /\ Live(b)
        /\ HandOut(b, using[b])
        /\ GetTensor(using[b], SizeOf[b])
        /\ UNCHANGED raised
     \/ /\ ~Live(b)
        /\ \E g \in IdleGroups(b) :
             /\ \A h \in IdleGroups(b) : g <= h
             /\ HandOut(b, InPool(g, Offset(b)))
             /\ GetTensor(InPool(g, Offset(b)), SizeOf[b])
        /\ UNCHANGED raised
     \/ /\ ~Live(b) /\ IdleGroups(b) = {}
        /\ raised' = "AssertionError"
        /\ UNCHANGED <<using, extent, capacity, memory, peak>>
  /\ UNCHANGED <<kind, idle, created, planned>>

\* A bucket the pool has no place for has a persistent buffer of its own.
PersistentAllocate(b) ==
  /\ ~Pooled(b)
  /\ HandOut(b, Own(b))
  /\ GetTensor(Own(b), SizeOf[b])
  /\ UNCHANGED <<kind, idle, created, planned, raised>>

PoolFree(b) ==
  /\ Pooled(b) \/ kind = "fixed_pool_persistent"
  /\ NoLonger(b)
  /\ UNCHANGED <<kind, idle, created, planned, capacity, memory, peak, raised>>

-----------------------------------------------------------------------------
\* The buckets outside the pool fall back on a TemporaryBucketAllocator.
BackedUp(b) == kind \in {"temporary", "resize"} \/ (kind = "fixed_pool" /\ ~Pooled(b))
FixedPool == kind \in {"fixed_pool", "fixed_pool_persistent"}

Allocate(b) ==
  \/ BackedUp(b) /\ OwnAllocate(b)
  \/ RotaryAllocate(b)
  \/ WorkspaceAllocate(b)
  \/ FixedPool /\ PoolAllocate(b)
  \/ kind = "fixed_pool_persistent" /\ PersistentAllocate(b)

\* Freeing what is not allocated changes nothing.
Free(b) ==
  /\ Live(b)
  /\ \/ BackedUp(b) /\ OwnFree(b)
     \/ RotaryFree(b)
     \/ WorkspaceFree(b)
     \/ FixedPool /\ PoolFree(b)

\* The client fills the bucket it was handed.
Write(b) ==
  /\ Live(b)
  /\ \E d \in Data : memory' = [memory EXCEPT ![using[b]] = d]
  /\ UNCHANGED <<kind, using, extent, idle, created, planned, capacity, peak, raised>>

Next ==
  /\ raised = "none"
  /\ \/ SetPlannedSize
     \/ \E b \in Bucket : Allocate(b) \/ Free(b) \/ Write(b)

Spec == Init /\ [][Next]_vars

-----------------------------------------------------------------------------
\* Whatever the allocator, every live bucket is as if it had memory of its own
\* (allocate and free of the five classes).
Contents == [b \in Bucket |-> IF Live(b) THEN memory[using[b]] ELSE Unallocated]
Store == INSTANCE BucketStore WITH contents <- Contents
ActsAsStore == Store!StoreSpec

\* The fixed pool fails only on a client that has more units of the pool in memory
\* than the pool has buffer groups (allocate's "No buffer found").
PooledUnits(S) == {Groups[b].unit : b \in {c \in S : Pooled(c)}}
PoolSuffices ==
  raised = "AssertionError" =>
    \E b \in Bucket : Pooled(b) /\ ~Live(b) /\ Cardinality(PooledUnits(LiveBuckets \cup {b})) > PoolSize

\* No allocator holds more storage than its strategy needs: none of a freed
\* bucket, no more buffers than were ever live at once, no more idle workspaces
\* than are to be kept, and of the pool a fixed number.
InMemory == {m \in Buffer : capacity[m] > 0}
Footprint ==
  /\ kind \in {"temporary", "resize"} => InMemory = {Own(b) : b \in LiveBuckets}
  /\ kind \in {"rotary", "workspace"} => Cardinality(InMemory) <= peak
  /\ kind = "workspace" => Cardinality(InMemory) <= Cardinality(LiveBuckets) + MaxLive
  /\ kind = "fixed_pool" =>
       InMemory \subseteq {InPool(g, Offset(b)) : g \in 0 .. PoolSize - 1, b \in {c \in Bucket : Pooled(c)}}
                            \cup {Own(b) : b \in LiveBuckets}
=============================================================================
