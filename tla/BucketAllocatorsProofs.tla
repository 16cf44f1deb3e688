------------------------- MODULE BucketAllocatorsProofs ------------------------
(***************************************************************************)
(* Every allocator of temporary buckets behaves as a BucketStore, for any      *)
(* parameter groups, any pool size and any number of buckets.  A workspace     *)
(* pool does so only if its size is planned before its first workspace and no   *)
(* workspace in use is asked for a part of it (Ways = {}).                     *)
(*                                                                         *)
(* The inductive invariant Sound says that no buffer is in use twice or both   *)
(* in use and idle (Exclusive, IdleSound), that every bucket has a buffer of    *)
(* the kind its allocator hands out (Placed), and that storage that is in use    *)
(* or idle exists and is large enough (StorageSound).                          *)
(***************************************************************************)
EXTENDS BucketAllocators, SequenceTheorems, FiniteSetTheorems, TLAPS

VarTypes ==
  /\ kind \in Kind
  /\ using \in [Bucket -> Buffer \cup {NoBuffer}]
  /\ extent \in [Bucket -> Nat]
  /\ idle \in Seq(0 .. MaxWorkspaces - 1)
  /\ created \in 0 .. MaxWorkspaces
  /\ planned \in Nat
  /\ capacity \in [Buffer -> Nat]
  /\ memory \in [Buffer -> Data \cup {Unallocated}]

\* No two buckets share a buffer.
Exclusive == \A b, c \in Bucket : using[b] = using[c] /\ Live(b) => b = c

Pools == kind \in {"rotary", "workspace"}

\* Which buffer a bucket may have.
Placed ==
  \A b \in Bucket : Live(b) =>
    /\ BackedUp(b) \/ (kind = "fixed_pool_persistent" /\ ~Pooled(b)) => using[b] = Own(b)
    /\ FixedPool /\ Pooled(b) => \E g \in 0 .. PoolSize - 1 : using[b] = InPool(g, Offset(b))
    /\ Pools => \E i \in Nat : i < created /\ using[b] = Numbered(i)

\* Idle buffers were created, are listed once, and are not in use.
IdleSound ==
  /\ \A k \in 1 .. Len(idle) :
       /\ idle[k] < created
       /\ capacity[Numbered(idle[k])] > 0
       /\ kind = "workspace" => capacity[Numbered(idle[k])] = planned
       /\ \A b \in Bucket : using[b] # Numbered(idle[k])
  /\ \A j, k \in 1 .. Len(idle) : idle[j] = idle[k] => j = k
  /\ ~Pools => idle = <<>>

\* A live bucket has storage enough, and its extent is what was requested.
StorageSound ==
  /\ \A m \in Buffer : capacity[m] > 0 => memory[m] \in Data
  /\ \A b \in Bucket :
       /\ Live(b) => capacity[using[b]] >= SizeOf[b] /\ extent[b] = SizeOf[b]
       /\ ~Live(b) => extent[b] = 0

\* All workspaces in use are of the planned size.
Planned ==
  kind = "workspace" =>
    /\ created > 0 => planned > 0
    /\ \A b \in Bucket : Live(b) => capacity[using[b]] = planned

Sound == VarTypes /\ Exclusive /\ Placed /\ IdleSound /\ StorageSound /\ Planned

-----------------------------------------------------------------------------
(* The shapes a step may have. *)

\* Every bucket is requested with a size above zero.
LEMMA Sizes == \A b \in Bucket : SizeOf[b] \in Nat \ {0} /\ b \in Nat
<1>1. /\ Bucket = 1 .. Len(Groups) /\ Len(Groups) \in Nat
      /\ \A b \in Bucket : Groups[b] \in [unit : Nat \cup {NoUnit}, dtype : STRING,
                                          numel : Nat, size : Nat \ {0}]
  <2> DEFINE G == [unit : Nat \cup {NoUnit}, dtype : STRING, numel : Nat, size : Nat \ {0}]
  <2>1. Groups \in Seq(G)
    BY AllocatorAssumption
  <2> HIDE DEF G
  <2>2. /\ Bucket = 1 .. Len(Groups) /\ Len(Groups) \in Nat
        /\ \A b \in 1 .. Len(Groups) : Groups[b] \in G
    BY <2>1, LenProperties, ElementOfSeq DEF Bucket
  <2> QED
    BY <2>2 DEF G
<1> QED
  BY <1>1 DEF SizeOf

LEMMA Bound == MaxWorkspaces \in Nat
BY AllocatorAssumption

\* The names of buffers tell them apart.
LEMMA Names ==
  /\ NoBuffer \notin Buffer
  /\ \A b \in Bucket : Own(b) \in Buffer
  /\ \A i \in 0 .. MaxWorkspaces - 1 : Numbered(i) \in Buffer
  /\ \A g \in 0 .. PoolSize - 1, b \in Bucket : InPool(g, Offset(b)) \in Buffer
  /\ \A b, c \in Bucket : Own(b) = Own(c) => b = c
  /\ \A i, j : Numbered(i) = Numbered(j) => i = j
  /\ \A i : Numbered(i)[2] = i
  /\ \A b, g, o : Own(b) # InPool(g, o)
BY DEF NoBuffer, Buffer, Own, Numbered, InPool

\* Nothing the properties look at changes.
Still == UNCHANGED <<kind, using, extent, idle, created, capacity, memory>>

\* The bucket b is given the buffer m, which nobody has.
Given(b, m) ==
  /\ ~Live(b) /\ m \in Buffer /\ \A c \in Bucket : using[c] # m
  /\ using' = [using EXCEPT ![b] = m]
  /\ extent' = [extent EXCEPT ![b] = SizeOf[b]]
  /\ capacity' \in [Buffer -> Nat] /\ memory' \in [Buffer -> Data \cup {Unallocated}]
  /\ \A x \in Buffer \ {m} : capacity'[x] = capacity[x] /\ memory'[x] = memory[x]
  /\ capacity'[m] >= SizeOf[b] /\ memory'[m] \in Data

\* The bucket b gives up its buffer, which may lose its storage.
Returned(b) ==
  /\ Live(b) /\ NoLonger(b)
  /\ \/ UNCHANGED <<capacity, memory>>
     \/ GiveUp(using[b])

\* Giving a buffer is an allocation of the store and keeps buffers apart.
LEMMA GivenStep ==
  ASSUME VarTypes, Exclusive, StorageSound, NEW b \in Bucket, NEW m, Given(b, m)
  PROVE  /\ Exclusive' /\ StorageSound'
         /\ using' \in [Bucket -> Buffer \cup {NoBuffer}]
         /\ extent' \in [Bucket -> Nat]
         /\ Store!Allocated(b)
<1> USE Names, Sizes DEF Given, VarTypes, Live
<1>1. Exclusive'
  BY DEF Exclusive
<1>2. StorageSound'
  BY DEF StorageSound
<1>3. using' \in [Bucket -> Buffer \cup {NoBuffer}] /\ extent' \in [Bucket -> Nat]
  OBVIOUS
<1>4. Contents' = [Contents EXCEPT ![b] = memory'[m]]
  <2>1. \A c \in Bucket : Contents'[c] = [Contents EXCEPT ![b] = memory'[m]][c]
    BY DEF Contents
  <2> QED
    BY <2>1 DEF Contents
<1>5. Contents[b] = Unallocated
  BY DEF Contents
<1> QED
  BY <1>1, <1>2, <1>3, <1>4, <1>5 DEF Store!Allocated

\* Giving a buffer up frees the bucket in the store.
LEMMA ReturnedStep ==
  ASSUME VarTypes, Exclusive, StorageSound, NEW b \in Bucket, Returned(b)
  PROVE  /\ Exclusive' /\ StorageSound'
         /\ using' \in [Bucket -> Buffer \cup {NoBuffer}]
         /\ extent' \in [Bucket -> Nat]
         /\ capacity' \in [Buffer -> Nat] /\ memory' \in [Buffer -> Data \cup {Unallocated}]
         /\ Store!Freed(b)
<1> USE Names, Sizes DEF Returned, NoLonger, GiveUp, VarTypes, Live
<1>1. Exclusive'
  BY DEF Exclusive
<1>2. /\ using' \in [Bucket -> Buffer \cup {NoBuffer}] /\ extent' \in [Bucket -> Nat]
      /\ capacity' \in [Buffer -> Nat] /\ memory' \in [Buffer -> Data \cup {Unallocated}]
  OBVIOUS
<1>3. \A c \in Bucket \ {b} : Live(c) =>
        capacity'[using[c]] = capacity[using[c]] /\ memory'[using[c]] = memory[using[c]]
  BY DEF Exclusive
<1>4. StorageSound'
  <2>1. \A m \in Buffer : capacity'[m] > 0 => memory'[m] \in Data
    <3>1. CASE UNCHANGED <<capacity, memory>>
      BY <3>1 DEF StorageSound
    <3>2. CASE GiveUp(using[b])
      BY <3>2 DEF StorageSound
    <3> QED
      BY <3>1, <3>2
  <2>2. \A c \in Bucket : /\ Live(c)' => capacity'[using'[c]] >= SizeOf[c] /\ extent'[c] = SizeOf[c]
                          /\ ~Live(c)' => extent'[c] = 0
    <3>1. ~Live(b)' /\ extent'[b] = 0
      OBVIOUS
    <3>2. \A c \in Bucket \ {b} : using'[c] = using[c] /\ extent'[c] = extent[c]
      OBVIOUS
    <3> QED
      BY <1>3, <3>1, <3>2 DEF StorageSound
  <2> QED
    BY <2>1, <2>2 DEF StorageSound
<1>5. Contents' = [Contents EXCEPT ![b] = Unallocated]
  <2>1. \A c \in Bucket : Contents'[c] = [Contents EXCEPT ![b] = Unallocated][c]
    BY <1>3 DEF Contents
  <2> QED
    BY <2>1 DEF Contents
<1> QED
  BY <1>1, <1>2, <1>4, <1>5 DEF Store!Freed

\* Idle buffers have numbers.
LEMMA IdleTyped ==
  ASSUME VarTypes
  PROVE  \A k \in 1 .. Len(idle) : idle[k] \in 0 .. MaxWorkspaces - 1 /\ idle[k] \in Nat
<1>1. idle \in Seq(0 .. MaxWorkspaces - 1)
  BY DEF VarTypes
<1>2. \A k \in 1 .. Len(idle) : idle[k] \in 0 .. MaxWorkspaces - 1
  BY <1>1, ElementOfSeq
<1> QED
  BY <1>2, Bound

\* A step that changes nothing the store is about.
LEMMA StillStep ==
  ASSUME Sound, Still, planned' \in Nat, planned = 0 \/ planned' = planned \/ created = 0
  PROVE  Sound' /\ UNCHANGED <<Contents, extent>>
<1> USE DEF Still
<1>1. VarTypes' /\ Exclusive' /\ Placed' /\ StorageSound'
  BY DEF Sound, VarTypes, Exclusive, Placed, StorageSound, Live, BackedUp, FixedPool, Pools
<1>2. IdleSound'
  <2>1. \A k \in 1 .. Len(idle) : idle[k] < created /\ idle[k] \in Nat
    BY IdleTyped DEF Sound, IdleSound
  <2>2. \A k \in 1 .. Len(idle) : kind = "workspace" => capacity[Numbered(idle[k])] = planned'
    <3> SUFFICES ASSUME NEW k \in 1 .. Len(idle), kind = "workspace"
                 PROVE  capacity[Numbered(idle[k])] = planned'
      OBVIOUS
    <3>1. capacity[Numbered(idle[k])] = planned /\ capacity[Numbered(idle[k])] > 0
      BY DEF Sound, IdleSound
    <3>2. planned' = planned
      BY <2>1, <3>1
    <3> QED
      BY <3>1, <3>2
  <2> QED
    BY <2>2 DEF Sound, IdleSound, Pools
<1>4. Planned'
  <2>1. SUFFICES ASSUME kind = "workspace"
                 PROVE  /\ created > 0 => planned' > 0
                        /\ \A b \in Bucket : Live(b) => capacity[using[b]] = planned'
    BY DEF Planned, Live
  <2>2. \A b \in Bucket : Live(b) => created > 0
    BY <2>1 DEF Sound, VarTypes, Placed, Pools
  <2> QED
    BY <2>1, <2>2 DEF Sound, VarTypes, Planned
<1>3. UNCHANGED <<Contents, extent>>
  BY DEF Contents, Live
<1> QED
  BY <1>1, <1>2, <1>3, <1>4 DEF Sound
-----------------------------------------------------------------------------
(* The allocators. *)

\* A step on b is one of the store, or none.
StoreStep(b) == Store!Allocated(b) \/ Store!Written(b) \/ Store!Freed(b)
                  \/ UNCHANGED <<Contents, extent>>

OwnOf(b) == BackedUp(b) \/ (kind = "fixed_pool_persistent" /\ ~Pooled(b))

\* A bucket that has its own memory is the only one to have it.
LEMMA OwnIsFree ==
  ASSUME Sound, NEW b \in Bucket, OwnOf(b), ~Live(b)
  PROVE  \A c \in Bucket : using[c] # Own(b)
<1> SUFFICES ASSUME NEW c \in Bucket, using[c] = Own(b) PROVE FALSE
  OBVIOUS
<1>1. Live(c)
  BY Names DEF Live
<1>2. OwnOf(c) \/ (FixedPool /\ Pooled(c))
  BY DEF OwnOf, BackedUp, FixedPool
<1>3. CASE OwnOf(c)
  BY <1>1, <1>3, Names DEF Sound, Placed, OwnOf
<1>4. CASE FixedPool /\ Pooled(c)
  BY <1>1, <1>4, Names DEF Sound, Placed
<1> QED
  BY <1>2, <1>3, <1>4

\* Outside the rotary buffers and the workspaces nothing is idle, and a step that
\* keeps buckets in their places preserves the invariant.
LEMMA PlacedStep ==
  ASSUME Sound, ~Pools, UNCHANGED <<kind, idle, created, planned>>,
         VarTypes', Exclusive', StorageSound', Placed'
  PROVE  Sound'
<1>1. IdleSound'
  <2>1. idle' = <<>> /\ Len(idle') = 0 /\ ~Pools'
    BY DEF Sound, IdleSound, Pools
  <2> QED
    BY <2>1 DEF IdleSound
<1>2. Planned'
  BY DEF Planned, Pools
<1> QED
  BY <1>1, <1>2 DEF Sound

\* Being handed the buffer it has changes nothing for a bucket.
LEMMA AgainStep ==
  ASSUME Sound, NEW b \in Bucket, Live(b), HandOut(b, using[b]),
         UNCHANGED <<kind, idle, created, planned, capacity, memory>>
  PROVE  Sound' /\ UNCHANGED <<Contents, extent>>
<1>1. using' = using /\ extent' = extent
  BY DEF HandOut, HandOutPart, Sound, VarTypes, StorageSound
<1>2. planned' \in Nat
  BY DEF Sound, VarTypes
<1> QED
  BY <1>1, <1>2, StillStep DEF Still

\* New storage of the right size, or storage that is there and large enough.
LEMMA StorageGiven ==
  ASSUME Sound, NEW b \in Bucket, ~Live(b), NEW m \in Buffer, \A c \in Bucket : using[c] # m,
         HandOut(b, m), NewStorage(m, SizeOf[b]) \/ GetTensor(m, SizeOf[b])
  PROVE  Given(b, m)
<1> USE Sizes DEF Sound, VarTypes
<1>1. using' = [using EXCEPT ![b] = m] /\ extent' = [extent EXCEPT ![b] = SizeOf[b]]
  BY DEF HandOut, HandOutPart
<1>2. CASE NewStorage(m, SizeOf[b])
  BY <1>1, <1>2 DEF NewStorage, Given
<1>3. CASE UNCHANGED <<capacity, memory>> /\ capacity[m] >= SizeOf[b]
  BY <1>1, <1>3 DEF Given, StorageSound
<1> QED
  BY <1>2, <1>3 DEF GetTensor

\* An own buffer, fresh or as it is, can be handed out.
LEMMA OwnAllocateStep ==
  ASSUME Sound, NEW b \in Bucket, OwnOf(b), HandOut(b, Own(b)),
         UNCHANGED <<kind, idle, created, planned>>,
         IF Live(b) THEN UNCHANGED <<capacity, memory>>
         ELSE NewStorage(Own(b), SizeOf[b]) \/ GetTensor(Own(b), SizeOf[b])
  PROVE  Sound' /\ StoreStep(b)
<1>1. CASE Live(b)
  <2>1. using[b] = Own(b)
    BY <1>1 DEF Sound, Placed, OwnOf
  <2> QED
    BY <1>1, <2>1, AgainStep DEF StoreStep
<1>2. CASE ~Live(b)
  <2>1. Given(b, Own(b))
    BY <1>2, OwnIsFree, Names, StorageGiven
  <2>2. /\ Exclusive' /\ StorageSound' /\ using' \in [Bucket -> Buffer \cup {NoBuffer}]
        /\ extent' \in [Bucket -> Nat] /\ Store!Allocated(b)
    BY <2>1, GivenStep DEF Sound
  <2>3. VarTypes'
    BY <2>1, <2>2 DEF Sound, VarTypes, Given
  <2>4. Placed' /\ ~Pools
    <3>1. ~Pools /\ ~(FixedPool /\ Pooled(b))
      BY DEF OwnOf, BackedUp, FixedPool, Pools
    <3>2. /\ using'[b] = Own(b)
          /\ \A c \in Bucket \ {b} : using'[c] = using[c]
      BY <2>1 DEF Given, Sound, VarTypes
    <3> QED
      BY <3>1, <3>2 DEF Sound, Placed, Live, BackedUp, FixedPool, Pools
  <2> QED
    BY <2>2, <2>3, <2>4, PlacedStep DEF StoreStep
<1> QED
  BY <1>1, <1>2

\* A buffer outside the numbered ones is given back.
LEMMA ReturnStep ==
  ASSUME Sound, NEW b \in Bucket, ~Pools, Returned(b), UNCHANGED <<kind, idle, created, planned>>
  PROVE  Sound' /\ StoreStep(b)
<1>1. /\ Exclusive' /\ StorageSound' /\ Store!Freed(b) /\ VarTypes'
  BY ReturnedStep DEF Sound, VarTypes
<1>2. Placed'
  <2>1. ~Live(b)' /\ \A c \in Bucket \ {b} : using'[c] = using[c]
    BY DEF Returned, NoLonger, Sound, VarTypes, Live
  <2> QED
    BY <2>1 DEF Sound, Placed, Live, BackedUp, FixedPool, Pools
<1> QED
  BY <1>1, <1>2, PlacedStep DEF StoreStep

\* allocate of the fixed pool.
LEMMA PoolAllocateStep ==
  ASSUME Sound, NEW b \in Bucket, FixedPool, PoolAllocate(b)
  PROVE  Sound' /\ StoreStep(b)
<1> USE DEF PoolAllocate
<1>1. CASE Live(b)
  <2>1. HandOut(b, using[b]) /\ GetTensor(using[b], SizeOf[b])
    BY <1>1
  <2>2. UNCHANGED <<capacity, memory>>
    BY <1>1, <2>1, Sizes DEF GetTensor, Sound, StorageSound, VarTypes, Live
  <2> QED
    BY <1>1, <2>1, <2>2, AgainStep DEF StoreStep
<1>2. CASE ~Live(b) /\ raised' = "AssertionError" /\ UNCHANGED <<using, extent, capacity, memory>>
  <2>1. Still /\ planned' \in Nat /\ planned' = planned
    BY <1>2 DEF Still, Sound, VarTypes
  <2> QED
    BY <2>1, StillStep DEF StoreStep
<1>3. ASSUME ~Live(b), NEW g \in IdleGroups(b), HandOut(b, InPool(g, Offset(b))),
             GetTensor(InPool(g, Offset(b)), SizeOf[b])
      PROVE  Sound' /\ StoreStep(b)
  <2> DEFINE m == InPool(g, Offset(b))
  <2>1. m \in Buffer /\ \A c \in Bucket : using[c] # m
    BY <1>3, Names DEF IdleGroups, Taken
  <2>2. Given(b, m)
    BY <1>3, <2>1, StorageGiven
  <2>3. /\ Exclusive' /\ StorageSound' /\ using' \in [Bucket -> Buffer \cup {NoBuffer}]
        /\ extent' \in [Bucket -> Nat] /\ Store!Allocated(b)
    BY <2>2, GivenStep DEF Sound
  <2>4. VarTypes'
    BY <2>2, <2>3 DEF Sound, VarTypes, Given
  <2>5. Placed' /\ ~Pools
    <3>1. ~Pools /\ ~OwnOf(b)
      BY DEF OwnOf, BackedUp, FixedPool, Pools
    <3>2. /\ using'[b] = m /\ g \in 0 .. PoolSize - 1
          /\ \A c \in Bucket \ {b} : using'[c] = using[c]
      BY <1>3, <2>2 DEF Given, Sound, VarTypes, IdleGroups
    <3> HIDE DEF m
    <3>3. \A c \in Bucket : (Live(c) /\ FixedPool /\ Pooled(c))' =>
             \E h \in 0 .. PoolSize - 1 : using'[c] = InPool(h, Offset(c))
      BY <3>2 DEF m, Sound, Placed, Live, FixedPool
    <3> QED
      BY <3>1, <3>2, <3>3 DEF OwnOf, Sound, Placed, Live, BackedUp, FixedPool, Pools
  <2> QED
    BY <2>3, <2>4, <2>5, PlacedStep DEF StoreStep
<1> QED
  BY <1>1, <1>2, <1>3
-----------------------------------------------------------------------------
(* Rotary buffers and workspaces. *)

\* A numbered buffer is handed out and the idle ones that are left are among those
\* there were.
LEMMA NumberedGiven ==
  ASSUME Sound, Pools, NEW b \in Bucket, NEW i \in 0 .. MaxWorkspaces - 1, Given(b, Numbered(i)),
         kind' = kind, created' \in created .. MaxWorkspaces, i < created',
         planned' \in Nat, kind = "workspace" => planned' > 0,
         kind = "workspace" => capacity'[Numbered(i)] = planned',
         planned' = planned \/ created = 0,
         idle' \in Seq(0 .. MaxWorkspaces - 1),
         \A k \in 1 .. Len(idle') : \E j \in 1 .. Len(idle) : idle'[k] = idle[j] /\ idle[j] # i,
         \A j, k \in 1 .. Len(idle') : idle'[j] = idle'[k] => j = k
  PROVE  Sound' /\ StoreStep(b)
<1>1. /\ Exclusive' /\ StorageSound' /\ using' \in [Bucket -> Buffer \cup {NoBuffer}]
      /\ extent' \in [Bucket -> Nat] /\ Store!Allocated(b)
  BY GivenStep DEF Sound
<1>2. VarTypes'
  BY <1>1, Bound DEF Sound, VarTypes, Given
<1>3. /\ using'[b] = Numbered(i)
      /\ \A c \in Bucket \ {b} : using'[c] = using[c]
  BY DEF Given, Sound, VarTypes
<1>4. Placed'
  <2>1. created \in Nat /\ i \in Nat /\ created' \in Nat /\ created <= created'
    <3>1. created \in Nat /\ i \in Nat
      BY Bound DEF Sound, VarTypes
    <3> QED
      BY <3>1, Bound
  <2>2. \A c \in Bucket : Live(c)' => \E j \in Nat : j < created' /\ using'[c] = Numbered(j)
    <3> SUFFICES ASSUME NEW c \in Bucket, Live(c)'
                 PROVE  \E j \in Nat : j < created' /\ using'[c] = Numbered(j)
      OBVIOUS
    <3>1. CASE c = b
      BY <1>3, <2>1, <3>1
    <3>2. CASE c # b
      <4>1. Live(c) /\ using'[c] = using[c]
        BY <1>3, <3>2 DEF Live
      <4>2. PICK j \in Nat : j < created /\ using[c] = Numbered(j)
        BY <4>1 DEF Sound, Placed
      <4>3. j < created'
        BY <2>1, <4>2
      <4> QED
        BY <4>1, <4>2, <4>3
    <3> QED
      BY <3>1, <3>2
  <2> QED
    BY <2>2 DEF Pools, Placed, BackedUp, FixedPool
<1>5. IdleSound'
  <2>1. ASSUME NEW k \in 1 .. Len(idle')
        PROVE  /\ idle'[k] < created'
               /\ capacity'[Numbered(idle'[k])] > 0
               /\ (kind = "workspace")' => capacity'[Numbered(idle'[k])] = planned'
               /\ \A c \in Bucket : using'[c] # Numbered(idle'[k])
    <3>1. PICK j \in 1 .. Len(idle) : idle'[k] = idle[j] /\ idle[j] # i
      OBVIOUS
    <3>2. /\ idle[j] \in 0 .. MaxWorkspaces - 1 /\ idle[j] < created
          /\ capacity[Numbered(idle[j])] > 0
          /\ kind = "workspace" => capacity[Numbered(idle[j])] = planned
          /\ \A c \in Bucket : using[c] # Numbered(idle[j])
      BY IdleTyped DEF Sound, IdleSound
    <3>3. Numbered(idle[j]) \in Buffer \ {Numbered(i)}
      BY <3>1, <3>2, Names
    <3>4. capacity'[Numbered(idle[j])] = capacity[Numbered(idle[j])]
      BY <3>3 DEF Given
    <3>5. planned' = planned
      BY <3>2
    <3>6. idle[j] < created'
      <4>1. created \in Int /\ idle[j] \in Int
        BY <3>2, Bound DEF Sound, VarTypes
      <4>2. created' \in Int /\ created <= created'
        BY <4>1, Bound
      <4> QED
        BY <3>2, <4>1, <4>2
    <3>7. \A c \in Bucket : using'[c] # Numbered(idle[j])
      BY <1>3, <3>2, <3>3
    <3> QED
      BY <3>1, <3>2, <3>4, <3>5, <3>6, <3>7
  <2> QED
    BY <2>1 DEF IdleSound, Pools
<1>6. Planned'
  <2>1. ASSUME kind = "workspace", NEW c \in Bucket, Live(c)'
        PROVE  capacity'[using'[c]] = planned'
    <3>1. CASE c = b
      BY <1>3, <2>1, <3>1
    <3>2. CASE c # b
      <4>1. Live(c) /\ using'[c] = using[c] /\ using[c] # Numbered(i) /\ using[c] \in Buffer
        BY <1>3, <2>1, <3>2 DEF Live, Given, Sound, VarTypes
      <4>2. capacity'[using[c]] = capacity[using[c]] /\ capacity[using[c]] = planned
        BY <2>1, <4>1 DEF Given, Sound, Planned
      <4>3. created # 0
        BY <2>1, <4>1 DEF Sound, Placed, Pools
      <4> QED
        BY <4>1, <4>2, <4>3
    <3> QED
      BY <3>1, <3>2
  <2> QED
    BY <2>1 DEF Planned
<1> QED
  BY <1>1, <1>2, <1>4, <1>5, <1>6 DEF Sound, StoreStep

\* A buffer that was not created yet is not in use.
LEMMA NextNumber ==
  ASSUME Sound, Pools, created < MaxWorkspaces
  PROVE  /\ created \in 0 .. MaxWorkspaces - 1 /\ Numbered(created) \in Buffer
         /\ \A c \in Bucket : using[c] # Numbered(created)
<1>1. created \in 0 .. MaxWorkspaces - 1
  BY Bound DEF Sound, VarTypes
<1>2. ASSUME NEW c \in Bucket, using[c] = Numbered(created) PROVE FALSE
  <2>1. Live(c)
    BY <1>1, <1>2, Names DEF Live
  <2>2. PICK i \in Nat : i < created /\ using[c] = Numbered(i)
    BY <2>1 DEF Sound, Placed
  <2> QED
    <3>1. i = created
      BY <1>2, <2>2 DEF Numbered
    <3> QED
      BY <1>1, <2>2, <3>1
<1> QED
  BY <1>1, <1>2, Names

\* An idle buffer exists, is nobody's, and may be handed out.
LEMMA IdleFree ==
  ASSUME Sound, NEW k \in 1 .. Len(idle)
  PROVE  /\ idle[k] \in 0 .. MaxWorkspaces - 1 /\ Numbered(idle[k]) \in Buffer
         /\ idle[k] < created
         /\ \A c \in Bucket : using[c] # Numbered(idle[k])
BY IdleTyped, Names DEF Sound, IdleSound

\* allocate of the rotary allocator.
LEMMA RotaryAllocateStep ==
  ASSUME Sound, NEW b \in Bucket, RotaryAllocate(b)
  PROVE  Sound' /\ StoreStep(b)
<1> USE DEF RotaryAllocate
<1>0. Pools /\ kind' = kind /\ planned' = planned /\ planned \in Nat /\ kind # "workspace"
  BY DEF Pools, Sound, VarTypes
<1>t. idle \in Seq(0 .. MaxWorkspaces - 1) /\ created \in 0 .. MaxWorkspaces
  BY DEF Sound, VarTypes
<1>1. CASE Live(b)
  <2>1. HandOut(b, using[b]) /\ GetTensor(using[b], SizeOf[b]) /\ UNCHANGED <<idle, created>>
    BY <1>1
  <2>2. UNCHANGED <<capacity, memory>>
    BY <1>1, <2>1, Sizes DEF GetTensor, Sound, StorageSound, VarTypes, Live
  <2> QED
    BY <1>0, <1>1, <2>1, <2>2, AgainStep DEF StoreStep
<1>2. CASE ~Live(b) /\ idle # <<>> /\ RotaryTake(b, Head(idle))
             /\ GetTensor(Numbered(Head(idle)), SizeOf[b]) /\ UNCHANGED created
  <2> DEFINE i == Head(idle)
  <2>1. 1 \in 1 .. Len(idle) /\ i = idle[1] /\ Len(idle) \in Nat
    BY <1>t, <1>2
  <2>2. i \in 0 .. MaxWorkspaces - 1 /\ Numbered(i) \in Buffer /\ i < created
        /\ \A c \in Bucket : using[c] # Numbered(i)
    BY <2>1, IdleFree
  <2>3. Given(b, Numbered(i))
    BY <1>2, <2>2, StorageGiven DEF RotaryTake
  <2>4. /\ idle' \in Seq(0 .. MaxWorkspaces - 1) /\ Len(idle') = Len(idle) - 1
        /\ \A k \in 1 .. Len(idle') : idle'[k] = idle[k + 1]
    BY <1>t, <1>2 DEF RotaryTake
  <2>5. \A j, k \in 1 .. Len(idle) : idle[j] = idle[k] => j = k
    BY DEF Sound, IdleSound
  <2>6. \A k \in 1 .. Len(idle') : k + 1 \in 1 .. Len(idle) /\ idle[k + 1] # i
    BY <2>1, <2>4, <2>5
  <2>7. \A k \in 1 .. Len(idle') : \E j \in 1 .. Len(idle) : idle'[k] = idle[j] /\ idle[j] # i
    BY <2>4, <2>6
  <2>8. \A j, k \in 1 .. Len(idle') : idle'[j] = idle'[k] => j = k
    BY <2>4, <2>5, <2>6
  <2>9. created' \in created .. MaxWorkspaces /\ i < created'
    BY <1>t, <1>2, <2>2, AllocatorAssumption
  <2> HIDE DEF i
  <2> QED
    BY <1>0, <2>2, <2>3, <2>4, <2>7, <2>8, <2>9, NumberedGiven
<1>3. CASE ~Live(b) /\ idle = <<>> /\ created < MaxWorkspaces /\ HandOut(b, Numbered(created))
             /\ GetTensor(Numbered(created), SizeOf[b]) /\ created' = created + 1 /\ UNCHANGED idle
  <2>1. Given(b, Numbered(created))
    BY <1>0, <1>3, NextNumber, StorageGiven
  <2>2. created' \in created .. MaxWorkspaces /\ created < created'
    BY <1>t, <1>3, AllocatorAssumption
  <2>3. Len(idle') = 0
    BY <1>3
  <2> QED
    BY <1>0, <1>t, <1>3, <2>1, <2>2, <2>3, NextNumber, NumberedGiven
<1> QED
  BY <1>1, <1>2, <1>3

\* free of a numbered buffer; it joins the idle ones unless it loses its storage.
LEMMA NumberedReturned ==
  ASSUME Sound, Pools, NEW b \in Bucket, Returned(b), UNCHANGED <<kind, created, planned>>,
         \/ idle' = idle
         \/ idle' = Append(idle, using[b][2]) /\ UNCHANGED <<capacity, memory>>
  PROVE  Sound' /\ StoreStep(b)
<1>1. /\ Exclusive' /\ StorageSound' /\ Store!Freed(b)
      /\ using' \in [Bucket -> Buffer \cup {NoBuffer}] /\ extent' \in [Bucket -> Nat]
      /\ capacity' \in [Buffer -> Nat] /\ memory' \in [Buffer -> Data \cup {Unallocated}]
  BY ReturnedStep DEF Sound
<1>2. /\ using[b] \in Buffer /\ using'[b] = NoBuffer
      /\ \A c \in Bucket \ {b} : using'[c] = using[c]
  BY DEF Returned, NoLonger, Sound, VarTypes, Live
<1>3. PICK i \in Nat : i < created /\ using[b] = Numbered(i)
  BY DEF Returned, Sound, Placed
<1>4. i \in 0 .. MaxWorkspaces - 1 /\ using[b][2] = i
  BY <1>3, Bound, Names DEF Sound, VarTypes
<1>5. /\ capacity[Numbered(i)] > 0
      /\ \A c \in Bucket : using'[c] # Numbered(i)
  <2>1. capacity[using[b]] > 0
    BY <1>2, Sizes DEF Returned, Sound, StorageSound, VarTypes
  <2>2. \A c \in Bucket \ {b} : using[c] # using[b]
    BY DEF Sound, Exclusive, Returned
  <2>3. Numbered(i) # NoBuffer
    BY <1>2, <1>3, Names
  <2> QED
    BY <1>2, <1>3, <2>1, <2>2, <2>3
<1>t. idle \in Seq(0 .. MaxWorkspaces - 1)
  BY DEF Sound, VarTypes
\* What holds of an idle buffer holds of it still.
<1>6. ASSUME NEW k \in 1 .. Len(idle)
      PROVE  /\ idle[k] < created /\ idle[k] # i
             /\ capacity'[Numbered(idle[k])] > 0
             /\ kind = "workspace" => capacity'[Numbered(idle[k])] = planned
             /\ \A c \in Bucket : using'[c] # Numbered(idle[k])
  <2>1. /\ idle[k] < created /\ capacity[Numbered(idle[k])] > 0
        /\ kind = "workspace" => capacity[Numbered(idle[k])] = planned
        /\ \A c \in Bucket : using[c] # Numbered(idle[k])
    BY DEF Sound, IdleSound
  <2>2. Numbered(idle[k]) \in Buffer /\ Numbered(idle[k]) # NoBuffer
    BY IdleFree, Names
  <2>3. Numbered(idle[k]) # using[b] /\ idle[k] # i
    BY <1>3, <2>1
  <2>4. capacity'[Numbered(idle[k])] = capacity[Numbered(idle[k])]
    BY <2>2, <2>3 DEF Returned, GiveUp, Sound, VarTypes
  <2> QED
    BY <1>2, <2>1, <2>2, <2>3, <2>4
<1>7. \A j, k \in 1 .. Len(idle) : idle[j] = idle[k] => j = k
  BY DEF Sound, IdleSound
<1>8. IdleSound' /\ idle' \in Seq(0 .. MaxWorkspaces - 1)
  <2>1. CASE idle' = idle
    BY <1>6, <1>7, <1>t, <2>1 DEF IdleSound, Pools
  <2>2. CASE idle' = Append(idle, i) /\ UNCHANGED <<capacity, memory>>
    <3>1. /\ idle' \in Seq(0 .. MaxWorkspaces - 1) /\ Len(idle') = Len(idle) + 1
          /\ Len(idle) \in Nat
          /\ idle'[Len(idle) + 1] = i /\ \A k \in 1 .. Len(idle) : idle'[k] = idle[k]
      BY <1>4, <1>t, <2>2
    <3>2. \A k \in 1 .. Len(idle') : k \in 1 .. Len(idle) \/ k = Len(idle) + 1
      BY <3>1
    <3>3. kind = "workspace" => capacity'[Numbered(i)] = planned
      BY <1>3, <2>2 DEF Sound, Planned, Returned
    <3>4. \A k \in 1 .. Len(idle') :
            /\ idle'[k] < created /\ capacity'[Numbered(idle'[k])] > 0
            /\ kind = "workspace" => capacity'[Numbered(idle'[k])] = planned
            /\ \A c \in Bucket : using'[c] # Numbered(idle'[k])
      BY <1>3, <1>5, <1>6, <2>2, <3>1, <3>2, <3>3
    <3>5. \A j, k \in 1 .. Len(idle') : idle'[j] = idle'[k] => j = k
      BY <1>6, <1>7, <3>1, <3>2
    <3> QED
      BY <3>1, <3>4, <3>5 DEF IdleSound, Pools
  <2> QED
    BY <1>4, <2>1, <2>2
<1>9. VarTypes'
  BY <1>1, <1>8 DEF Sound, VarTypes
<1>11. Planned'
  <2>1. ASSUME NEW c \in Bucket, Live(c)'
        PROVE  Live(c) /\ using'[c] = using[c] /\ capacity'[using[c]] = capacity[using[c]]
    <3>1. c # b /\ Live(c) /\ using'[c] = using[c]
      BY <1>2, <2>1 DEF Live
    <3>2. using[c] # using[b]
      BY <3>1 DEF Sound, Exclusive
    <3> QED
      BY <3>1, <3>2 DEF Returned, GiveUp, Sound, VarTypes, Live
  <2> QED
    BY <2>1 DEF Sound, Planned
<1>10. Placed'
  BY <1>2 DEF Sound, Placed, Live, Pools, BackedUp, FixedPool
<1> QED
  BY <1>1, <1>8, <1>9, <1>10, <1>11 DEF Sound, StoreStep

\* free of the rotary allocator.
LEMMA RotaryFreeStep ==
  ASSUME Sound, NEW b \in Bucket, RotaryFree(b)
  PROVE  Sound' /\ StoreStep(b)
BY NumberedReturned DEF RotaryFree, Pools, Returned

\* free of the workspace pool.
LEMMA WorkspaceFreeStep ==
  ASSUME Sound, NEW b \in Bucket, WorkspaceFree(b)
  PROVE  Sound' /\ StoreStep(b)
<1>1. Pools /\ Returned(b) /\ UNCHANGED <<kind, created, planned>>
  BY DEF WorkspaceFree, Pools, Returned, GiveUp
<1>2. \/ idle' = idle
      \/ idle' = Append(idle, using[b][2]) /\ UNCHANGED <<capacity, memory>>
  BY DEF WorkspaceFree
<1> QED
  BY <1>1, <1>2, NumberedReturned

\* All idle workspaces but the last.
LEMMA AllButLast ==
  ASSUME VarTypes, idle # <<>>
  PROVE  LET left == SubSeq(idle, 1, Len(idle) - 1)
         IN  /\ left \in Seq(0 .. MaxWorkspaces - 1) /\ Len(left) = Len(idle) - 1
             /\ \A k \in 1 .. Len(left) : k \in 1 .. Len(idle) /\ k # Len(idle) /\ left[k] = idle[k]
<1>1. Len(idle) \in Nat /\ Len(idle) > 0
  BY EmptySeq DEF VarTypes
<1>2. PICK n \in Nat : n = Len(idle) - 1
  BY <1>1
<1>3. \A k \in 1 .. n : k \in 1 .. Len(idle) /\ k # Len(idle)
  BY <1>1, <1>2
<1>4. \A k \in 1 .. n : idle[k] \in 0 .. MaxWorkspaces - 1
  BY <1>3, IdleTyped
<1>5. /\ SubSeq(idle, 1, n) \in Seq(0 .. MaxWorkspaces - 1)
      /\ Len(SubSeq(idle, 1, n)) = IF 1 <= n THEN n - 1 + 1 ELSE 0
      /\ \A k \in 1 .. n - 1 + 1 : SubSeq(idle, 1, n)[k] = idle[1 + k - 1]
  BY <1>4, SubSeqProperties
<1> QED
  BY <1>2, <1>3, <1>5

\* allocate of the workspace pool.
LEMMA WorkspaceAllocateStep ==
  ASSUME Sound, Ways = {}, NEW b \in Bucket, WorkspaceAllocate(b)
  PROVE  Sound' /\ StoreStep(b)
<1> USE DEF WorkspaceAllocate
<1>0. Pools /\ kind' = kind /\ kind = "workspace"
  BY DEF Pools
<1>t. idle \in Seq(0 .. MaxWorkspaces - 1) /\ created \in 0 .. MaxWorkspaces /\ planned \in Nat
  BY DEF Sound, VarTypes
<1>p. /\ planned' = PlannedFor(b) /\ planned' \in Nat /\ planned' > 0
      /\ planned = 0 \/ planned' = planned
      /\ planned' = planned \/ created = 0
  BY <1>0, <1>t, Sizes DEF PlannedFor, Sound, Planned
<1>1. CASE raised' = "RuntimeError" /\ UNCHANGED <<using, extent, idle, created, capacity, memory>>
  BY <1>0, <1>1, <1>p, StillStep DEF Still, StoreStep
<1>2. CASE Live(b) /\ SizeOf[b] = capacity[using[b]]
             /\ extent' = [extent EXCEPT ![b] = capacity[using[b]]]
             /\ UNCHANGED <<using, idle, created, capacity, memory>>
  <2>1. extent' = extent
    BY <1>2 DEF Sound, VarTypes, StorageSound
  <2> QED
    BY <1>0, <1>2, <1>p, <2>1, StillStep DEF Still, StoreStep
<1>3. CASE /\ SizeOf[b] <= PlannedFor(b) /\ ~Live(b) /\ idle # <<>>
           /\ HandOutPart(b, Numbered(idle[Len(idle)]), Cut(SizeOf[b], Numbered(idle[Len(idle)])))
           /\ idle' = SubSeq(idle, 1, Len(idle) - 1)
           /\ UNCHANGED <<created, capacity, memory>>
  <2> DEFINE i == idle[Len(idle)]
  <2>1. Len(idle) \in 1 .. Len(idle) /\ Len(idle) \in Nat
    BY <1>t, <1>3
  <2>2. i \in 0 .. MaxWorkspaces - 1 /\ Numbered(i) \in Buffer /\ i < created
        /\ \A c \in Bucket : using[c] # Numbered(i)
    BY <2>1, IdleFree
  <2>3. capacity[Numbered(i)] = planned /\ capacity[Numbered(i)] > 0 /\ planned' = planned
    BY <1>0, <1>p, <1>t, <2>1, <2>2 DEF Sound, IdleSound
  <2>4. Cut(SizeOf[b], Numbered(i)) = SizeOf[b] /\ capacity[Numbered(i)] >= SizeOf[b]
    BY <1>3, <1>p, <2>2, <2>3, Sizes DEF Cut, Sound, VarTypes
  <2> HIDE DEF i
  <2>5. HandOutPart(b, Numbered(i), SizeOf[b])
    BY <1>3, <2>4 DEF i
  <2>6. Given(b, Numbered(i))
    BY <1>3, <2>2, <2>3, <2>4, <2>5 DEF Given, HandOutPart, Sound, VarTypes, StorageSound
  <2>7. /\ idle' \in Seq(0 .. MaxWorkspaces - 1) /\ Len(idle') = Len(idle) - 1
        /\ \A k \in 1 .. Len(idle') : k \in 1 .. Len(idle) /\ k # Len(idle) /\ idle'[k] = idle[k]
    BY <1>3, AllButLast DEF Sound
  <2>8. \A j, k \in 1 .. Len(idle) : idle[j] = idle[k] => j = k
    BY DEF Sound, IdleSound
  <2>9. \A k \in 1 .. Len(idle') : \E j \in 1 .. Len(idle) : idle'[k] = idle[j] /\ idle[j] # i
    BY <2>1, <2>7, <2>8 DEF i
  <2>10. \A j, k \in 1 .. Len(idle') : idle'[j] = idle'[k] => j = k
    BY <2>7, <2>8
  <2>11. created' \in created .. MaxWorkspaces /\ i < created' /\ capacity'[Numbered(i)] = planned'
    BY <1>t, <1>3, <2>2, <2>3, Bound
  <2> QED
    BY <1>0, <1>p, <2>2, <2>6, <2>7, <2>9, <2>10, <2>11, NumberedGiven
<1>4. CASE /\ SizeOf[b] <= PlannedFor(b) /\ ~Live(b) /\ idle = <<>> /\ created < MaxWorkspaces
           /\ HandOut(b, Numbered(created))
           /\ NewStorage(Numbered(created), PlannedFor(b))
           /\ created' = created + 1 /\ UNCHANGED idle
  <2>1. /\ created \in 0 .. MaxWorkspaces - 1 /\ Numbered(created) \in Buffer
        /\ \A c \in Bucket : using[c] # Numbered(created)
    BY <1>0, <1>4, NextNumber
  <2>2. Given(b, Numbered(created)) /\ capacity'[Numbered(created)] = planned'
    BY <1>4, <1>p, <2>1, Sizes DEF Given, HandOut, HandOutPart, NewStorage, Sound, VarTypes
  <2>3. created' \in created .. MaxWorkspaces /\ created < created'
    BY <1>t, <1>4, Bound
  <2>4. Len(idle') = 0
    BY <1>4
  <2> QED
    BY <1>0, <1>p, <1>t, <1>4, <2>1, <2>2, <2>3, <2>4, NumberedGiven
<1> QED
  BY <1>1, <1>2, <1>3, <1>4
-----------------------------------------------------------------------------
\* Initially nothing is allocated.
LEMMA InitSound == Init => Sound /\ Store!StoreInit
<1> SUFFICES ASSUME Init PROVE Sound /\ Store!StoreInit
  OBVIOUS
<1> USE DEF Init
<1>1. VarTypes
  BY Bound, AllocatorAssumption DEF VarTypes
<1>2. \A b \in Bucket : ~Live(b)
  BY DEF Live
<1>3. Exclusive /\ Placed /\ IdleSound /\ StorageSound /\ Planned
  BY <1>2 DEF Exclusive, Placed, IdleSound, StorageSound, Planned
<1>4. Store!StoreInit
  BY <1>2 DEF Store!StoreInit, Contents
<1> QED
  BY <1>1, <1>3, <1>4 DEF Sound

\* The client fills a bucket.
LEMMA WriteStep ==
  ASSUME Sound, NEW b \in Bucket, Write(b)
  PROVE  Sound' /\ Store!Written(b)
<1>1. PICK d \in Data : memory' = [memory EXCEPT ![using[b]] = d]
  BY DEF Write
<1>2. Live(b) /\ using[b] \in Buffer
      /\ UNCHANGED <<kind, using, extent, idle, created, planned, capacity>>
  BY DEF Write, Sound, VarTypes, Live
<1>3. VarTypes' /\ StorageSound'
  BY <1>1, <1>2 DEF Sound, VarTypes, StorageSound, Live
<1>4. Exclusive' /\ Placed' /\ IdleSound' /\ Planned'
  BY <1>2 DEF Sound, Exclusive, Placed, IdleSound, Planned, Live, BackedUp, FixedPool, Pools
<1>5. Contents' = [Contents EXCEPT ![b] = d]
  <2>1. \A c \in Bucket \ {b} : Live(c) => using[c] # using[b] /\ using[c] \in Buffer
    BY DEF Sound, Exclusive, VarTypes, Live
  <2>2. \A c \in Bucket : Contents'[c] = [Contents EXCEPT ![b] = d][c]
    BY <1>1, <1>2, <2>1 DEF Contents, Sound, VarTypes, Live
  <2> QED
    BY <2>2 DEF Contents
<1>6. Contents[b] # Unallocated
  <2>1. SizeOf[b] > 0 /\ capacity[using[b]] >= SizeOf[b] /\ capacity[using[b]] \in Nat
    BY <1>2, Sizes DEF Sound, StorageSound, VarTypes
  <2>2. memory[using[b]] \in Data
    BY <1>2, <2>1, Sizes DEF Sound, StorageSound
  <2> QED
    BY <1>2, <2>2, AllocatorAssumption DEF Contents
<1> QED
  BY <1>2, <1>3, <1>4, <1>5, <1>6 DEF Sound, Store!Written

\* Every step preserves the invariant and is one of the store or changes nothing.
LEMMA NextSound ==
  ASSUME Sound, Ways = {}, [Next]_vars
  PROVE  Sound' /\ [Store!StoreNext]_<<Contents, extent>>
<1>1. ASSUME NEW b \in Bucket, Allocate(b)
      PROVE  Sound' /\ StoreStep(b)
  <2>1. CASE BackedUp(b) /\ OwnAllocate(b)
    BY <2>1, OwnAllocateStep DEF OwnAllocate, OwnOf
  <2>2. CASE RotaryAllocate(b)
    BY <2>2, RotaryAllocateStep
  <2>3. CASE WorkspaceAllocate(b)
    BY <2>3, WorkspaceAllocateStep
  <2>4. CASE FixedPool /\ PoolAllocate(b)
    BY <2>4, PoolAllocateStep
  <2>5. CASE kind = "fixed_pool_persistent" /\ PersistentAllocate(b)
    <3>1. OwnOf(b) /\ HandOut(b, Own(b)) /\ GetTensor(Own(b), SizeOf[b])
          /\ UNCHANGED <<kind, idle, created, planned>>
      BY <2>5 DEF PersistentAllocate, OwnOf
    <3>2. ASSUME Live(b) PROVE UNCHANGED <<capacity, memory>>
      <4>1. using[b] = Own(b)
        BY <3>1, <3>2 DEF OwnOf, Sound, Placed
      <4> QED
        BY <3>1, <3>2, <4>1, Sizes, Names DEF GetTensor, Sound, StorageSound, VarTypes
    <3> QED
      BY <3>1, <3>2, OwnAllocateStep
  <2> QED
    BY <1>1, <2>1, <2>2, <2>3, <2>4, <2>5 DEF Allocate
<1>2. ASSUME NEW b \in Bucket, Free(b)
      PROVE  Sound' /\ StoreStep(b)
  <2>1. CASE BackedUp(b) /\ OwnFree(b)
    <3>1. using[b] = Own(b) /\ ~Pools
      BY <1>2, <2>1 DEF Free, Sound, Placed, BackedUp, Pools
    <3> QED
      BY <1>2, <2>1, <3>1, ReturnStep DEF Free, OwnFree, Returned
  <2>2. CASE RotaryFree(b)
    BY <2>2, RotaryFreeStep
  <2>3. CASE WorkspaceFree(b)
    BY <2>3, WorkspaceFreeStep
  <2>4. CASE FixedPool /\ PoolFree(b)
    BY <1>2, <2>4, ReturnStep DEF Free, PoolFree, Returned, FixedPool, Pools
  <2> QED
    BY <1>2, <2>1, <2>2, <2>3, <2>4 DEF Free
<1>3. ASSUME SetPlannedSize
      PROVE  Sound' /\ UNCHANGED <<Contents, extent>>
  <2>1. Still /\ planned' \in Nat /\ created = 0
    BY <1>3, Sizes DEF SetPlannedSize, Still
  <2> QED
    BY <2>1, StillStep
<1>4. CASE UNCHANGED vars
  <2>1. Still /\ planned' = planned /\ planned' \in Nat
    BY <1>4 DEF vars, Still, Sound, VarTypes
  <2> QED
    BY <2>1, StillStep
<1>5. CASE Next
  <2>1. \A b \in Bucket : StoreStep(b) => [Store!StoreNext]_<<Contents, extent>>
    BY DEF StoreStep, Store!StoreNext
  <2>2. CASE SetPlannedSize
    BY <1>3, <2>2
  <2>3. ASSUME NEW b \in Bucket, Allocate(b) \/ Free(b) \/ Write(b)
        PROVE  Sound' /\ StoreStep(b)
    BY <1>1, <1>2, <2>3, WriteStep DEF StoreStep
  <2> QED
    BY <1>5, <2>1, <2>2, <2>3 DEF Next
<1> QED
  BY <1>4, <1>5

\* No two live buckets share memory, and each has as much as it asked for, with every
\* allocator (allocate and free of the five classes).
THEOREM AllocatorsSound == ASSUME Ways = {} PROVE Spec => []Sound
<1>1. Sound /\ [Next]_vars => Sound'
  BY NextSound
<1> QED
  BY <1>1, InitSound, PTL DEF Spec

\* Every allocator is a store of buckets with memory of their own.
THEOREM AllocatorsImplementStore == ASSUME Ways = {} PROVE Spec => ActsAsStore
<1>1. Sound /\ [Next]_vars => [Store!StoreNext]_<<Contents, extent>>
  BY NextSound
<1> QED
  BY <1>1, AllocatorsSound, InitSound, PTL DEF Spec, ActsAsStore, Store!StoreSpec

-----------------------------------------------------------------------------
(* The fixed pool and the memory allocators hold.                              *)

LEMMA FiniteBuckets == IsFiniteSet(Bucket)
<1>1. Len(Groups) \in Nat /\ Bucket = 1 .. Len(Groups)
  BY AllocatorAssumption, LenProperties DEF Bucket
<1> QED
  BY <1>1, FS_Interval

\* The offset of a bucket is its own in its unit.
LEMMA OneAtAnOffset ==
  ASSUME NEW b \in Bucket, NEW c \in Bucket,
         Groups[b].unit = Groups[c].unit, Offset(b) = Offset(c)
  PROVE  b = c
<1> DEFINE u == Groups[b].unit
           before(d) == {e \in UnitBuckets(u) : e < d}
<1>1. ASSUME NEW d \in UnitBuckets(u), NEW e \in UnitBuckets(u), d < e
      PROVE  Cardinality(before(d)) # Cardinality(before(e))
  <2>1. d \in Nat /\ e \in Nat /\ UnitBuckets(u) \subseteq Nat
    BY Sizes DEF UnitBuckets
  <2>2. before(d) \subseteq before(e) /\ d \in before(e) /\ d \notin before(d)
    BY <1>1, <2>1
  <2>3. IsFiniteSet(before(e))
    <3>1. before(e) \subseteq Bucket
      BY DEF UnitBuckets
    <3> QED
      BY <3>1, FiniteBuckets, FS_Subset
  <2> HIDE DEF before
  <2> QED
    BY <2>2, <2>3, FS_Subset
<1>2. /\ b \in UnitBuckets(u) /\ c \in UnitBuckets(u)
      /\ Offset(b) = Cardinality(before(b)) /\ Offset(c) = Cardinality(before(c))
  BY DEF UnitBuckets, Offset
<1>3. ~(b < c) /\ ~(c < b)
  BY <1>1, <1>2
<1> QED
  BY <1>3, Sizes

\* When the pool has no buffer for a bucket, PoolSize other units have theirs.
LEMMA PoolExhausted ==
  ASSUME Sound, FixedPool, NEW b \in Bucket, Pooled(b), ~Live(b), IdleGroups(b) = {}
  PROVE  Cardinality(PooledUnits(LiveBuckets \cup {b})) > PoolSize
<1> DEFINE units == PooledUnits(LiveBuckets \cup {b})
           held(g) == CHOOSE c \in Bucket : using[c] = InPool(g, Offset(b))
           unit == [g \in 0 .. PoolSize |-> IF g = PoolSize THEN Groups[b].unit
                                            ELSE Groups[held(g)].unit]
<1>1. PoolSize \in Nat
  BY AllocatorAssumption
<1>2. ASSUME NEW g \in 0 .. PoolSize - 1
      PROVE  /\ held(g) \in Bucket /\ using[held(g)] = InPool(g, Offset(b)) /\ Live(held(g))
             /\ Pooled(held(g)) /\ Offset(held(g)) = Offset(b)
  <2>1. InPool(g, Offset(b)) \in Taken
    BY DEF IdleGroups
  <2>2. \E c \in Bucket : using[c] = InPool(g, Offset(b))
    BY <2>1 DEF Taken
  <2>3. held(g) \in Bucket /\ using[held(g)] = InPool(g, Offset(b))
    BY <2>2
  <2> HIDE DEF held
  <2>4. Live(held(g))
    BY <2>3 DEF Live, InPool, NoBuffer
  <2>5. Pooled(held(g))
    <3>1. SUFFICES ASSUME ~Pooled(held(g))
                   PROVE  FALSE
      OBVIOUS
    <3>2. using[held(g)] = Own(held(g))
      BY <2>3, <2>4, <3>1 DEF Sound, Placed, BackedUp, FixedPool
    <3> QED
      BY <2>3, <3>2 DEF Own, InPool
  <2>6. PICK h \in 0 .. PoolSize - 1 : using[held(g)] = InPool(h, Offset(held(g)))
    BY <2>3, <2>4, <2>5 DEF Sound, Placed
  <2>7. Offset(held(g)) = Offset(b)
    BY <2>3, <2>6 DEF InPool
  <2> QED
    BY <2>3, <2>4, <2>5, <2>7
<1> HIDE DEF held
<1>3. \A g \in 0 .. PoolSize : g = PoolSize \/ g \in 0 .. PoolSize - 1
  BY <1>1
<1>4. ASSUME NEW g \in 0 .. PoolSize
      PROVE  unit[g] \in units
  <2>1. CASE g = PoolSize
    BY <2>1 DEF PooledUnits
  <2>2. CASE g \in 0 .. PoolSize - 1
    <3>1. held(g) \in LiveBuckets /\ Pooled(held(g)) /\ g # PoolSize
      BY <1>1, <1>2, <2>2 DEF LiveBuckets
    <3> QED
      BY <3>1 DEF PooledUnits
  <2> QED
    BY <1>3, <2>1, <2>2
<1>5. ASSUME NEW g \in 0 .. PoolSize, NEW h \in 0 .. PoolSize, unit[g] = unit[h]
      PROVE  g = h
  <2>1. ASSUME NEW i \in 0 .. PoolSize - 1
        PROVE  Groups[held(i)].unit # Groups[b].unit
    BY <1>2, OneAtAnOffset
  <2>2. ASSUME NEW i \in 0 .. PoolSize - 1, NEW j \in 0 .. PoolSize - 1,
               Groups[held(i)].unit = Groups[held(j)].unit
        PROVE  i = j
    <3>1. held(i) = held(j)
      BY <1>2, <2>2, OneAtAnOffset
    <3> QED
      BY <1>2, <3>1 DEF InPool
  <2> QED
    BY <1>1, <1>3, <1>5, <2>1, <2>2
<1>6. IsFiniteSet(units)
  <2> DEFINE pooled == {c \in LiveBuckets \cup {b} : Pooled(c)}
             of == [c \in pooled |-> Groups[c].unit]
  <2>1. pooled \subseteq Bucket
    BY DEF LiveBuckets
  <2>2. IsFiniteSet(pooled)
    BY <2>1, FiniteBuckets, FS_Subset
  <2>3. of \in Surjection(pooled, units)
    BY DEF Surjection, PooledUnits
  <2> QED
    BY <2>2, <2>3, FS_Surjection
<1> HIDE DEF units, unit
<1>7. unit \in Injection(0 .. PoolSize, units)
  BY <1>4, <1>5 DEF unit, Injection, IsInjective
<1>8. Cardinality(0 .. PoolSize) = PoolSize + 1
  BY <1>1, FS_Interval
<1>9. Cardinality(0 .. PoolSize) <= Cardinality(units) /\ Cardinality(units) \in Nat
  BY <1>6, <1>7, FS_Injection, FS_CardinalityType
<1> QED
  BY <1>1, <1>8, <1>9 DEF units

\* What may have storage: what is in use, what is idle, and what a pool keeps.
Needed(m) ==
  \/ \E b \in Bucket : Live(b) /\ using[b] = m
  \/ \E k \in 1 .. Len(idle) : m = Numbered(idle[k])
  \/ kind = "fixed_pool_persistent"
  \/ kind = "fixed_pool" /\ \E g \in 0 .. PoolSize - 1, b \in Bucket :
                              Pooled(b) /\ m = InPool(g, Offset(b))

Lean ==
  /\ peak \in Nat
  /\ \A m \in Buffer : capacity[m] > 0 => Needed(m)
  /\ Pools => Len(idle) + Cardinality(LiveBuckets) <= peak
  /\ kind = "workspace" => Len(idle) <= MaxLive
  /\ PoolSuffices

LEMMA CountOfLive ==
  /\ IsFiniteSet(LiveBuckets) /\ Cardinality(LiveBuckets) \in Nat
  /\ \A b \in Bucket : ~Live(b) =>
       Cardinality(LiveBuckets \cup {b}) = Cardinality(LiveBuckets) + 1
  /\ \A b \in Bucket : Live(b) =>
       Cardinality(LiveBuckets \ {b}) = Cardinality(LiveBuckets) - 1
<1>1. IsFiniteSet(LiveBuckets)
  BY FiniteBuckets, FS_Subset DEF LiveBuckets
<1>2. \A b \in Bucket : b \in LiveBuckets <=> Live(b)
  BY DEF LiveBuckets
<1> QED
  BY <1>1, <1>2, FS_CardinalityType, FS_AddElement, FS_RemoveElement

\* The invariant gives the bounds.
LEMMA LeanBounds == Sound /\ Lean => Footprint
<1> SUFFICES ASSUME Sound, Lean
             PROVE  Footprint
  OBVIOUS
<1> USE DEF Pools
<1>1. \A b \in Bucket : Live(b) => using[b] \in Buffer /\ capacity[using[b]] \in Nat /\ capacity[using[b]] > 0
  <2> SUFFICES ASSUME NEW b \in Bucket, Live(b)
               PROVE  using[b] \in Buffer /\ capacity[using[b]] \in Nat /\ capacity[using[b]] > 0
    OBVIOUS
  <2>1. using[b] \in Buffer
    BY DEF Sound, VarTypes, Live
  <2>2. capacity[using[b]] \in Nat
    BY <2>1 DEF Sound, VarTypes
  <2>3. capacity[using[b]] >= SizeOf[b] /\ SizeOf[b] \in Nat \ {0}
    BY Sizes DEF Sound, StorageSound
  <2> QED
    BY <2>1, <2>2, <2>3
<1>2. ~Pools => Len(idle) = 0
  BY DEF Sound, IdleSound
<1>3. kind \in {"temporary", "resize"} => InMemory = {Own(b) : b \in LiveBuckets}
  <2> SUFFICES ASSUME kind \in {"temporary", "resize"}
               PROVE  InMemory = {Own(b) : b \in LiveBuckets}
    OBVIOUS
  <2>1. \A b \in Bucket : Live(b) => using[b] = Own(b)
    BY DEF Sound, Placed, BackedUp
  <2>2. \A m \in InMemory : \E b \in Bucket : Live(b) /\ using[b] = m
    BY <1>2 DEF InMemory, Lean, Needed
  <2>3. \A b \in LiveBuckets : Own(b) \in InMemory
    BY <1>1, <2>1 DEF LiveBuckets, InMemory
  <2> QED
    BY <2>1, <2>2, <2>3 DEF LiveBuckets
<1>4. kind = "fixed_pool" =>
        InMemory \subseteq {InPool(g, Offset(b)) : g \in 0 .. PoolSize - 1, b \in {c \in Bucket : Pooled(c)}}
                             \cup {Own(b) : b \in LiveBuckets}
  <2> SUFFICES ASSUME kind = "fixed_pool", NEW m \in InMemory
               PROVE  \/ \E g \in 0 .. PoolSize - 1, b \in {c \in Bucket : Pooled(c)} : m = InPool(g, Offset(b))
                      \/ \E b \in LiveBuckets : m = Own(b)
    OBVIOUS
  <2>1. Needed(m) /\ Len(idle) = 0
    BY <1>2 DEF InMemory, Lean
  <2>2. CASE \E b \in Bucket : Live(b) /\ using[b] = m
    <3>1. PICK b \in Bucket : Live(b) /\ using[b] = m
      BY <2>2
    <3>2. CASE Pooled(b)
      BY <3>1, <3>2 DEF Sound, Placed, FixedPool
    <3>3. CASE ~Pooled(b)
      BY <3>1, <3>3 DEF Sound, Placed, BackedUp, LiveBuckets
    <3> QED
      BY <3>2, <3>3
  <2> QED
    BY <2>1, <2>2 DEF Needed
<1>5. Pools => /\ IsFiniteSet(InMemory)
               /\ Cardinality(InMemory) <= Cardinality(LiveBuckets) + Len(idle)
  <2> SUFFICES ASSUME Pools
               PROVE  /\ IsFiniteSet(InMemory)
                      /\ Cardinality(InMemory) <= Cardinality(LiveBuckets) + Len(idle)
    OBVIOUS
  <2> DEFINE inUse == {using[b] : b \in LiveBuckets}
             waiting == {Numbered(idle[k]) : k \in 1 .. Len(idle)}
             useOf == [b \in LiveBuckets |-> using[b]]
             waitAt == [k \in 1 .. Len(idle) |-> Numbered(idle[k])]
  <2>1. InMemory \subseteq inUse \cup waiting
    BY DEF InMemory, Lean, Needed, LiveBuckets
  <2>2. useOf \in Surjection(LiveBuckets, inUse) /\ waitAt \in Surjection(1 .. Len(idle), waiting)
    BY DEF Surjection
  <2> HIDE DEF inUse, waiting, useOf, waitAt
  <2>3. Len(idle) \in Nat
    BY DEF Sound, VarTypes
  <2>4. IsFiniteSet(1 .. Len(idle)) /\ Cardinality(1 .. Len(idle)) = Len(idle)
    <3>1. Len(idle) >= 1 => Cardinality(1 .. Len(idle)) = Len(idle) - 1 + 1
      BY <2>3, FS_Interval
    <3>2. Len(idle) < 1 => 1 .. Len(idle) = {}
      BY <2>3
    <3>3. IsFiniteSet(1 .. Len(idle))
      BY <2>3, FS_Interval
    <3> QED
      BY <2>3, <3>1, <3>2, <3>3, FS_EmptySet
  <2>5. IsFiniteSet(inUse) /\ Cardinality(inUse) <= Cardinality(LiveBuckets)
    BY <2>2, CountOfLive, FS_Surjection
  <2>6. IsFiniteSet(waiting) /\ Cardinality(waiting) <= Len(idle)
    BY <2>2, <2>4, FS_Surjection
  <2>7. IsFiniteSet(inUse \cap waiting)
    BY <2>5, FS_Subset
  <2>8. /\ IsFiniteSet(inUse \cup waiting)
        /\ Cardinality(inUse \cup waiting) = Cardinality(inUse) + Cardinality(waiting)
                                               - Cardinality(inUse \cap waiting)
    BY <2>5, <2>6, FS_Union
  <2>9. /\ Cardinality(inUse) \in Nat /\ Cardinality(waiting) \in Nat
        /\ Cardinality(inUse \cap waiting) \in Nat
    BY <2>5, <2>6, <2>7, FS_CardinalityType
  <2>10. IsFiniteSet(InMemory) /\ Cardinality(InMemory) <= Cardinality(inUse \cup waiting)
    BY <2>1, <2>8, FS_Subset
  <2>11. Cardinality(InMemory) \in Nat
    BY <2>10, FS_CardinalityType
  <2> QED
    BY <2>3, <2>5, <2>6, <2>8, <2>9, <2>10, <2>11, CountOfLive
<1>6. kind \in {"rotary", "workspace"} => Cardinality(InMemory) <= peak
  <2>1. Pools => Cardinality(InMemory) \in Nat
    BY <1>5, FS_CardinalityType
  <2> QED
    BY <1>5, <2>1, CountOfLive DEF Lean, Sound, VarTypes
<1>7. kind = "workspace" => Cardinality(InMemory) <= Cardinality(LiveBuckets) + MaxLive
  <2>1. Pools => Cardinality(InMemory) \in Nat
    BY <1>5, FS_CardinalityType
  <2> QED
    BY <1>5, <2>1, CountOfLive, AllocatorAssumption DEF Lean, Sound, VarTypes
<1> QED
  BY <1>3, <1>4, <1>6, <1>7 DEF Footprint

\* A step that leaves all of this alone.
LEMMA LeanStill ==
  ASSUME Lean, UNCHANGED <<kind, using, idle, capacity, peak>>,
         raised' = raised \/ raised' # "AssertionError"
  PROVE  Lean'
<1>1. LiveBuckets' = LiveBuckets /\ \A b \in Bucket : Live(b)' <=> Live(b)
  BY DEF LiveBuckets, Live
<1>2. \A m \in Buffer : Needed(m)' <=> Needed(m)
  BY <1>1 DEF Needed
<1>3. PoolSuffices'
  BY <1>1 DEF Lean, PoolSuffices
<1> QED
  BY <1>1, <1>2, <1>3 DEF Lean, Pools

\* A buffer is handed out, after an idle one if there is any.
LEMMA LeanGiven ==
  ASSUME Sound, Lean, NEW b \in Bucket, NEW m \in Buffer, NEW n, ~Live(b), HandOutPart(b, m, n),
         kind' = kind, raised' # "AssertionError",
         \A x \in Buffer \ {m} : capacity'[x] = capacity[x],
         \A k \in 1 .. Len(idle) : Numbered(idle[k]) = m \/ \E j \in 1 .. Len(idle') : idle'[j] = idle[k],
         Len(idle') \in Nat,
         IF idle = <<>> THEN idle' = idle ELSE Pools => Len(idle') = Len(idle) - 1
  PROVE  Lean'
<1>1. /\ using'[b] = m
      /\ \A c \in Bucket : c # b => using'[c] = using[c]
      /\ peak' = IF Cardinality(LiveBuckets) < peak THEN peak ELSE Cardinality(LiveBuckets) + 1
  BY DEF HandOutPart, Sound, VarTypes
<1>2. Live(b)' /\ \A c \in Bucket : Live(c) => Live(c)' /\ using'[c] = using[c]
  BY <1>1, Names DEF Live
<1>3. LiveBuckets' = LiveBuckets \cup {b}
  BY <1>1, <1>2 DEF LiveBuckets, Live
<1>4. ASSUME NEW x \in Buffer, capacity'[x] > 0
      PROVE  Needed(x)'
  <2>1. CASE x = m
    BY <1>1, <1>2, <2>1 DEF Needed
  <2>2. CASE x # m
    <3>1. Needed(x)
      BY <1>4, <2>2 DEF Lean
    <3> QED
      BY <1>2, <2>2, <3>1 DEF Needed
  <2> QED
    BY <2>1, <2>2
<1>5. peak' \in Nat
  BY <1>1, CountOfLive DEF Lean
<1>6. Len(idle) \in Nat /\ (idle # <<>> => Len(idle) > 0) /\ (idle = <<>> => Len(idle) = 0)
  BY EmptySeq DEF Sound, VarTypes
<1>7. Pools => Len(idle') + Cardinality(LiveBuckets)' <= peak'
  <2>1. Cardinality(LiveBuckets)' = Cardinality(LiveBuckets) + 1
    BY <1>3, CountOfLive
  <2> QED
    BY <1>1, <1>5, <1>6, <2>1, CountOfLive DEF Lean
<1>8. kind = "workspace" => Len(idle') <= MaxLive
  BY <1>6, AllocatorAssumption DEF Lean, Pools
<1> QED
  BY <1>4, <1>5, <1>7, <1>8 DEF Lean, PoolSuffices, Pools

\* A buffer is given back: it is idle, has no storage, or belongs to a pool.
LEMMA LeanReturned ==
  ASSUME Sound, Lean, NEW b \in Bucket, Live(b), NoLonger(b), UNCHANGED <<kind, peak>>,
         raised' # "AssertionError",
         \/ idle' = idle /\ GiveUp(using[b])
         \/ /\ idle' = idle /\ UNCHANGED capacity
            /\ \/ kind = "fixed_pool_persistent"
               \/ kind = "fixed_pool" /\ Pooled(b)
         \/ /\ Pools /\ idle' = Append(idle, using[b][2]) /\ UNCHANGED capacity
            /\ kind = "workspace" => Len(idle) < MaxLive
  PROVE  Lean'
<1>1. /\ using'[b] = NoBuffer /\ using[b] \in Buffer
      /\ \A c \in Bucket : c # b => using'[c] = using[c]
  BY DEF NoLonger, Sound, VarTypes, Live
<1>2. LiveBuckets' = LiveBuckets \ {b} /\ ~Live(b)'
      /\ \A c \in Bucket : c # b => (Live(c)' <=> Live(c))
  BY <1>1 DEF LiveBuckets, Live
<1>3. Cardinality(LiveBuckets)' = Cardinality(LiveBuckets) - 1
  BY <1>2, CountOfLive
<1>4. idle \in Seq(0 .. MaxWorkspaces - 1) /\ Len(idle) \in Nat
  BY DEF Sound, VarTypes
<1>5. ASSUME Pools
      PROVE  using[b][2] \in 0 .. MaxWorkspaces - 1 /\ using[b] = Numbered(using[b][2])
  <2>1. PICK i \in Nat : i < created /\ using[b] = Numbered(i)
    BY <1>5 DEF Sound, Placed
  <2> QED
    BY <2>1, Bound, Names DEF Sound, VarTypes
<1>6. PICK m \in Buffer : m = using[b]
  BY <1>1
<1>7. CASE idle' = idle /\ GiveUp(using[b])
  <2>1. \A x \in Buffer : capacity'[x] > 0 => x # using[b] /\ capacity[x] > 0
    BY <1>1, <1>7 DEF GiveUp, Sound, VarTypes
  <2>2. \A x \in Buffer : capacity'[x] > 0 => Needed(x)'
    BY <1>1, <1>2, <1>7, <2>1 DEF Lean, Needed
  <2> QED
    BY <1>3, <1>4, <1>7, <2>2, CountOfLive DEF Lean, Pools, PoolSuffices
<1>8. CASE /\ idle' = idle /\ UNCHANGED capacity
           /\ \/ kind = "fixed_pool_persistent"
              \/ kind = "fixed_pool" /\ Pooled(b)
  <2>1. Needed(m)'
    BY <1>6, <1>8 DEF Needed, Sound, Placed, FixedPool
  <2>2. \A x \in Buffer : capacity'[x] > 0 => Needed(x)'
    BY <1>1, <1>2, <1>6, <1>8, <2>1 DEF Lean, Needed
  <2> QED
    BY <1>8, <2>2 DEF Lean, Pools, PoolSuffices
<1>9. CASE /\ Pools /\ idle' = Append(idle, using[b][2]) /\ UNCHANGED capacity
           /\ kind = "workspace" => Len(idle) < MaxLive
  <2>1. /\ Len(idle') = Len(idle) + 1 /\ idle'[Len(idle) + 1] = using[b][2]
        /\ \A k \in 1 .. Len(idle) : idle'[k] = idle[k]
    BY <1>4, <1>5, <1>9, AppendProperties
  <2>2. Needed(m)'
    <3>1. Len(idle) + 1 \in 1 .. Len(idle')
      BY <1>4, <2>1
    <3> QED
      BY <1>5, <1>6, <1>9, <2>1, <3>1 DEF Needed
  <2>3. \A k \in 1 .. Len(idle) : k \in 1 .. Len(idle')
    BY <1>4, <2>1
  <2>4. \A x \in Buffer : capacity'[x] > 0 => Needed(x)'
    BY <1>1, <1>2, <1>6, <1>9, <2>1, <2>2, <2>3 DEF Lean, Needed
  <2> QED
    BY <1>3, <1>4, <1>9, <2>1, <2>4, CountOfLive, AllocatorAssumption DEF Lean, Pools, PoolSuffices
<1> QED
  BY <1>7, <1>8, <1>9

\* Asking for what one has changes nothing.
LEMMA Again ==
  ASSUME Sound, NEW b \in Bucket, Live(b), HandOut(b, using[b])
  PROVE  /\ using' = using /\ peak' = peak
         /\ GetTensor(using[b], SizeOf[b]) => UNCHANGED capacity
<1>1. using' = using /\ peak' = peak
  BY DEF HandOut, HandOutPart, Sound, VarTypes
<1>2. GetTensor(using[b], SizeOf[b]) => UNCHANGED capacity
  BY Sizes DEF GetTensor, Sound, StorageSound, VarTypes, Live
<1> QED
  BY <1>1, <1>2

LEMMA ElsewhereKept ==
  ASSUME VarTypes, NEW m \in Buffer, NEW n, NewStorage(m, n) \/ GetTensor(m, n)
  PROVE  \A x \in Buffer \ {m} : capacity'[x] = capacity[x]
BY DEF VarTypes, NewStorage, GetTensor

\* An own buffer is handed out.
LEMMA LeanOwn ==
  ASSUME Sound, Lean, NEW b \in Bucket, OwnOf(b), HandOut(b, Own(b)),
         IF Live(b) THEN UNCHANGED capacity \/ GetTensor(Own(b), SizeOf[b])
         ELSE NewStorage(Own(b), SizeOf[b]) \/ GetTensor(Own(b), SizeOf[b]),
         UNCHANGED <<kind, idle, raised>>, raised = "none"
  PROVE  Lean'
<1>1. CASE Live(b)
  <2>1. using[b] = Own(b)
    BY <1>1 DEF Sound, Placed, OwnOf
  <2>2. UNCHANGED <<using, peak, capacity>>
    BY <1>1, <2>1, Again
  <2> QED
    BY <2>2, LeanStill
<1>2. CASE ~Live(b)
  <2>1. ~Pools /\ idle = <<>> /\ Len(idle) = 0
    BY DEF OwnOf, BackedUp, Pools, Sound, IdleSound
  <2>2. HandOutPart(b, Own(b), SizeOf[b]) /\ Own(b) \in Buffer
    BY Names DEF HandOut
  <2>3. \A x \in Buffer \ {Own(b)} : capacity'[x] = capacity[x]
    BY <1>2, <2>2, ElsewhereKept DEF Sound
  <2> QED
    BY <1>2, <2>1, <2>2, <2>3, LeanGiven
<1> QED
  BY <1>1, <1>2

LEMMA LeanRotary ==
  ASSUME Sound, Lean, NEW b \in Bucket, RotaryAllocate(b), raised = "none"
  PROVE  Lean'
<1> USE DEF RotaryAllocate
<1>1. Pools /\ UNCHANGED <<kind, raised>> /\ idle \in Seq(0 .. MaxWorkspaces - 1)
  BY DEF Pools, Sound, VarTypes
<1>2. CASE Live(b) /\ HandOut(b, using[b]) /\ GetTensor(using[b], SizeOf[b]) /\ UNCHANGED idle
  BY <1>1, <1>2, Again, LeanStill
<1>3. CASE ~Live(b) /\ idle # <<>> /\ RotaryTake(b, Head(idle)) /\ GetTensor(Numbered(Head(idle)), SizeOf[b])
  <2> DEFINE m == Numbered(Head(idle))
  <2>1. /\ Len(idle) \in Nat /\ 1 \in 1 .. Len(idle) /\ Head(idle) = idle[1]
        /\ Len(idle') = Len(idle) - 1
        /\ \A k \in 1 .. Len(idle') : idle'[k] = idle[k + 1]
    BY <1>1, <1>3, EmptySeq, HeadTailProperties DEF RotaryTake
  <2>2. m \in Buffer
    BY <2>1, IdleFree
  <2>3. \A x \in Buffer \ {m} : capacity'[x] = capacity[x]
    BY <1>3, <2>2, ElsewhereKept DEF Sound
  <2>4. ASSUME NEW k \in 1 .. Len(idle)
        PROVE  Numbered(idle[k]) = m \/ \E j \in 1 .. Len(idle') : idle'[j] = idle[k]
    <3>1. k # 1 => k - 1 \in 1 .. Len(idle') /\ idle'[k - 1] = idle[k]
      BY <2>1
    <3> QED
      BY <2>1, <3>1
  <2>5. HandOutPart(b, m, SizeOf[b])
    BY <1>3 DEF RotaryTake, HandOut
  <2>6. Len(idle') \in Nat
    BY <2>1
  <2> HIDE DEF m
  <2> QED
    BY <1>1, <1>3, <2>1, <2>2, <2>3, <2>4, <2>5, <2>6, LeanGiven DEF m
<1>4. CASE ~Live(b) /\ idle = <<>> /\ created < MaxWorkspaces /\ HandOut(b, Numbered(created))
             /\ GetTensor(Numbered(created), SizeOf[b]) /\ UNCHANGED idle
  <2>1. Numbered(created) \in Buffer /\ Len(idle') = 0 /\ Len(idle) = 0
    BY <1>1, <1>4, NextNumber
  <2>2. \A x \in Buffer \ {Numbered(created)} : capacity'[x] = capacity[x]
    BY <1>4, <2>1, ElsewhereKept DEF Sound
  <2> QED
    BY <1>1, <1>4, <2>1, <2>2, LeanGiven DEF HandOut
<1> QED
  BY <1>2, <1>3, <1>4

LEMMA LeanWorkspace ==
  ASSUME Sound, Lean, Ways = {}, NEW b \in Bucket, WorkspaceAllocate(b), raised = "none"
  PROVE  Lean'
<1> USE DEF WorkspaceAllocate
<1>1. /\ Pools /\ kind' = kind
      /\ idle \in Seq(0 .. MaxWorkspaces - 1)
  BY DEF Pools, Sound, VarTypes
<1>2. CASE UNCHANGED <<using, idle, capacity, peak>>
             /\ (raised' = "RuntimeError" \/ UNCHANGED raised)
  BY <1>1, <1>2, LeanStill
<1>3. CASE /\ ~Live(b) /\ idle # <<>>
           /\ HandOutPart(b, Numbered(idle[Len(idle)]), Cut(SizeOf[b], Numbered(idle[Len(idle)])))
           /\ idle' = SubSeq(idle, 1, Len(idle) - 1)
           /\ UNCHANGED <<capacity, raised>>
  <2> DEFINE m == Numbered(idle[Len(idle)])
  <2>1. Len(idle) \in 1 .. Len(idle) /\ Len(idle) \in Nat
    BY <1>1, <1>3, EmptySeq
  <2>2. m \in Buffer
    BY <2>1, IdleFree
  <2>3. /\ Len(idle') = Len(idle) - 1
        /\ \A k \in 1 .. Len(idle') : idle'[k] = idle[k]
    BY <1>3, AllButLast DEF Sound
  <2>4. ASSUME NEW k \in 1 .. Len(idle)
        PROVE  Numbered(idle[k]) = m \/ \E j \in 1 .. Len(idle') : idle'[j] = idle[k]
    <3>1. k # Len(idle) => k \in 1 .. Len(idle')
      BY <2>1, <2>3
    <3> QED
      BY <2>3, <3>1
  <2>5. Len(idle') \in Nat
    BY <2>1, <2>3
  <2> HIDE DEF m
  <2> QED
    BY <1>1, <1>3, <2>2, <2>3, <2>4, <2>5, LeanGiven DEF m
<1>4. CASE /\ ~Live(b) /\ idle = <<>> /\ created < MaxWorkspaces
           /\ HandOut(b, Numbered(created)) /\ NewStorage(Numbered(created), PlannedFor(b))
           /\ UNCHANGED <<idle, raised>>
  <2>1. Numbered(created) \in Buffer /\ Len(idle') = 0 /\ Len(idle) = 0
    BY <1>1, <1>4, NextNumber
  <2>2. \A x \in Buffer \ {Numbered(created)} : capacity'[x] = capacity[x]
    BY <1>4, <2>1, ElsewhereKept DEF Sound
  <2> QED
    BY <1>1, <1>4, <2>1, <2>2, LeanGiven DEF HandOut
<1> QED
  BY <1>2, <1>3, <1>4

LEMMA LeanPool ==
  ASSUME Sound, Lean, NEW b \in Bucket, FixedPool, PoolAllocate(b), raised = "none"
  PROVE  Lean'
<1> USE DEF PoolAllocate
<1>1. /\ Pooled(b) /\ UNCHANGED <<kind, idle>> /\ ~Pools
      /\ idle = <<>> /\ Len(idle) = 0
  BY DEF FixedPool, Pools, Sound, IdleSound
<1>2. CASE Live(b) /\ HandOut(b, using[b]) /\ GetTensor(using[b], SizeOf[b]) /\ UNCHANGED raised
  BY <1>1, <1>2, Again, LeanStill
<1>3. ASSUME ~Live(b), NEW g \in IdleGroups(b), HandOut(b, InPool(g, Offset(b))),
             GetTensor(InPool(g, Offset(b)), SizeOf[b]), UNCHANGED raised
      PROVE  Lean'
  <2> DEFINE m == InPool(g, Offset(b))
  <2>1. m \in Buffer
    BY Names DEF IdleGroups
  <2>2. \A x \in Buffer \ {m} : capacity'[x] = capacity[x]
    BY <1>3, <2>1, ElsewhereKept DEF Sound
  <2>3. HandOutPart(b, m, SizeOf[b])
    BY <1>3 DEF HandOut
  <2> HIDE DEF m
  <2> QED
    BY <1>1, <1>3, <2>1, <2>2, <2>3, LeanGiven
<1>4. CASE ~Live(b) /\ IdleGroups(b) = {} /\ UNCHANGED <<using, capacity, peak>>
  <2>1. Cardinality(PooledUnits(LiveBuckets \cup {b})) > PoolSize
    BY <1>1, <1>4, PoolExhausted
  <2>2. LiveBuckets' = LiveBuckets /\ \A c \in Bucket : Live(c)' <=> Live(c)
    BY <1>4 DEF LiveBuckets, Live
  <2>3. PoolSuffices'
    BY <1>1, <1>4, <2>1, <2>2 DEF PoolSuffices, PooledUnits
  <2>4. \A m \in Buffer : Needed(m)' <=> Needed(m)
    BY <1>1, <1>4, <2>2 DEF Needed
  <2> QED
    BY <1>1, <1>4, <2>2, <2>3, <2>4 DEF Lean, Pools
<1> QED
  BY <1>2, <1>3, <1>4

LEMMA LeanNext ==
  ASSUME Sound, Lean, Ways = {}, [Next]_vars
  PROVE  Lean'
<1>1. ASSUME raised = "none", NEW b \in Bucket, Allocate(b)
      PROVE  Lean'
  <2>1. CASE BackedUp(b) /\ OwnAllocate(b)
    BY <1>1, <2>1, LeanOwn DEF OwnAllocate, OwnOf
  <2>2. CASE RotaryAllocate(b)
    BY <1>1, <2>2, LeanRotary
  <2>3. CASE WorkspaceAllocate(b)
    BY <1>1, <2>3, LeanWorkspace
  <2>4. CASE FixedPool /\ PoolAllocate(b)
    BY <1>1, <2>4, LeanPool
  <2>5. CASE kind = "fixed_pool_persistent" /\ PersistentAllocate(b)
    BY <1>1, <2>5, LeanOwn DEF PersistentAllocate, OwnOf
  <2> QED
    BY <1>1, <2>1, <2>2, <2>3, <2>4, <2>5 DEF Allocate
<1>2. ASSUME raised = "none", NEW b \in Bucket, Free(b)
      PROVE  Lean'
  <2>1. CASE BackedUp(b) /\ OwnFree(b)
    <3>1. using[b] = Own(b)
      BY <1>2, <2>1 DEF Free, Sound, Placed
    <3> QED
      BY <1>2, <2>1, <3>1, LeanReturned DEF Free, OwnFree
  <2>2. CASE RotaryFree(b)
    BY <1>2, <2>2, LeanReturned DEF RotaryFree, Pools
  <2>3. CASE WorkspaceFree(b)
    BY <1>2, <2>3, LeanReturned DEF WorkspaceFree, Pools, Kept
  <2>4. CASE FixedPool /\ PoolFree(b)
    BY <1>2, <2>4, LeanReturned DEF Free, PoolFree, FixedPool
  <2> QED
    BY <1>2, <2>1, <2>2, <2>3, <2>4 DEF Free
<1>3. CASE SetPlannedSize
  BY <1>3, LeanStill DEF SetPlannedSize
<1>4. ASSUME NEW b \in Bucket, Write(b)
      PROVE  Lean'
  BY <1>4, LeanStill DEF Write
<1>5. CASE UNCHANGED vars
  BY <1>5, LeanStill DEF vars
<1> QED
  BY <1>1, <1>2, <1>3, <1>4, <1>5 DEF Next

LEMMA InitLean == Init => Lean
<1> SUFFICES ASSUME Init
             PROVE  Lean
  OBVIOUS
<1>1. LiveBuckets = {}
  BY DEF Init, LiveBuckets, Live
<1>2. Cardinality(LiveBuckets) = 0
  BY <1>1, FS_EmptySet
<1> QED
  BY <1>2, AllocatorAssumption DEF Init, Lean, PoolSuffices

LEMMA LeanInvariance == ASSUME Ways = {} PROVE Spec => [](Sound /\ Lean)
<1>1. Init => Sound /\ Lean
  BY InitSound, InitLean
<1>2. Sound /\ Lean /\ [Next]_vars => Sound' /\ Lean'
  BY NextSound, LeanNext
<1> QED
  BY <1>1, <1>2, PTL DEF Spec

\* The pool runs out of buffers only when the client has more units in memory than
\* the pool has buffer groups, however many there are of either (allocate).
THEOREM PoolIsLargeEnough == ASSUME Ways = {} PROVE Spec => []PoolSuffices
<1>1. Sound /\ Lean => PoolSuffices
  BY DEF Lean
<1> QED
  BY <1>1, LeanInvariance, PTL

\* No allocator holds more storage than its strategy needs.
THEOREM StorageBounded == ASSUME Ways = {} PROVE Spec => []Footprint
<1>1. Sound /\ Lean => Footprint
  BY LeanBounds
<1> QED
  BY <1>1, LeanInvariance, PTL
=============================================================================
