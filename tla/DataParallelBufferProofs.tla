---------------------- MODULE DataParallelBufferProofs ----------------------
(***************************************************************************)
(* What the buffers of a parameter group keep through a training step, for *)
(* every group of tensors, number of ranks and strategy whose layout is    *)
(* sound: the cells of every buffer are where the layout puts them, a      *)
(* rank's own share of every tensor gets every rank's gradient, and what   *)
(* is gathered is whole.                                                   *)
(***************************************************************************)
EXTENDS DataParallelBuffer, DBufferLayoutProofs, SequenceTheorems, TLAPS

PlanOf(j) == PlanDBufferLayout(j.elements, j.ranks, j.unit, j.order, j.strategy # "no_shard")

\* Tensors are laid out side by side within the bucket, and cut at whole blocks.
PlansSound ==
  \A j \in Jobs : ItemsAreValid(j.elements) =>
    InBucket(j.elements, PlanOf(j), j.ranks) /\ LocalUnitsAreWhole(j.elements, PlanOf(j), j.ranks)

----------------------------------------------------------------------------
(* Sequences and slices.                                                   *)

Array(s, n) == s = [k \in 1 .. n |-> s[k]]

LEMMA LengthOf ==
  ASSUME NEW n \in Nat, NEW s, Array(s, n) PROVE Len(s) = n
<1>1. s \in Seq({s[k] : k \in 1 .. n})
  BY IsASeq DEF Array
<1> QED
  BY <1>1, LenProperties DEF Array

LEMMA SameArray ==
  ASSUME NEW n, NEW s, NEW t, Array(s, n), Array(t, n), \A k \in 1 .. n : s[k] = t[k] PROVE s = t
BY DEF Array

\* A slice within a buffer.
LEMMA Sliced ==
  ASSUME NEW n \in Nat, NEW s, Array(s, n), NEW lo \in Nat, NEW hi \in Nat, lo <= hi, hi <= n
  PROVE  /\ Array(Slice(s, lo, hi), hi - lo)
         /\ \A k \in 1 .. hi - lo : Slice(s, lo, hi)[k] = s[lo + k]
<1>1. Len(s) = n
  BY LengthOf
<1>2. Slice(s, lo, hi) = SubSeq(s, lo + 1, hi)
  BY <1>1 DEF Slice, Smaller
<1> DEFINE cells == {s[k] : k \in 1 .. n}
           t == SubSeq(s, lo + 1, hi)
<1>3. s \in Seq(cells)
  BY IsASeq DEF Array
<1>4. /\ t \in Seq(cells)
      /\ Len(t) = IF lo + 1 <= hi THEN hi - (lo + 1) + 1 ELSE 0
      /\ \A k \in 1 .. hi - (lo + 1) + 1 : t[k] = s[lo + 1 + k - 1]
  <2>1. \A k \in lo + 1 .. hi : s[k] \in cells
    OBVIOUS
  <2> HIDE DEF cells
  <2>2. ASSUME NEW m \in Int, \A k \in m .. hi : s[k] \in cells
        PROVE  /\ SubSeq(s, m, hi) \in Seq(cells)
               /\ Len(SubSeq(s, m, hi)) = IF m <= hi THEN hi - m + 1 ELSE 0
               /\ \A k \in 1 .. hi - m + 1 : SubSeq(s, m, hi)[k] = s[m + k - 1]
    BY <2>2, SubSeqProperties
  <2> QED
    BY <2>1, <2>2
<1>5. Len(t) = hi - lo /\ \A k \in 1 .. hi - lo : t[k] = s[lo + k]
  BY <1>4
<1>6. Array(t, hi - lo)
  BY <1>4, <1>5, LenProperties DEF Array
<1> QED
  BY <1>2, <1>5, <1>6

LEMMA NoSlice ==
  ASSUME NEW n \in Nat, NEW s, Array(s, n), NEW lo \in 0 .. n
  PROVE  Slice(s, lo, lo) = << >>
<1>1. Array(Slice(s, lo, lo), lo - lo)
  <2>1. lo \in Nat /\ lo <= lo /\ lo <= n
    OBVIOUS
  <2> QED
    BY <2>1, Sliced
<1>2. 1 .. lo - lo = {}
  OBVIOUS
<1> QED
  BY <1>1, <1>2 DEF Array

\* A cell that one part is written to, and one that none is.
Hits(start, part, i, k) == start[i] < k /\ k <= start[i] + Len(part[i])

LEMMA WrittenOnce ==
  ASSUME Item \subseteq Nat, NEW cells, NEW start, NEW part, NEW k \in DOMAIN cells, NEW i \in Item,
         Hits(start, part, i, k), \A j \in Item : Hits(start, part, j, k) => j = i
  PROVE  WriteEach(cells, start, part)[k] = part[i][k - start[i]]
<1> DEFINE here == {j \in Item : start[j] < k /\ k <= start[j] + Len(part[j])}
<1>1. here = {i}
  BY DEF Hits
<1>2. Max(here) = i
  BY <1>1 DEF Max
<1> QED
  BY <1>1, <1>2 DEF WriteEach

LEMMA NotWritten ==
  ASSUME NEW cells, NEW start, NEW part, NEW k \in DOMAIN cells,
         \A j \in Item : ~Hits(start, part, j, k)
  PROVE  WriteEach(cells, start, part)[k] = cells[k]
<1> DEFINE here == {j \in Item : start[j] < k /\ k <= start[j] + Len(part[j])}
<1>1. here = {}
  BY DEF Hits
<1> QED
  BY <1>1 DEF WriteEach

----------------------------------------------------------------------------
(* The layout of the bucket.                                               *)

ThePlan == PlanOf(job)
Shard == ThePlan.shard_size
Total == job.ranks * Shard

\* An item takes the places after From up to To of the bucket, a shard of a rank
\* those after ShardFrom up to ShardTo, and a rank's share of an item those of both.
From(i) == ThePlan.start[i]
To(i) == From(i) + ItemSize(i)
ShardFrom(r) == r * Shard
ShardTo(r) == (r + 1) * Shard
OwnFrom(r, i) == Larger(From(i), ShardFrom(r))
OwnTo(r, i) == Smaller(To(i), ShardTo(r))

Covers(i, p) == From(i) < p /\ p <= To(i)
Own(r, p) == ShardFrom(r) < p /\ p <= ShardTo(r)

\* A group with a layout.
LaidOut == PlansSound /\ job \in Jobs /\ ItemsAreValid(job.elements)

LEMMA JobTyped ==
  ASSUME job \in Jobs
  PROVE  /\ job.ranks \in Nat \ {0} /\ Rank \subseteq Nat /\ 0 \in Rank
         /\ Item = 1 .. Len(job.elements) /\ Len(job.elements) \in Nat
         /\ job.strategy \in Strategies /\ job.main_weights \in BOOLEAN
<1>1. job \in Job
  BY JobAssumption
<1>2. job.elements \in Seq([shape : Seq(Nat), block : Nat])
  BY <1>1 DEF Job
<1> QED
  BY <1>1, <1>2, LenProperties DEF Job, Rank, Item

LEMMA Geometry ==
  ASSUME LaidOut
  PROVE  /\ Shard \in Nat /\ Total \in Nat
         /\ \A i \in Item :
              /\ From(i) \in Nat /\ ItemSize(i) \in Nat /\ To(i) \in Nat
              /\ From(i) <= To(i) /\ To(i) <= Total
         /\ \A i, k \in Item, p \in Nat : Covers(i, p) /\ Covers(k, p) => i = k
<1>1. InBucket(job.elements, ThePlan, job.ranks)
  BY DEF LaidOut, PlansSound, ThePlan
<1>2. /\ Shard \in Nat
      /\ \A i \in Item : /\ From(i) \in Nat /\ ItemSize(i) \in Nat
                         /\ From(i) + ItemSize(i) <= Total
  BY <1>1 DEF InBucket, Shard, Item, From, ItemSize, Total
<1>3. Total \in Nat
  BY <1>2, JobTyped DEF Total, LaidOut
<1>4. \A i, k \in Item : i # k => To(i) <= From(k) \/ To(k) <= From(i)
  BY <1>1 DEF InBucket, Item, From, ItemSize, To
<1> QED
  BY <1>2, <1>3, <1>4 DEF To, Covers

LEMMA ShardBounds ==
  ASSUME LaidOut, NEW r \in Rank
  PROVE  /\ ShardFrom(r) \in Nat /\ ShardTo(r) = ShardFrom(r) + Shard /\ ShardTo(r) <= Total
         /\ job.ranks = 1 => ShardFrom(r) = 0 /\ ShardTo(r) = Total
<1>1. job.ranks \in Nat /\ Shard \in Nat /\ r \in Nat /\ r + 1 <= job.ranks
  BY Geometry, JobTyped DEF Rank, LaidOut
<1>2. /\ ShardFrom(r) \in Nat /\ ShardTo(r) = ShardFrom(r) + Shard
  BY <1>1 DEF ShardFrom, ShardTo
<1>3. ShardTo(r) <= Total
  <2>1. PICK d \in Nat : job.ranks = r + 1 + d
    <3>1. job.ranks - (r + 1) \in Nat /\ job.ranks = r + 1 + (job.ranks - (r + 1))
      BY <1>1
    <3> QED
      BY <3>1
  <2>2. Total = ShardTo(r) + d * Shard /\ d * Shard \in Nat
    BY <1>1, <2>1 DEF Total, ShardTo
  <2>3. ShardTo(r) \in Nat
    BY <1>1, <1>2
  <2> QED
    BY <2>2, <2>3
<1>4. job.ranks = 1 => ShardFrom(r) = 0 /\ ShardTo(r) = Total
  <2>1. job.ranks = 1 => r = 0
    BY <1>1
  <2> QED
    BY <1>1, <2>1 DEF ShardFrom, ShardTo, Total
<1> QED
  BY <1>2, <1>3, <1>4

\* Where a rank's share of an item lies in the bucket, if it has one.
LEMMA ShareBounds ==
  ASSUME LaidOut, NEW r \in Rank, NEW i \in Item
  PROVE  /\ OwnFrom(r, i) \in Nat /\ OwnTo(r, i) \in Nat
         /\ From(i) <= OwnFrom(r, i) /\ OwnTo(r, i) <= To(i)
         /\ ShardFrom(r) <= OwnFrom(r, i) /\ OwnTo(r, i) <= ShardTo(r)
         /\ \A p \in Nat : Covers(i, p) /\ Own(r, p) <=> OwnFrom(r, i) < p /\ p <= OwnTo(r, i)
BY Geometry, ShardBounds DEF OwnFrom, OwnTo, Larger, Smaller, Covers, Own

----------------------------------------------------------------------------
(* The cells at the places of the bucket.                                  *)

CellAt(p, from) ==
  IF \E i \in Item : Covers(i, p)
  THEN LET i == CHOOSE i \in Item : Covers(i, p) IN Cell(i, p - From(i), from)
  ELSE Empty

LEMMA CellOfItem ==
  ASSUME LaidOut, NEW p \in Nat, NEW i \in Item, Covers(i, p), NEW from
  PROVE  CellAt(p, from) = Cell(i, p - From(i), from)
<1>1. (CHOOSE k \in Item : Covers(k, p)) = i
  BY Geometry
<1> QED
  BY <1>1 DEF CellAt

LEMMA CellOfNone ==
  ASSUME NEW p, \A i \in Item : ~Covers(i, p), NEW from
  PROVE  CellAt(p, from) = Empty
BY DEF CellAt

\* The part of the bucket a buffer holds, and a buffer in which "own" has gone into
\* the rank's own share and "rest" into what else there is.
Offset(r, buf) == IF IsDataDistributed(buf) THEN ShardFrom(r) ELSE 0
Extent(buf) == IF IsDataDistributed(buf) THEN Shard ELSE Total
Contents(r, buf, own, rest) ==
  [k \in 1 .. Extent(buf) |->
     CellAt(Offset(r, buf) + k, IF Own(r, Offset(r, buf) + k) THEN own ELSE rest)]

\* The bucket, if "from" has gone into all of it.
Whole(from) == [k \in 1 .. Total |-> CellAt(k, from)]

\* A rank's share of an item.
ShareOf(r, i, from) ==
  IF OwnFrom(r, i) < OwnTo(r, i)
  THEN [k \in 1 .. OwnTo(r, i) - OwnFrom(r, i) |-> Cell(i, OwnFrom(r, i) - From(i) + k, from)]
  ELSE << >>

LEMMA Extents ==
  ASSUME LaidOut, NEW r \in Rank, NEW buf
  PROVE  /\ Offset(r, buf) \in Nat /\ Extent(buf) \in Nat
         /\ Offset(r, buf) <= ShardFrom(r) /\ ShardTo(r) <= Offset(r, buf) + Extent(buf)
         /\ Offset(r, buf) + Extent(buf) <= Total
         /\ IsDataDistributed(buf) =>
              \A k \in 1 .. Extent(buf) : Own(r, Offset(r, buf) + k)
         /\ job.ranks = 1 => \A k \in 1 .. Extent(buf) : Own(r, Offset(r, buf) + k)
BY Geometry, ShardBounds DEF Offset, Extent, Own

\* What is in no other rank's share does not matter where there is none.
LEMMA AllOwn ==
  ASSUME LaidOut, NEW r \in Rank, NEW buf, IsDataDistributed(buf) \/ job.ranks = 1,
         NEW own, NEW rest, NEW other
  PROVE  Contents(r, buf, own, rest) = Contents(r, buf, own, other)
BY Extents DEF Contents

\* The slice of an item in a shard, and where it lies in a buffer.
LEMMA SliceInShard ==
  ASSUME LaidOut, NEW r \in Rank, plan[r] = ThePlan, NEW i \in Item, NEW buf
  PROVE  LET slice == GetItemSliceInShard(r, i)
             index == GetItemLocalShardIndex(r, buf, i)
         IN /\ OwnFrom(r, i) < OwnTo(r, i) =>
                 /\ slice[1] = OwnFrom(r, i) - From(i) /\ slice[2] = OwnTo(r, i) - From(i)
                 /\ index[1] = OwnFrom(r, i) - Offset(r, buf) /\ index[2] = OwnTo(r, i) - Offset(r, buf)
            /\ ~(OwnFrom(r, i) < OwnTo(r, i)) =>
                 /\ slice[1] = slice[2] /\ slice[1] \in 0 .. ItemSize(i)
                 /\ index[1] = 0 /\ index[2] = 0
<1> DEFINE slice == GetItemSliceInShard(r, i)
           offset == plan[r].start[i] - r * plan[r].shard_size
                       + IF IsDataDistributed(buf) THEN 0 ELSE r * plan[r].shard_size
<1>1. plan[r].start[i] = From(i) /\ r * plan[r].shard_size = ShardFrom(r)
  BY DEF From, ShardFrom, Shard
<1>2. /\ From(i) \in Nat /\ ItemSize(i) \in Nat /\ To(i) = From(i) + ItemSize(i)
      /\ Shard \in Nat /\ ShardFrom(r) \in Nat /\ ShardTo(r) = ShardFrom(r) + Shard
  BY Geometry, ShardBounds DEF To
<1>3. slice = IF From(i) > ShardTo(r) \/ To(i) < ShardFrom(r) THEN <<0, 0>>
              ELSE <<OwnFrom(r, i) - From(i), OwnTo(r, i) - From(i)>>
  BY <1>1, <1>2 DEF GetItemSliceInShard, OwnFrom, OwnTo, Shard
<1>4. OwnFrom(r, i) < OwnTo(r, i) => slice = <<OwnFrom(r, i) - From(i), OwnTo(r, i) - From(i)>>
  BY <1>2, <1>3 DEF OwnFrom, OwnTo, Larger, Smaller
<1>5. ~(OwnFrom(r, i) < OwnTo(r, i)) => slice[1] = slice[2] /\ slice[1] \in 0 .. ItemSize(i)
  BY <1>2, <1>3 DEF OwnFrom, OwnTo, Larger, Smaller
<1>6. offset = From(i) - Offset(r, buf)
  BY <1>1, <1>2 DEF Offset
<1>7. GetItemLocalShardIndex(r, buf, i) =
        IF slice[1] = slice[2] THEN <<0, 0>> ELSE <<offset + slice[1], offset + slice[2]>>
  BY DEF GetItemLocalShardIndex
<1>8. Offset(r, buf) \in Nat /\ OwnFrom(r, i) \in Nat /\ OwnTo(r, i) \in Nat
  BY Extents, ShareBounds
<1> HIDE DEF slice, offset
<1> QED
  BY <1>2, <1>4, <1>5, <1>6, <1>7, <1>8 DEF slice

----------------------------------------------------------------------------
(* What is read from a buffer.                                             *)

LEMMA ShareCells ==
  ASSUME LaidOut, NEW r \in Rank, NEW i \in Item, NEW from, OwnFrom(r, i) < OwnTo(r, i)
  PROVE  LET n == OwnTo(r, i) - OwnFrom(r, i)
         IN /\ n \in Nat /\ Array(ShareOf(r, i, from), n) /\ Len(ShareOf(r, i, from)) = n
            /\ \A k \in 1 .. n : ShareOf(r, i, from)[k] = Cell(i, OwnFrom(r, i) - From(i) + k, from)
<1>1. PICK n \in Nat : n = OwnTo(r, i) - OwnFrom(r, i)
  BY ShareBounds
<1>2. ShareOf(r, i, from) = [k \in 1 .. n |-> Cell(i, OwnFrom(r, i) - From(i) + k, from)]
  BY <1>1 DEF ShareOf
<1>3. Array(ShareOf(r, i, from), n)
  BY <1>2 DEF Array
<1>4. Len(ShareOf(r, i, from)) = n
  BY <1>3, LengthOf
<1> QED
  BY <1>1, <1>2, <1>3, <1>4

LEMMA TensorCells ==
  ASSUME LaidOut, NEW i \in Item, NEW from
  PROVE  /\ Array(Tensor(i, from), ItemSize(i)) /\ Len(Tensor(i, from)) = ItemSize(i)
         /\ \A k \in 1 .. ItemSize(i) : Tensor(i, from)[k] = Cell(i, k, from)
<1>1. /\ Array(Tensor(i, from), ItemSize(i))
      /\ \A k \in 1 .. ItemSize(i) : Tensor(i, from)[k] = Cell(i, k, from)
  BY DEF Array, Tensor
<1> QED
  BY <1>1, LengthOf, Geometry

\* a rank's slice of a tensor
LEMMA SliceOfTensor ==
  ASSUME LaidOut, NEW r \in Rank, plan[r] = ThePlan, NEW i \in Item, NEW from
  PROVE  LET slice == GetItemSliceInShard(r, i)
         IN Slice(Tensor(i, from), slice[1], slice[2]) = ShareOf(r, i, from)
<1> DEFINE slice == GetItemSliceInShard(r, i)
           s == Tensor(i, from)
<1>1. ItemSize(i) \in Nat /\ From(i) \in Nat /\ To(i) = From(i) + ItemSize(i)
  BY Geometry DEF To
<1>2. Array(s, ItemSize(i)) /\ \A k \in 1 .. ItemSize(i) : s[k] = Cell(i, k, from)
  BY TensorCells
<1>3. CASE OwnFrom(r, i) < OwnTo(r, i)
  <2>1. PICK lo \in Nat, hi \in Nat : lo = OwnFrom(r, i) - From(i) /\ hi = OwnTo(r, i) - From(i)
                                      /\ lo <= hi /\ hi <= ItemSize(i)
    BY <1>1, <1>3, ShareBounds
  <2>2. slice[1] = lo /\ slice[2] = hi
    BY <1>3, <2>1, SliceInShard
  <2> DEFINE n == OwnTo(r, i) - OwnFrom(r, i)
             share == ShareOf(r, i, from)
             part == Slice(s, lo, hi)
  <2>3. n = hi - lo
    BY <1>1, <2>1, ShareBounds
  <2>4. Array(share, n) /\ \A k \in 1 .. n : share[k] = Cell(i, lo + k, from)
    BY <1>3, <2>1, ShareCells
  <2> HIDE DEF s, slice, share
  <2>5. Array(part, hi - lo) /\ \A k \in 1 .. hi - lo : part[k] = s[lo + k]
    BY <1>1, <1>2, <2>1, Sliced
  <2>6. \A k \in 1 .. n : part[k] = share[k]
    BY <1>1, <1>2, <2>1, <2>3, <2>4, <2>5
  <2> HIDE DEF n, part
  <2>7. part = share
    BY <2>3, <2>4, <2>5, <2>6, SameArray
  <2> QED
    BY <2>2, <2>7 DEF s, slice, part, share
<1>4. CASE ~(OwnFrom(r, i) < OwnTo(r, i))
  <2>1. slice[1] = slice[2] /\ slice[1] \in 0 .. ItemSize(i)
    BY <1>4, SliceInShard
  <2> HIDE DEF s, slice
  <2>2. Slice(s, slice[1], slice[1]) = << >>
    BY <1>1, <1>2, <2>1, NoSlice
  <2> QED
    BY <1>4, <2>1, <2>2 DEF s, slice, ShareOf
<1> QED
  BY <1>3, <1>4

\* reading the rank's share of an item
LEMMA ReadShare ==
  ASSUME LaidOut, NEW r \in Rank, plan[r] = ThePlan, NEW i \in Item, NEW buf,
         NEW own, NEW rest, data[r][buf] = Contents(r, buf, own, rest)
  PROVE  GetItem(r, buf, i, TRUE) = ShareOf(r, i, own)
<1> DEFINE s == Contents(r, buf, own, rest)
           index == GetItemLocalShardIndex(r, buf, i)
<1>1. GetItem(r, buf, i, TRUE) = Slice(s, index[1], index[2])
  BY DEF GetItem, ItemIndex
<1>2. Array(s, Extent(buf))
  BY DEF Contents, Array
<1>3. Offset(r, buf) \in Nat /\ Extent(buf) \in Nat /\ From(i) \in Nat /\ ShardFrom(r) \in Nat
  BY Extents, Geometry, ShardBounds
<1>4. CASE OwnFrom(r, i) < OwnTo(r, i)
  <2>1. PICK lo \in Nat, hi \in Nat :
            /\ lo = OwnFrom(r, i) - Offset(r, buf) /\ hi = OwnTo(r, i) - Offset(r, buf)
            /\ lo <= hi /\ hi <= Extent(buf)
    BY <1>3, <1>4, ShareBounds, Extents, ShardBounds, Geometry
  <2>2. index[1] = lo /\ index[2] = hi
    BY <1>4, <2>1, SliceInShard
  <2> DEFINE n == OwnTo(r, i) - OwnFrom(r, i)
             share == ShareOf(r, i, own)
             part == Slice(s, lo, hi)
  <2>3. n = hi - lo
    BY <1>3, <2>1, ShareBounds
  <2>4. /\ Array(share, n)
        /\ \A k \in 1 .. n : share[k] = Cell(i, OwnFrom(r, i) - From(i) + k, own)
    BY <1>4, ShareCells
  <2>5. ASSUME NEW k \in 1 .. n
        PROVE  s[lo + k] = Cell(i, OwnFrom(r, i) - From(i) + k, own)
    <3>1. PICK p \in Nat : p = OwnFrom(r, i) + k
      BY ShareBounds
    <3>2. Covers(i, p) /\ Own(r, p)
      BY <2>3, <2>5, <3>1, ShareBounds, <2>1
    <3>3. Offset(r, buf) + (lo + k) = p /\ lo + k \in 1 .. Extent(buf)
      BY <1>3, <2>1, <2>3, <2>5, <3>1, ShareBounds
    <3>4. s[lo + k] = CellAt(p, own)
      BY <3>2, <3>3 DEF Contents
    <3>5. CellAt(p, own) = Cell(i, p - From(i), own)
      BY <3>2, CellOfItem
    <3>6. p - From(i) = OwnFrom(r, i) - From(i) + k
      BY <3>1, <1>3, ShareBounds
    <3> QED
      BY <3>4, <3>5, <3>6
  <2> HIDE DEF s, index, share
  <2>6. Array(part, hi - lo) /\ \A k \in 1 .. hi - lo : part[k] = s[lo + k]
    <3>1. PICK e \in Nat : e = Extent(buf)
      BY <1>3
    <3>2. Array(s, e) /\ lo <= hi /\ hi <= e
      BY <1>2, <2>1, <3>1
    <3> QED
      BY <3>1, <3>2, Sliced
  <2>7. \A k \in 1 .. n : part[k] = share[k]
    BY <2>3, <2>4, <2>5, <2>6
  <2> HIDE DEF n, part
  <2>8. part = share
    BY <2>3, <2>4, <2>6, <2>7, SameArray
  <2> QED
    BY <1>1, <2>2, <2>8 DEF part, share
<1>5. CASE ~(OwnFrom(r, i) < OwnTo(r, i))
  <2>1. index[1] = 0 /\ index[2] = 0
    BY <1>5, SliceInShard
  <2> HIDE DEF s, index
  <2>2. 0 \in 0 .. Extent(buf)
    BY <1>3
  <2>3. Slice(s, 0, 0) = << >>
    BY <1>2, <1>3, <2>2, NoSlice
  <2> QED
    BY <1>1, <1>5, <2>1, <2>3 DEF ShareOf
<1> QED
  BY <1>4, <1>5

\* an item in a bucket that is whole
LEMMA SliceOfBucket ==
  ASSUME LaidOut, NEW i \in Item, NEW from, NEW s, Array(s, Total),
         \A p \in 1 .. Total : s[p] = CellAt(p, from)
  PROVE  Slice(s, From(i), From(i) + ItemSize(i)) = Tensor(i, from)
<1>1. /\ Total \in Nat /\ From(i) \in Nat /\ ItemSize(i) \in Nat /\ To(i) = From(i) + ItemSize(i)
      /\ To(i) \in Nat /\ To(i) <= Total
  BY Geometry DEF To
<1>2. PICK lo \in Nat, hi \in Nat : lo = From(i) /\ hi = From(i) + ItemSize(i)
                                    /\ lo <= hi /\ hi <= Total
  BY <1>1
<1> DEFINE part == Slice(s, lo, hi)
           n == ItemSize(i)
<1>4. hi - lo = n
  BY <1>1, <1>2
<1>5. Array(part, hi - lo) /\ \A k \in 1 .. hi - lo : part[k] = s[lo + k]
  <2>1. Total \in Nat /\ lo <= hi /\ hi <= Total /\ Array(s, Total)
    BY <1>1, <1>2
  <2>2. Array(part, hi - lo)
    BY <2>1, Sliced
  <2>3. \A k \in 1 .. hi - lo : part[k] = s[lo + k]
    BY <2>1, Sliced
  <2> QED
    BY <2>2, <2>3
<1>6. ASSUME NEW k \in 1 .. n PROVE s[lo + k] = Cell(i, k, from)
  <2>1. PICK p \in Nat : p = lo + k
    BY <1>2
  <2>2. p \in 1 .. Total /\ Covers(i, p) /\ p - From(i) = k
    BY <1>1, <1>2, <1>6, <2>1 DEF Covers
  <2>3. s[p] = CellAt(p, from)
    BY <2>2
  <2>4. CellAt(p, from) = Cell(i, p - From(i), from)
    BY <2>2, CellOfItem
  <2> QED
    BY <2>1, <2>2, <2>3, <2>4
<1>7. Array(Tensor(i, from), n) /\ \A k \in 1 .. n : Tensor(i, from)[k] = Cell(i, k, from)
  BY TensorCells
<1>8. \A k \in 1 .. n : part[k] = Tensor(i, from)[k]
  BY <1>4, <1>5, <1>6, <1>7
<1> HIDE DEF n, part
<1>9. part = Tensor(i, from)
  BY <1>4, <1>5, <1>7, <1>8, SameArray
<1> QED
  BY <1>2, <1>9 DEF part

LEMMA WholeContents ==
  ASSUME LaidOut, NEW r \in Rank, NEW buf, ~IsDataDistributed(buf), NEW from
  PROVE  /\ Array(Contents(r, buf, from, from), Total)
         /\ \A p \in 1 .. Total : Contents(r, buf, from, from)[p] = CellAt(p, from)
<1>1. Offset(r, buf) = 0 /\ Extent(buf) = Total
  BY DEF Offset, Extent
<1>2. Contents(r, buf, from, from)
        = [k \in 1 .. Total |-> CellAt(0 + k, IF Own(r, 0 + k) THEN from ELSE from)]
  BY <1>1 DEF Contents
<1>3. ASSUME NEW p \in 1 .. Total
      PROVE  Contents(r, buf, from, from)[p] = CellAt(p, from)
  <2>1. 0 + p = p
    OBVIOUS
  <2>2. Contents(r, buf, from, from)[p] = CellAt(0 + p, IF Own(r, 0 + p) THEN from ELSE from)
    BY <1>2
  <2> QED
    BY <2>1, <2>2
<1>4. Array(Contents(r, buf, from, from), Total)
  BY <1>2 DEF Array
<1> QED
  BY <1>3, <1>4

\* reading an item from a buffer that holds the whole bucket
LEMMA ReadWhole ==
  ASSUME LaidOut, NEW r \in Rank, plan[r] = ThePlan, NEW i \in Item, NEW buf, ~IsDataDistributed(buf),
         NEW own, data[r][buf] = Contents(r, buf, own, own)
  PROVE  GetItem(r, buf, i, FALSE) = Tensor(i, own)
<1>1. PICK s : s = Contents(r, buf, own, own)
  OBVIOUS
<1>2. GetItem(r, buf, i, FALSE) = Slice(s, From(i), From(i) + ItemSize(i))
  BY <1>1 DEF GetItem, ItemIndex, GetItemLocalIndex, From
<1>3. Array(s, Total) /\ \A p \in 1 .. Total : s[p] = CellAt(p, own)
  BY <1>1, WholeContents
<1> QED
  BY <1>2, <1>3, SliceOfBucket

----------------------------------------------------------------------------
(* What a buffer contains once every item is written to it.                *)

\* cells that have what is wanted wherever no item's share is
Beside(r, buf, cells, wanted) ==
  \A k \in 1 .. Extent(buf) :
    \/ Own(r, Offset(r, buf) + k) /\ \E i \in Item : Covers(i, Offset(r, buf) + k)
    \/ cells[k] = wanted[k]

\* a rank's share of every item
LEMMA WriteShares ==
  ASSUME LaidOut, NEW r \in Rank, plan[r] = ThePlan, NEW buf, NEW from, NEW rest,
         NEW cells, Array(cells, Extent(buf)),
         Beside(r, buf, cells, Contents(r, buf, from, rest)),
         NEW start, \A i \in Item : start[i] = GetItemLocalShardIndex(r, buf, i)[1],
         NEW part, \A i \in Item : part[i] = ShareOf(r, i, from)
  PROVE  WriteEach(cells, start, part) = Contents(r, buf, from, rest)
<1> DEFINE written == WriteEach(cells, start, part)
           wanted == Contents(r, buf, from, rest)
           n == Extent(buf)
<1>1. Array(written, n) /\ Array(wanted, n)
  <2>1. DOMAIN cells = 1 .. n
    BY DEF Array
  <2> QED
    BY <2>1 DEF Array, WriteEach, Contents
<1>2. /\ Offset(r, buf) \in Nat /\ n \in Nat /\ Item \subseteq Nat
      /\ \A i \in Item : From(i) \in Nat
  BY Extents, Geometry, JobTyped DEF LaidOut
<1>3. ASSUME NEW k \in 1 .. n, NEW i \in Item
      PROVE  Hits(start, part, i, k) <=> Covers(i, Offset(r, buf) + k) /\ Own(r, Offset(r, buf) + k)
  <2>1. PICK p \in Nat : p = Offset(r, buf) + k
    BY <1>2
  <2>2. Covers(i, p) /\ Own(r, p) <=> OwnFrom(r, i) < p /\ p <= OwnTo(r, i)
    BY ShareBounds
  <2>3. OwnFrom(r, i) \in Nat /\ OwnTo(r, i) \in Nat
    BY ShareBounds
  <2>4. CASE OwnFrom(r, i) < OwnTo(r, i)
    <3>1. start[i] = OwnFrom(r, i) - Offset(r, buf)
      BY <2>4, SliceInShard
    <3>2. Len(part[i]) = OwnTo(r, i) - OwnFrom(r, i)
      BY <2>4, ShareCells
    <3> QED
      BY <1>2, <2>1, <2>2, <2>3, <3>1, <3>2 DEF Hits
  <2>5. CASE ~(OwnFrom(r, i) < OwnTo(r, i))
    <3>1. start[i] = 0
      BY <2>5, SliceInShard
    <3>2. Len(part[i]) = 0
      <4>1. part[i] = << >>
        BY <2>5 DEF ShareOf
      <4> QED
        BY <4>1
    <3> QED
      BY <1>2, <2>1, <2>2, <2>3, <2>5, <3>1, <3>2 DEF Hits
  <2> QED
    BY <2>4, <2>5
<1>4. ASSUME NEW k \in 1 .. n PROVE written[k] = wanted[k]
  <2>1. PICK p \in Nat : p = Offset(r, buf) + k
    BY <1>2
  <2>2. CASE Own(r, p) /\ \E i \in Item : Covers(i, p)
    <3>1. PICK i \in Item : Covers(i, p)
      BY <2>2
    <3>2. Hits(start, part, i, k)
      BY <1>3, <2>1, <2>2, <3>1
    <3>3. \A j \in Item : Hits(start, part, j, k) => j = i
      BY <1>3, <2>1, <3>1, Geometry
    <3>4. written[k] = part[i][k - start[i]]
      <4>1. k \in DOMAIN cells /\ Item \subseteq Nat
        BY <1>2 DEF Array
      <4> QED
        BY <3>2, <3>3, <4>1, WrittenOnce
    <3>5. OwnFrom(r, i) < p /\ p <= OwnTo(r, i)
      BY <2>2, <3>1, ShareBounds
    <3>6. OwnFrom(r, i) \in Nat /\ OwnTo(r, i) \in Nat /\ OwnFrom(r, i) < OwnTo(r, i)
      BY <3>5, ShareBounds
    <3>7. start[i] = OwnFrom(r, i) - Offset(r, buf)
      BY <3>6, SliceInShard
    <3>8. PICK m \in 1 .. OwnTo(r, i) - OwnFrom(r, i) : m = k - start[i]
      BY <1>2, <2>1, <3>5, <3>6, <3>7
    <3>9. part[i][m] = Cell(i, OwnFrom(r, i) - From(i) + m, from)
      BY <3>6, ShareCells
    <3>10. OwnFrom(r, i) - From(i) + m = p - From(i)
      BY <1>2, <2>1, <3>6, <3>7, <3>8
    <3>11. wanted[k] = CellAt(p, from)
      BY <2>1, <2>2 DEF Contents
    <3>12. CellAt(p, from) = Cell(i, p - From(i), from)
      BY <3>1, CellOfItem
    <3> QED
      BY <3>4, <3>8, <3>9, <3>10, <3>11, <3>12
  <2>3. CASE ~(Own(r, p) /\ \E i \in Item : Covers(i, p))
    <3>1. \A j \in Item : ~Hits(start, part, j, k)
      BY <1>3, <2>1, <2>3
    <3>2. written[k] = cells[k]
      <4>1. k \in DOMAIN cells
        BY DEF Array
      <4> QED
        BY <3>1, <4>1, NotWritten
    <3>3. cells[k] = wanted[k]
      BY <2>1, <2>3 DEF Beside
    <3> QED
      BY <3>2, <3>3
  <2> QED
    BY <2>2, <2>3
<1> HIDE DEF written, wanted, n
<1>5. written = wanted
  BY <1>1, <1>4, SameArray
<1> QED
  BY <1>5 DEF written, wanted

\* whole items
LEMMA WriteTensors ==
  ASSUME LaidOut, NEW from, NEW cells, Array(cells, Total),
         \A k \in 1 .. Total : (\E i \in Item : Covers(i, k)) \/ cells[k] = Empty,
         NEW start, \A i \in Item : start[i] = From(i),
         NEW part, \A i \in Item : part[i] = Tensor(i, from)
  PROVE  WriteEach(cells, start, part) = Whole(from)
<1> DEFINE written == WriteEach(cells, start, part)
<1>1. Array(written, Total)
  <2>1. DOMAIN cells = 1 .. Total
    BY DEF Array
  <2> QED
    BY <2>1 DEF Array, WriteEach
<1>2. /\ Total \in Nat /\ Item \subseteq Nat
      /\ \A i \in Item : From(i) \in Nat /\ ItemSize(i) \in Nat /\ To(i) = From(i) + ItemSize(i)
  BY Geometry, JobTyped DEF LaidOut, To
<1>3. \A k \in 1 .. Total, i \in Item :
        Hits(start, part, i, k) <=> Covers(i, k)
  BY <1>2, TensorCells DEF Covers, Hits
<1>4. ASSUME NEW k \in 1 .. Total PROVE written[k] = CellAt(k, from)
  <2>1. k \in Nat
    BY <1>2
  <2>2. CASE \E i \in Item : Covers(i, k)
    <3>1. PICK i \in Item : Covers(i, k)
      BY <2>2
    <3>2. Hits(start, part, i, k)
      BY <1>3, <3>1
    <3>3. \A j \in Item : Hits(start, part, j, k) => j = i
      BY <1>3, <2>1, <3>1, Geometry
    <3>4. written[k] = part[i][k - start[i]]
      <4>1. k \in DOMAIN cells /\ Item \subseteq Nat
        BY <1>2 DEF Array
      <4> QED
        BY <3>2, <3>3, <4>1, WrittenOnce
    <3>5. PICK m \in 1 .. ItemSize(i) : m = k - From(i)
      BY <1>2, <2>1, <3>1 DEF Covers
    <3>6. part[i][m] = Cell(i, m, from)
      BY TensorCells
    <3> QED
      BY <2>1, <3>1, <3>4, <3>5, <3>6, CellOfItem
  <2>3. CASE \A i \in Item : ~Covers(i, k)
    <3>1. \A j \in Item : ~Hits(start, part, j, k)
      BY <1>3, <2>3
    <3>2. written[k] = cells[k]
      <4>1. k \in DOMAIN cells
        BY DEF Array
      <4> QED
        BY <3>1, <4>1, NotWritten
    <3> QED
      BY <2>1, <2>3, <3>2, CellOfNone
  <2> QED
    BY <2>2, <2>3
<1> QED
  BY <1>1, <1>4 DEF Array, Whole

\* The optimizer's sums.
LEMMA UpdatedTensor ==
  ASSUME NEW i \in Item, NEW a, NEW b
  PROVE  Update(Tensor(i, a), Tensor(i, b)) = Tensor(i, a \cup b)
BY DEF Update, Tensor, Cell

LEMMA UpdatedShare ==
  ASSUME LaidOut, NEW r \in Rank, NEW i \in Item, NEW a, NEW b
  PROVE  Update(ShareOf(r, i, a), ShareOf(r, i, b)) = ShareOf(r, i, a \cup b)
<1>1. CASE OwnFrom(r, i) < OwnTo(r, i)
  <2>1. PICK n, x : n = OwnTo(r, i) - OwnFrom(r, i) /\ x = OwnFrom(r, i) - From(i)
    OBVIOUS
  <2>2. /\ ShareOf(r, i, a) = [k \in 1 .. n |-> Cell(i, x + k, a)]
        /\ ShareOf(r, i, b) = [k \in 1 .. n |-> Cell(i, x + k, b)]
        /\ ShareOf(r, i, a \cup b) = [k \in 1 .. n |-> Cell(i, x + k, a \cup b)]
    BY <1>1, <2>1 DEF ShareOf
  <2>3. Update([k \in 1 .. n |-> Cell(i, x + k, a)], [k \in 1 .. n |-> Cell(i, x + k, b)])
          = [k \in 1 .. n |-> Cell(i, x + k, a \cup b)]
    BY DEF Update, Cell
  <2> QED
    BY <2>2, <2>3, Zenon
<1>2. CASE ~(OwnFrom(r, i) < OwnTo(r, i))
  BY <1>2 DEF Update, ShareOf
<1> QED
  BY <1>1, <1>2

----------------------------------------------------------------------------
(* The group of tensors stays the same, and all that depends on it alone.  *)

LEMMA SameJob ==
  ASSUME job' = job
  PROVE  /\ Rank' = Rank /\ Item' = Item /\ ThePlan' = ThePlan /\ Total' = Total
         /\ \A i : ItemSize(i)' = ItemSize(i)
         /\ \A buf : HasBuffer(buf)' = HasBuffer(buf)
         /\ \A buf : IsDataDistributed(buf)' = IsDataDistributed(buf)
         /\ \A buf : Extent(buf)' = Extent(buf)
         /\ \A i, from : Tensor(i, from)' = Tensor(i, from)
BY DEF Rank, Item, ThePlan, PlanOf, Total, Shard, HasBuffer, IsDataDistributed, Extent, Tensor, ItemSize

LEMMA SameCells ==
  ASSUME job' = job, NEW p, NEW from PROVE CellAt(p, from)' = CellAt(p, from)
<1>1. Item' = Item
  BY SameJob
<1>2. ASSUME NEW i PROVE Covers(i, p)' <=> Covers(i, p)
  BY SameJob DEF Covers, To, From
<1>3. ASSUME NEW i PROVE From(i)' = From(i)
  BY SameJob DEF From
<1> QED
  BY <1>1, <1>2, <1>3 DEF CellAt

LEMMA SameContents ==
  ASSUME job' = job, NEW r, NEW buf, NEW own, NEW rest
  PROVE  Contents(r, buf, own, rest)' = Contents(r, buf, own, rest)
<1>1. Extent(buf)' = Extent(buf)
  BY SameJob
<1>2. Offset(r, buf)' = Offset(r, buf)
  BY SameJob DEF Offset, ShardFrom, Shard
<1>3. ASSUME NEW p PROVE Own(r, p)' <=> Own(r, p)
  BY SameJob DEF Own, ShardFrom, ShardTo, Shard
<1>4. ASSUME NEW p, NEW from PROVE CellAt(p, from)' = CellAt(p, from)
  BY SameCells
<1> QED
  BY <1>1, <1>2, <1>3, <1>4 DEF Contents

----------------------------------------------------------------------------
(* The invariant: every buffer of every rank has the cells the layout puts *)
(* there, with the gradients that the rank's progress says have gone in.   *)

Steps == {"plan", "init", "gather", "reduce", "step", "install", "regather", "done"}

\* what has gone into the weights that the modules see, and into the main weights
ModelHas(step) ==
  IF step \in {"regather", "done"} \/ (step = "install" /\ ~HasBuffer("main")) THEN Rank ELSE {}
MainHas(step) == IF step \in {"install", "regather", "done"} THEN Rank ELSE {}
\* beyond the rank's own share, without sharding only
Rest(own, other) == IF job.strategy = "no_shard" THEN own ELSE other

Holds(r, step, layout, buffers, gathered, weights) ==
  /\ step # "plan" => ItemsAreValid(job.elements) /\ layout = ThePlan
  /\ step \notin {"plan", "init"} =>
       /\ HasBuffer("model") => buffers["model"] = Contents(r, "model", ModelHas(step), {})
       /\ HasBuffer("main") =>
            buffers["main"] = Contents(r, "main", MainHas(step), Rest(MainHas(step), {}))
       /\ Array(buffers["grad"], Extent("grad"))
  /\ step \in {"step", "install", "regather", "done"} =>
       buffers["grad"] = Contents(r, "grad", Rank, Rest(Rank, {r}))
  /\ ~HasBuffer("model") => weights = [i \in Item |-> Tensor(i, ModelHas(step))]
  /\ IsDataDistributed("model") =>
       /\ step \in {"reduce", "step", "install", "regather"} =>
            gathered = Whole({})
       /\ step = "done" => gathered = Whole(Rank)

RankInv(r) == Holds(r, pc[r], plan[r], data[r], bucket[r], param[r])

Types ==
  /\ job \in Jobs /\ raised \in {"none", "invalid"}
  /\ pc \in [Rank -> Steps]
  /\ plan = [r \in Rank |-> plan[r]]
  /\ data = [r \in Rank |-> [buf \in Buffers |-> data[r][buf]]]
  /\ bucket = [r \in Rank |-> bucket[r]]
  /\ param = [r \in Rank |-> param[r]]

Inv == Types /\ \A r \in Rank : RankInv(r)

LEMMA SameHolds ==
  ASSUME job' = job, NEW r, NEW step, NEW layout, NEW buffers, NEW gathered, NEW weights
  PROVE  Holds(r, step, layout, buffers, gathered, weights)' <=>
         Holds(r, step, layout, buffers, gathered, weights)
<1>1. /\ Rank' = Rank /\ Item' = Item /\ ThePlan' = ThePlan /\ Total' = Total
      /\ \A buf : HasBuffer(buf)' = HasBuffer(buf)
      /\ \A buf : IsDataDistributed(buf)' = IsDataDistributed(buf)
      /\ Extent("grad")' = Extent("grad")
  BY SameJob
<1>2. ASSUME NEW i, NEW from PROVE Tensor(i, from)' = Tensor(i, from)
  BY SameJob
<1>3. ASSUME NEW p, NEW from PROVE CellAt(p, from)' = CellAt(p, from)
  BY SameCells
<1>4. ASSUME NEW buf, NEW own, NEW rest
      PROVE  Contents(r, buf, own, rest)' = Contents(r, buf, own, rest)
  BY SameContents
<1>5. ASSUME NEW from PROVE Whole(from)' = Whole(from)
  BY <1>1, <1>3 DEF Whole
<1> QED
  BY <1>1, <1>2, <1>4, <1>5 DEF Holds, ModelHas, MainHas, Rest

\* after a step
LEMMA Lands ==
  ASSUME job' = job, NEW r, Holds(r, pc'[r], plan'[r], data'[r], bucket'[r], param'[r])
  PROVE  RankInv(r)'
<1>1. PICK step, layout, buffers, gathered, weights :
        /\ step = pc'[r] /\ layout = plan'[r] /\ buffers = data'[r]
        /\ gathered = bucket'[r] /\ weights = param'[r]
  OBVIOUS
<1>2. Holds(r, step, layout, buffers, gathered, weights)
  BY <1>1
<1>3. Holds(r, step, layout, buffers, gathered, weights)'
  BY <1>2, SameHolds
<1>4. RankInv(r)' <=> Holds(r, step, layout, buffers, gathered, weights)'
  BY <1>1 DEF RankInv
<1> QED
  BY <1>3, <1>4

----------------------------------------------------------------------------
(* What the actions write.                                                 *)

LEMMA DistributedOrNot ==
  ASSUME job \in Jobs, NEW buf \in Buffers
  PROVE  /\ job.strategy = "no_shard" => ~IsDataDistributed(buf)
         /\ IsDataDistributed("model") => HasBuffer("model") /\ job.strategy # "no_shard"
         /\ HasBuffer("model") <=> job.strategy # "no_shard"
         /\ HasBuffer("grad")
         /\ ~IsDataDistributed("main") => job.strategy = "no_shard" \/ job.ranks = 1
<1>1. /\ job.ranks \in Nat \ {0} /\ job.strategy \in Strategies
  BY JobTyped
<1>2. CASE buf = "model"
  BY <1>1, <1>2 DEF IsDataDistributed, HasBuffer, Strategies
<1>3. CASE buf = "main"
  BY <1>1, <1>3 DEF IsDataDistributed, HasBuffer, Strategies
<1>4. CASE buf = "grad"
  BY <1>1, <1>4 DEF IsDataDistributed, HasBuffer, Strategies
<1> QED
  BY <1>2, <1>3, <1>4 DEF Buffers

\* every item written to a new buffer
LEMMA Filled ==
  ASSUME LaidOut, NEW r \in Rank, plan[r] = ThePlan, NEW buf
  PROVE  WriteEach([k \in 1 .. DataSize(r, buf) |-> Empty],
                   [i \in Item |-> GetItemLocalIndex(r, buf, i)[1]],
                   [i \in Item |-> SetItem(r, buf, i, Tensor(i, {}))]) = Contents(r, buf, {}, {})
<1> DEFINE cells == [k \in 1 .. DataSize(r, buf) |-> Empty]
           start == [i \in Item |-> GetItemLocalIndex(r, buf, i)[1]]
           part == [i \in Item |-> SetItem(r, buf, i, Tensor(i, {}))]
<1>1. DataSize(r, buf) = Extent(buf)
  BY DEF DataSize, BucketSize, Extent, Shard, Total
<1>2. Array(cells, Extent(buf)) /\ \A k \in 1 .. Extent(buf) : cells[k] = Empty
  BY <1>1 DEF Array
<1>3. Offset(r, buf) \in Nat /\ Extent(buf) \in Nat
  BY Extents
<1>4. CASE IsDataDistributed(buf)
  <2>1. \A i \in Item : start[i] = GetItemLocalShardIndex(r, buf, i)[1]
    BY <1>4 DEF GetItemLocalIndex
  <2>2. \A i \in Item : part[i] = ShareOf(r, i, {})
    BY <1>4, SliceOfTensor DEF SetItem
  <2>3. Beside(r, buf, cells, Contents(r, buf, {}, {}))
    <3>1. ASSUME NEW k \in 1 .. Extent(buf), \A i \in Item : ~Covers(i, Offset(r, buf) + k)
          PROVE  Contents(r, buf, {}, {})[k] = Empty
      BY <3>1, CellOfNone DEF Contents
    <3>2. \A k \in 1 .. Extent(buf) : Own(r, Offset(r, buf) + k)
      BY <1>4, Extents
    <3> HIDE DEF cells
    <3> QED
      BY <1>2, <3>1, <3>2 DEF Beside
  <2> HIDE DEF cells, start, part
  <2>4. WriteEach(cells, start, part) = Contents(r, buf, {}, {})
    BY <1>2, <2>1, <2>2, <2>3, WriteShares
  <2> QED
    BY <2>4 DEF cells, start, part
<1>5. CASE ~IsDataDistributed(buf)
  <2>1. Extent(buf) = Total
    BY <1>5 DEF Extent
  <2>2. \A i \in Item : start[i] = From(i) /\ part[i] = Tensor(i, {})
    BY <1>5 DEF GetItemLocalIndex, SetItem, From
  <2> HIDE DEF cells, start, part
  <2>3. WriteEach(cells, start, part) = Whole({})
    BY <1>2, <2>1, <2>2, WriteTensors
  <2>4. Contents(r, buf, {}, {}) = Whole({})
    BY <1>5, WholeContents DEF Array, Whole
  <2> QED
    BY <2>3, <2>4 DEF cells, start, part
<1> QED
  BY <1>4, <1>5

\* a rank's gradients in a bucket
LEMMA Contributed ==
  ASSUME LaidOut, NEW r \in Rank, plan[r] = ThePlan
  PROVE  WriteEach([k \in 1 .. BucketSize(r) |-> Empty], plan[r].start,
                   [i \in Item |-> Tensor(i, {r})]) = Whole({r})
<1> DEFINE cells == [k \in 1 .. BucketSize(r) |-> Empty]
           part == [i \in Item |-> Tensor(i, {r})]
<1>1. BucketSize(r) = Total
  BY DEF BucketSize, Total, Shard
<1>2. Array(cells, Total) /\ \A k \in 1 .. Total : cells[k] = Empty
  BY <1>1 DEF Array
<1>3. \A i \in Item : part[i] = Tensor(i, {r})
  OBVIOUS
<1>4. \A i \in Item : plan[r].start[i] = From(i)
  BY DEF From
<1> HIDE DEF cells, part
<1>5. WriteEach(cells, plan[r].start, part) = Whole({r})
  BY <1>2, <1>3, <1>4, WriteTensors
<1> QED
  BY <1>5 DEF cells, part

Having(cell, from) == [cell EXCEPT !.from = from]

LEMMA WithGradients ==
  ASSUME NEW i, NEW k, NEW a, NEW b PROVE Having(Cell(i, k, a), b) = Cell(i, k, b)
BY DEF Cell, Having

\* the sum of all ranks' cells at a place
LEMMA SumOfCells ==
  ASSUME LaidOut, NEW p \in Nat, NEW cells,
         \A c \in cells : \E r \in Rank : c = CellAt(p, {r}), \A r \in Rank : CellAt(p, {r}) \in cells
  PROVE  (IF \A c, d \in cells : c.item = d.item /\ c.pos = d.pos
          THEN Having(CHOOSE c \in cells : TRUE, UNION {c.from : c \in cells})
          ELSE Empty) = CellAt(p, Rank)
<1> DEFINE first == CHOOSE c \in cells : TRUE
           all == UNION {c.from : c \in cells}
<1>1. 0 \in Rank
  BY JobTyped DEF LaidOut
<1>2. first \in cells
  BY <1>1
<1>3. CASE \E i \in Item : Covers(i, p)
  <2>1. PICK i \in Item : Covers(i, p)
    BY <1>3
  <2>2. \A from : CellAt(p, from) = Cell(i, p - From(i), from)
    BY <2>1, CellOfItem
  <2>3. /\ \A c \in cells : \E r \in Rank : c = Cell(i, p - From(i), {r})
        /\ \A r \in Rank : Cell(i, p - From(i), {r}) \in cells
    BY <2>2
  <2>4. \A c, d \in cells : c.item = d.item /\ c.pos = d.pos
    BY <2>3 DEF Cell
  <2>5. all = Rank
    <3>1. \A c \in cells : \E r \in Rank : c.from = {r}
      BY <2>3 DEF Cell
    <3>2. ASSUME NEW r \in Rank PROVE \E c \in cells : c.from = {r}
      <4>1. Cell(i, p - From(i), {r}) \in cells
        BY <2>3
      <4> QED
        BY <4>1 DEF Cell
    <3>3. all \subseteq Rank
      BY <3>1
    <3>4. Rank \subseteq all
      BY <3>2
    <3> QED
      BY <3>3, <3>4
  <2> HIDE DEF first, all
  <2>6. PICK r \in Rank : first = Cell(i, p - From(i), {r})
    BY <1>2, <2>3
  <2>7. Having(first, all) = Cell(i, p - From(i), Rank)
    BY <2>5, <2>6, WithGradients
  <2> QED
    BY <2>2, <2>4, <2>7 DEF first, all
<1>4. CASE \A i \in Item : ~Covers(i, p)
  <2>1. \A from : CellAt(p, from) = Empty
    BY <1>4, CellOfNone
  <2>2. cells = {Empty}
    <3>1. cells \subseteq {Empty}
      BY <2>1
    <3>2. CellAt(p, {0}) \in cells /\ CellAt(p, {0}) = Empty
      BY <1>1, <2>1
    <3> QED
      BY <3>1, <3>2
  <2>3. \A c, d \in cells : c.item = d.item /\ c.pos = d.pos
    BY <2>2
  <2>4. all = {}
    BY <2>2 DEF Empty
  <2>5. first = Empty
    BY <1>2, <2>2
  <2> HIDE DEF first, all
  <2>6. Having(first, all) = Empty
    BY <2>4, <2>5, WithGradients DEF Empty, Cell
  <2> QED
    BY <2>1, <2>3, <2>6 DEF first, all
<1> QED
  BY <1>3, <1>4

\* a rank's shard of a bucket
LEMMA ShardOfBucket ==
  ASSUME LaidOut, NEW r \in Rank, plan[r] = ThePlan, NEW from
  PROVE  /\ Array(GetShardFromBucket(r, Whole(from)), Shard)
         /\ Len(GetShardFromBucket(r, Whole(from))) = Shard
         /\ \A k \in 1 .. Shard :
              GetShardFromBucket(r, Whole(from))[k] = CellAt(ShardFrom(r) + k, from)
<1> DEFINE s == Whole(from)
           part == GetShardFromBucket(r, Whole(from))
<1>1. PICK lo \in Nat, hi \in Nat : lo = ShardFrom(r) /\ hi = ShardTo(r)
                                    /\ lo <= hi /\ hi <= Total
  BY ShardBounds, Geometry
<1>2. Array(s, Total) /\ \A k \in 1 .. Total : s[k] = CellAt(k, from)
  BY DEF Whole, Array
<1>3. Total \in Nat /\ Shard \in Nat /\ hi - lo = Shard
  BY <1>1, ShardBounds, Geometry
<1>4. part = Slice(s, lo, hi)
  BY <1>1 DEF GetShardFromBucket, ShardFrom, ShardTo, Shard
<1> HIDE DEF s, part
<1>5. Array(part, hi - lo)
  BY <1>1, <1>2, <1>3, <1>4, Sliced
<1>6. \A k \in 1 .. hi - lo : part[k] = s[lo + k]
  <2>1. \A k \in 1 .. hi - lo : Slice(s, lo, hi)[k] = s[lo + k]
    <3>1. Total \in Nat /\ lo <= hi /\ hi <= Total /\ Array(s, Total)
      BY <1>1, <1>2, <1>3
    <3> QED
      BY <3>1, Sliced
  <2> QED
    BY <1>4, <2>1
<1>7. Array(part, Shard)
  BY <1>3, <1>5
<1>8. Len(part) = Shard
  BY <1>3, <1>7, LengthOf
<1>9. \A k \in 1 .. Shard : lo + k \in 1 .. Total
  BY <1>1, <1>3
<1>10. \A k \in 1 .. Shard : part[k] = CellAt(ShardFrom(r) + k, from)
  BY <1>1, <1>2, <1>3, <1>6, <1>9
<1> QED
  BY <1>7, <1>8, <1>10 DEF part

\* what a rank keeps of the sum in its gradient buffer
KeptOf(r, sum, contribution) ==
  IF job.strategy = "no_shard" THEN sum
  ELSE IF IsDataDistributed("grad") THEN GetShardFromBucket(r, sum)
  ELSE Write(contribution, ShardStart(r, "grad"), GetShardFromBucket(r, sum))

LEMMA Kept ==
  ASSUME LaidOut, NEW r \in Rank, plan[r] = ThePlan
  PROVE  KeptOf(r, Whole(Rank), Whole({r})) = Contents(r, "grad", Rank, Rest(Rank, {r}))
<1> DEFINE shard == GetShardFromBucket(r, Whole(Rank))
<1>1. /\ Array(shard, Shard) /\ Len(shard) = Shard
      /\ \A k \in 1 .. Shard : shard[k] = CellAt(ShardFrom(r) + k, Rank)
  BY ShardOfBucket
<1>2. /\ Shard \in Nat /\ Total \in Nat /\ ShardFrom(r) \in Nat
      /\ ShardTo(r) = ShardFrom(r) + Shard /\ ShardTo(r) <= Total
  BY ShardBounds, Geometry
<1>3. CASE job.strategy = "no_shard"
  <2>1. ~IsDataDistributed("grad")
    BY <1>3 DEF IsDataDistributed
  <2>2. Contents(r, "grad", Rank, Rank) = Whole(Rank)
    BY <2>1, WholeContents DEF Array, Whole
  <2> QED
    BY <1>3, <2>2 DEF KeptOf, Rest
<1>4. CASE job.strategy # "no_shard" /\ IsDataDistributed("grad")
  <2> DEFINE wanted == Contents(r, "grad", Rank, {r})
  <2>1. Array(wanted, Shard)
    BY <1>4 DEF Contents, Extent, Array
  <2>2. ASSUME NEW k \in 1 .. Shard PROVE shard[k] = wanted[k]
    <3>1. Own(r, ShardFrom(r) + k)
      BY <1>2 DEF Own
    <3> QED
      BY <1>1, <1>4, <3>1 DEF Contents, Extent, Offset
  <2> HIDE DEF shard, wanted
  <2>3. shard = wanted
    BY <1>1, <2>1, <2>2, SameArray
  <2> QED
    BY <1>4, <2>3 DEF KeptOf, Rest, shard, wanted
<1>5. CASE job.strategy # "no_shard" /\ ~IsDataDistributed("grad")
  <2> DEFINE wanted == Contents(r, "grad", Rank, {r})
             written == Write(Whole({r}), ShardFrom(r), shard)
  <2>1. Array(wanted, Total) /\ Array(written, Total)
    BY <1>5 DEF Contents, Extent, Array, Write, Whole
  <2>2. ASSUME NEW k \in 1 .. Total PROVE written[k] = wanted[k]
    <3>1. wanted[k] = CellAt(k, IF Own(r, k) THEN Rank ELSE {r})
      <4>1. 0 + k = k
        BY <1>2
      <4> QED
        BY <1>5, <4>1 DEF Contents, Offset, Extent
    <3>2. written[k] = IF k > ShardFrom(r) /\ k <= ShardFrom(r) + Len(shard)
                       THEN shard[k - ShardFrom(r)] ELSE CellAt(k, {r})
      BY DEF Write, Whole
    <3>3. CASE Own(r, k)
      <4>1. k - ShardFrom(r) \in 1 .. Shard /\ ShardFrom(r) + (k - ShardFrom(r)) = k
            /\ k > ShardFrom(r) /\ k <= ShardFrom(r) + Len(shard)
        BY <1>1, <1>2, <3>3 DEF Own
      <4>2. shard[k - ShardFrom(r)] = CellAt(k, Rank)
        BY <1>1, <4>1
      <4> QED
        BY <3>1, <3>2, <3>3, <4>1, <4>2
    <3>4. CASE ~Own(r, k)
      <4>1. ~(k > ShardFrom(r) /\ k <= ShardFrom(r) + Len(shard))
        BY <1>1, <1>2, <3>4 DEF Own
      <4> QED
        BY <3>1, <3>2, <3>4, <4>1
    <3> QED
      BY <3>3, <3>4
  <2> HIDE DEF written, wanted
  <2>3. written = wanted
    BY <2>1, <2>2, SameArray
  <2>4. ShardStart(r, "grad") = ShardFrom(r)
    BY <1>5 DEF ShardStart, ShardFrom, Shard
  <2> QED
    BY <1>5, <2>3, <2>4 DEF KeptOf, Rest, written, wanted
<1> QED
  BY <1>3, <1>4, <1>5

LEMMA DivMod ==
  ASSUME NEW n \in Nat, NEW d \in Nat \ {0}
  PROVE  \E q \in Nat, m \in 0 .. d - 1 : q = n \div d /\ m = n % d /\ n = q * d + m
<1>1. n \div d \in Nat /\ n % d \in 0 .. d - 1
  OBVIOUS
<1>2. n % d = n - (n \div d) * d
  OBVIOUS
<1>3. PICK q \in Nat, m \in 0 .. d - 1 : q = n \div d /\ m = n % d
  BY <1>1
<1>4. m = n - q * d
  BY <1>2, <1>3
<1>5. PICK x \in Nat : x = q * d
  OBVIOUS
<1>6. n = x + m
  BY <1>4, <1>5
<1> QED
  BY <1>3, <1>5, <1>6

\* the shards of all ranks, one after the other
LEMMA Gathered ==
  ASSUME LaidOut, IsDataDistributed("model"), NEW own, NEW rest,
         \A q \in Rank : plan[q] = ThePlan /\ data[q]["model"] = Contents(q, "model", own, rest)
  PROVE  [k \in 1 .. BucketSize(0) |->
            GetShardFromLocalBuffer((k - 1) \div plan[0].shard_size, "model")
              [((k - 1) % plan[0].shard_size) + 1]] = Whole(own)
<1>1. Shard \in Nat /\ Total \in Nat /\ job.ranks \in Nat /\ Total = job.ranks * Shard
  BY Geometry, JobTyped DEF LaidOut, Total
<1>2. 0 \in Rank /\ plan[0] = ThePlan
  BY JobTyped DEF LaidOut
<1>3. BucketSize(0) = Total /\ plan[0].shard_size = Shard
  BY <1>2 DEF BucketSize, Total, Shard
<1>4. ASSUME NEW q \in Rank, NEW m \in 1 .. Shard
      PROVE  GetShardFromLocalBuffer(q, "model")[m] = CellAt(ShardFrom(q) + m, own)
  <2> DEFINE s == Contents(q, "model", own, rest)
             part == Slice(s, 0, Shard)
  <2>1. GetShardFromLocalBuffer(q, "model") = part
    BY <1>1 DEF GetShardFromLocalBuffer, ShardStart, Shard
  <2>2. Array(s, Shard) /\ s[m] = CellAt(ShardFrom(q) + m, own)
    <3>1. Own(q, ShardFrom(q) + m)
      BY <1>1, ShardBounds DEF Own
    <3> QED
      BY <3>1 DEF Contents, Array, Extent, Offset
  <2> HIDE DEF s
  <2>3. PICK lo \in Nat : lo = 0 /\ lo <= Shard
    BY <1>1
  <2>4. \A k \in 1 .. Shard - lo : Slice(s, lo, Shard)[k] = s[lo + k]
    <3>1. Shard \in Nat /\ Shard <= Shard /\ Array(s, Shard)
      BY <1>1, <2>2
    <3> QED
      BY <2>3, <3>1, Sliced
  <2>5. part[m] = s[m]
    BY <1>1, <2>3, <2>4
  <2> QED
    BY <2>1, <2>2, <2>5
<1>5. ASSUME NEW k \in 1 .. Total
      PROVE  GetShardFromLocalBuffer((k - 1) \div Shard, "model")[((k - 1) % Shard) + 1]
               = CellAt(k, own)
  <2>1. Shard # 0 /\ k - 1 \in Nat
    BY <1>1
  <2>2. PICK q \in Nat, m \in 0 .. Shard - 1 :
          q = (k - 1) \div Shard /\ m = (k - 1) % Shard /\ k - 1 = q * Shard + m
    BY <1>1, <2>1, DivMod
  <2>3. q \in Rank
    <3>1. q * Shard < job.ranks * Shard
      <4>1. q * Shard \in Nat /\ q * Shard <= k - 1 /\ k - 1 < Total
        BY <1>1, <2>1, <2>2
      <4> QED
        BY <1>1, <4>1
    <3>2. CASE q >= job.ranks
      <4>1. PICK d \in Nat : q = job.ranks + d
        <5>1. q - job.ranks \in Nat /\ q = job.ranks + (q - job.ranks)
          BY <1>1, <3>2
        <5> QED
          BY <5>1
      <4>2. q * Shard = job.ranks * Shard + d * Shard /\ d * Shard \in Nat
        BY <1>1, <4>1
      <4> QED
        BY <1>1, <3>1, <4>2
    <3> QED
      BY <1>1, <3>2 DEF Rank
  <2>4. ShardFrom(q) + (m + 1) = k /\ m + 1 \in 1 .. Shard
    BY <1>1, <2>2 DEF ShardFrom
  <2> QED
    BY <1>4, <2>2, <2>3, <2>4
<1> QED
  BY <1>3, <1>5 DEF Whole

\* the size of what is read of an item
LEMMA ReadLength ==
  ASSUME LaidOut, NEW r \in Rank, plan[r] = ThePlan, NEW i \in Item, NEW buf,
         Array(data[r][buf], Extent(buf))
  PROVE  Len(GetItem(r, buf, i, TRUE)) = LocalSize(From(i), ItemSize(i), Shard, r)
<1> DEFINE s == data[r][buf]
           index == GetItemLocalShardIndex(r, buf, i)
<1>1. GetItem(r, buf, i, TRUE) = Slice(s, index[1], index[2])
  BY DEF GetItem, ItemIndex
<1>2. Offset(r, buf) \in Nat /\ Extent(buf) \in Nat
  BY Extents
<1>3. OwnFrom(r, i) \in Nat /\ OwnTo(r, i) \in Nat
  BY ShareBounds
<1>4. LocalSize(From(i), ItemSize(i), Shard, r) = Larger(0, OwnTo(r, i) - OwnFrom(r, i))
  BY DEF LocalSize, OwnTo, OwnFrom, To, ShardTo, ShardFrom
<1>5. CASE OwnFrom(r, i) < OwnTo(r, i)
  <2>1. PICK lo \in Nat, hi \in Nat :
            /\ lo = OwnFrom(r, i) - Offset(r, buf) /\ hi = OwnTo(r, i) - Offset(r, buf)
            /\ lo <= hi /\ hi <= Extent(buf)
    BY <1>2, <1>5, ShareBounds, Extents, ShardBounds, Geometry
  <2>2. index[1] = lo /\ index[2] = hi
    BY <1>5, <2>1, SliceInShard
  <2> HIDE DEF s, index
  <2>3. Array(s, Extent(buf))
    BY DEF s
  <2>4. Array(Slice(s, lo, hi), hi - lo)
    BY <1>2, <2>1, <2>3, Sliced
  <2>5. hi - lo \in Nat
    BY <2>1
  <2>6. Len(Slice(s, lo, hi)) = hi - lo
    BY <2>4, <2>5, LengthOf
  <2>7. Len(GetItem(r, buf, i, TRUE)) = hi - lo
    BY <1>1, <2>2, <2>6
  <2>8. hi - lo = Larger(0, OwnTo(r, i) - OwnFrom(r, i))
    BY <1>2, <1>3, <1>5, <2>1 DEF Larger
  <2> QED
    BY <1>4, <2>7, <2>8
<1>6. CASE ~(OwnFrom(r, i) < OwnTo(r, i))
  <2>1. index[1] = 0 /\ index[2] = 0
    BY <1>6, SliceInShard
  <2>2. Array(s, Extent(buf)) /\ 0 \in 0 .. Extent(buf)
    BY <1>2
  <2> HIDE DEF s, index
  <2>3. Slice(s, 0, 0) = << >>
    BY <1>2, <2>2, NoSlice
  <2>4. Len(Slice(s, 0, 0)) = 0
    BY <2>3
  <2>5. Len(GetItem(r, buf, i, TRUE)) = 0
    BY <1>1, <2>1, <2>4
  <2>6. Larger(0, OwnTo(r, i) - OwnFrom(r, i)) = 0
    BY <1>3, <1>6 DEF Larger
  <2> QED
    BY <1>4, <2>5, <2>6
<1> QED
  BY <1>5, <1>6

----------------------------------------------------------------------------
(* The steps of the ranks.                                                 *)

\* A rank that has a layout has the one that is sound.
LEMMA Layouts ==
  ASSUME PlansSound, Inv, NEW r \in Rank, pc[r] # "plan"
  PROVE  LaidOut /\ plan[r] = ThePlan
BY DEF Inv, Types, RankInv, Holds, LaidOut

Cased(buffers) == buffers = [buf \in Buffers |-> buffers[buf]]
Put(f, r, value) == [f EXCEPT ![r] = value]

\* A step of one rank: what has to hold of it, and that the others are as before.
LEMMA RankStep ==
  ASSUME Inv, NEW r \in Rank, NEW step \in Steps, NEW layout, NEW buffers, NEW weights,
         UNCHANGED <<job, raised, bucket>>, pc' = Put(pc, r, step), plan' = Put(plan, r, layout),
         data' = Put(data, r, buffers), Cased(buffers), param' = Put(param, r, weights),
         Holds(r, step, layout, buffers, bucket[r], weights)
  PROVE  Inv'
<1>1. /\ job \in Jobs /\ raised \in {"none", "invalid"} /\ pc \in [Rank -> Steps]
      /\ plan = [q \in Rank |-> plan[q]]
      /\ data = [q \in Rank |-> [buf \in Buffers |-> data[q][buf]]]
      /\ bucket = [q \in Rank |-> bucket[q]]
      /\ param = [q \in Rank |-> param[q]]
  BY DEF Inv, Types
<1>2. Rank' = Rank
  BY SameJob
<1>3. /\ pc' = [q \in Rank |-> IF q = r THEN step ELSE pc[q]]
      /\ plan' = [q \in Rank |-> IF q = r THEN layout ELSE plan[q]]
      /\ param' = [q \in Rank |-> IF q = r THEN weights ELSE param[q]]
      /\ bucket' = bucket
  BY <1>1 DEF Put
<1>4. data' = [q \in Rank |-> IF q = r THEN buffers ELSE data[q]]
  BY <1>1 DEF Put
<1>5. Types'
  <2>1. job' \in Jobs /\ raised' \in {"none", "invalid"}
    BY <1>1
  <2>2. pc' \in [Rank -> Steps]
    BY <1>1, <1>3
  <2>3. plan' = [q \in Rank |-> plan'[q]] /\ param' = [q \in Rank |-> param'[q]]
    BY <1>3
  <2>4. data' = [q \in Rank |-> [buf \in Buffers |-> data'[q][buf]]]
    <3>1. ASSUME NEW q \in Rank PROVE data'[q] = [buf \in Buffers |-> data'[q][buf]]
      <4>1. CASE q = r
        BY <1>4, <4>1 DEF Cased
      <4>2. CASE q # r
        BY <1>1, <1>4, <4>2
      <4> QED
        BY <4>1, <4>2
    <3>2. data' = [q \in Rank |-> data'[q]]
      BY <1>4
    <3> QED
      BY <3>1, <3>2
  <2>5. bucket' = [q \in Rank |-> bucket'[q]]
    BY <1>1, <1>3
  <2> QED
    BY <1>2, <2>1, <2>2, <2>3, <2>4, <2>5 DEF Types
<1>6. ASSUME NEW q \in Rank PROVE Holds(q, pc'[q], plan'[q], data'[q], bucket'[q], param'[q])
  <2>1. CASE q = r
    BY <1>3, <1>4, <2>1
  <2>2. CASE q # r
    <3>1. Holds(q, pc[q], plan[q], data[q], bucket[q], param[q])
      BY DEF Inv, RankInv
    <3> QED
      BY <1>3, <1>4, <2>2, <3>1
  <2> QED
    BY <2>1, <2>2
<1>7. \A q \in Rank : RankInv(q)'
  BY <1>6, Lands
<1> QED
  BY <1>2, <1>5, <1>7 DEF Inv

\* An exception leaves everything else as it is.
LEMMA Raised ==
  ASSUME Inv, UNCHANGED <<job, pc, plan, data, bucket, param>>, raised' \in {"none", "invalid"}
  PROVE  Inv'
<1>1. Rank' = Rank
  BY SameJob
<1>2. Types'
  BY <1>1 DEF Inv, Types
<1>3. ASSUME NEW r \in Rank PROVE Holds(r, pc'[r], plan'[r], data'[r], bucket'[r], param'[r])
  BY DEF Inv, RankInv
<1>4. \A r \in Rank : RankInv(r)'
  BY <1>3, Lands
<1> QED
  BY <1>1, <1>2, <1>4 DEF Inv

LEMMA Itself ==
  ASSUME Inv, NEW r \in Rank
  PROVE  /\ pc[r] \in Steps /\ Holds(r, pc[r], plan[r], data[r], bucket[r], param[r])
         /\ plan = Put(plan, r, plan[r]) /\ data = Put(data, r, data[r])
         /\ param = Put(param, r, param[r]) /\ Cased(data[r])
BY DEF Inv, Types, RankInv, Put, Cased

LEMMA PlanStep ==
  ASSUME PlansSound, Inv, NEW r \in Rank, Plan(r) PROVE Inv'
<1>1. CASE ~ItemsAreValid(job.elements)
  BY <1>1, Raised DEF Plan, Raise
<1>2. CASE ItemsAreValid(job.elements)
  <2>1. LaidOut
    BY <1>2 DEF LaidOut, Inv, Types
  <2>2. LocalUnitsAreWhole(job.elements, ThePlan, job.ranks)
    BY <2>1 DEF LaidOut, PlansSound, ThePlan
  <2>3. /\ plan' = Put(plan, r, ThePlan) /\ pc' = Put(pc, r, "init")
        /\ UNCHANGED <<job, raised, data, bucket, param>> /\ pc[r] = "plan"
    BY <1>2, <2>2 DEF Plan, At, Goto, ThePlan, PlanOf, Put
  <2>4. Holds(r, "init", ThePlan, data[r], bucket[r], param[r])
    BY <1>2, <2>3, Itself DEF Holds, ModelHas
  <2>5. "init" \in Steps
    BY DEF Steps
  <2> QED
    BY <2>3, <2>4, <2>5, Itself, RankStep
<1> QED
  BY <1>1, <1>2

LEMMA KeepStep ==
  ASSUME Inv, NEW r \in Rank, NEW step, NEW next,
         <<step, next>> \in {<<"gather", "reduce">>, <<"regather", "done">>},
         KeepParams(r, step, next)
  PROVE  Inv'
<1>1. /\ pc[r] = step /\ pc' = Put(pc, r, next) /\ ~IsDataDistributed("model")
      /\ UNCHANGED <<job, raised, plan, data, bucket, param>>
  BY DEF KeepParams, At, Goto, Put
<1>2. next \in Steps
  BY DEF Steps
<1>3. Holds(r, next, plan[r], data[r], bucket[r], param[r])
  <2>1. Holds(r, step, plan[r], data[r], bucket[r], param[r])
    BY <1>1, Itself
  <2>2. CASE step = "gather" /\ next = "reduce"
    BY <1>1, <2>1, <2>2 DEF Holds, ModelHas, MainHas
  <2>3. CASE step = "regather" /\ next = "done"
    BY <1>1, <2>1, <2>3 DEF Holds, ModelHas, MainHas
  <2> QED
    BY <2>2, <2>3
<1> QED
  BY <1>1, <1>2, <1>3, Itself, RankStep

LEMMA InitStep ==
  ASSUME PlansSound, Inv, NEW r \in Rank, InitBuffers(r) PROVE Inv'
<1>1. pc[r] = "init"
  BY DEF InitBuffers, At
<1>2. LaidOut /\ plan[r] = ThePlan
  BY <1>1, Layouts
<1>3. job \in Jobs
  BY DEF Inv, Types
<1> DEFINE whole == [k \in 1 .. BucketSize(r) |-> Empty]
           Blank(buf) == [k \in 1 .. DataSize(r, buf) |-> Empty]
           Filling(buf) == WriteEach(Blank(buf), [i \in Item |-> GetItemLocalIndex(r, buf, i)[1]],
                                     [i \in Item |-> SetItem(r, buf, i, Tensor(i, {}))])
           buffers == [buf \in Buffers |->
                         IF ~HasBuffer(buf) THEN <<>> ELSE IF buf = "grad" THEN Blank(buf) ELSE Filling(buf)]
<1>4. ASSUME NEW i \in Item PROVE Len(GetItemFromBucket(r, whole, i)) = ItemSize(i)
  <2>1. /\ Total \in Nat /\ From(i) \in Nat /\ ItemSize(i) \in Nat /\ To(i) = From(i) + ItemSize(i)
        /\ To(i) \in Nat /\ To(i) <= Total
    BY <1>2, Geometry DEF To
  <2>2. PICK lo \in Nat, hi \in Nat : lo = From(i) /\ hi = From(i) + ItemSize(i)
                                      /\ lo <= hi /\ hi <= Total
    BY <2>1
  <2>3. Array(whole, Total)
    BY <1>2 DEF BucketSize, Total, Shard, Array
  <2>4. GetItemFromBucket(r, whole, i) = Slice(whole, lo, hi)
    BY <1>2, <2>2 DEF GetItemFromBucket, From
  <2> HIDE DEF whole
  <2>5. Array(Slice(whole, lo, hi), hi - lo)
    BY <2>1, <2>2, <2>3, Sliced
  <2>6. hi - lo \in Nat /\ hi - lo = ItemSize(i)
    BY <2>1, <2>2
  <2>7. Len(Slice(whole, lo, hi)) = hi - lo
    BY <2>5, <2>6, LengthOf
  <2> QED
    BY <2>4, <2>6, <2>7
<1>5. /\ data' = Put(data, r, buffers) /\ pc' = Put(pc, r, "gather")
      /\ UNCHANGED <<job, raised, plan, bucket, param>>
  BY <1>4 DEF InitBuffers, Goto, Put
<1>6. ASSUME NEW buf \in {"model", "main"}, HasBuffer(buf)
      PROVE  buffers[buf] = Contents(r, buf, {}, {})
  <2>1. Filling(buf) = Contents(r, buf, {}, {})
    BY <1>2, Filled
  <2>2. buffers[buf] = Filling(buf)
    BY <1>6 DEF Buffers
  <2> QED
    BY <2>1, <2>2
<1>7. Array(buffers["grad"], Extent("grad"))
  <2>1. buffers["grad"] = Blank("grad")
    BY <1>3, DistributedOrNot DEF Buffers
  <2>2. DataSize(r, "grad") = Extent("grad")
    BY <1>2 DEF DataSize, BucketSize, Extent, Shard, Total
  <2> QED
    BY <2>1, <2>2 DEF Array
<1>8. Cased(buffers)
  BY DEF Cased
<1> HIDE DEF buffers
<1>9. Holds(r, "gather", plan[r], buffers, bucket[r], param[r])
  <2>1. Holds(r, "init", plan[r], data[r], bucket[r], param[r])
    BY <1>1, Itself
  <2>2. ModelHas("init") = {} /\ ModelHas("gather") = {} /\ MainHas("gather") = {}
    BY DEF ModelHas, MainHas
  <2>3. Rest({}, {}) = {}
    BY DEF Rest
  <2> QED
    BY <1>6, <1>7, <2>1, <2>2, <2>3 DEF Holds
<1>10. "gather" \in Steps
  BY DEF Steps
<1> QED
  BY <1>5, <1>8, <1>9, <1>10, Itself, RankStep

\* A step of all ranks.
LEMMA AllStep ==
  ASSUME Inv, NEW step \in Steps, UNCHANGED <<job, raised, plan, param>>,
         pc' = [r \in Rank |-> step],
         data' = [r \in Rank |-> [buf \in Buffers |-> data'[r][buf]]],
         bucket' = [r \in Rank |-> bucket'[r]],
         \A r \in Rank : Holds(r, step, plan[r], data'[r], bucket'[r], param[r])
  PROVE  Inv'
<1>1. Rank' = Rank
  BY SameJob
<1>2. Types'
  BY <1>1 DEF Inv, Types
<1>3. ASSUME NEW r \in Rank PROVE Holds(r, pc'[r], plan'[r], data'[r], bucket'[r], param'[r])
  <2>1. pc'[r] = step
    OBVIOUS
  <2> QED
    BY <2>1
<1>4. \A r \in Rank : RankInv(r)'
  BY <1>3, Lands
<1> QED
  BY <1>1, <1>2, <1>4 DEF Inv

LEMMA GatherStep ==
  ASSUME PlansSound, Inv, NEW step, NEW next,
         <<step, next>> \in {<<"gather", "reduce">>, <<"regather", "done">>},
         GatherParams(step, next)
  PROVE  Inv'
<1> DEFINE size == plan[0].shard_size
           gathered == [k \in 1 .. BucketSize(0) |->
                          GetShardFromLocalBuffer((k - 1) \div size, "model")[((k - 1) % size) + 1]]
<1>1. /\ IsDataDistributed("model") /\ \A r \in Rank : pc[r] = step
      /\ bucket' = [r \in Rank |-> gathered] /\ pc' = [r \in Rank |-> next]
      /\ UNCHANGED <<job, raised, plan, data, param>>
  BY DEF GatherParams, At
<1>2. step \in {"gather", "regather"} /\ next \in Steps
  BY DEF Steps
<1>3. \A r \in Rank : Holds(r, step, plan[r], data[r], bucket[r], param[r])
  BY <1>1, Itself
<1>4. job \in Jobs /\ 0 \in Rank
  BY JobTyped DEF Inv, Types
<1>5. LaidOut /\ \A r \in Rank : plan[r] = ThePlan
  BY <1>1, <1>2, <1>4, Layouts
<1>6. HasBuffer("model")
  BY <1>1, <1>4, DistributedOrNot DEF Buffers
<1>7. \A r \in Rank : data[r]["model"] = Contents(r, "model", ModelHas(step), {})
  BY <1>2, <1>3, <1>6 DEF Holds
<1>8. gathered = Whole(ModelHas(step))
  BY <1>1, <1>5, <1>7, Gathered
<1> HIDE DEF gathered
<1>9. ASSUME NEW r \in Rank PROVE Holds(r, next, plan[r], data'[r], bucket'[r], param[r])
  <2>1. Holds(r, step, plan[r], data[r], bucket[r], param[r])
    BY <1>3
  <2>2. bucket'[r] = Whole(ModelHas(step)) /\ data'[r] = data[r]
    BY <1>1, <1>8
  <2>3. CASE step = "gather" /\ next = "reduce"
    BY <2>1, <2>2, <2>3 DEF Holds, ModelHas, MainHas
  <2>4. CASE step = "regather" /\ next = "done"
    BY <2>1, <2>2, <2>4 DEF Holds, ModelHas, MainHas
  <2> QED
    BY <2>3, <2>4
<1>10. bucket' = [r \in Rank |-> bucket'[r]]
  BY <1>1
<1>11. data' = [r \in Rank |-> [buf \in Buffers |-> data'[r][buf]]]
  BY <1>1 DEF Inv, Types
<1> QED
  BY <1>1, <1>2, <1>9, <1>10, <1>11, AllStep

LEMMA ReduceStep ==
  ASSUME PlansSound, Inv, ReduceGrads PROVE Inv'
<1> DEFINE Contribution(r) ==
             WriteEach([k \in 1 .. BucketSize(r) |-> Empty], plan[r].start,
                       [i \in Item |-> Tensor(i, {r})])
           Cells(k) == {Contribution(r)[k] : r \in Rank}
           Sum(k) == IF \A c, d \in Cells(k) : c.item = d.item /\ c.pos = d.pos
                     THEN [(CHOOSE c \in Cells(k) : TRUE) EXCEPT !.from = UNION {c.from : c \in Cells(k)}]
                     ELSE Empty
           sum == [k \in 1 .. BucketSize(0) |-> Sum(k)]
           Reduced(r) ==
             IF job.strategy = "no_shard" THEN sum
             ELSE IF IsDataDistributed("grad") THEN GetShardFromBucket(r, sum)
             ELSE Write(Contribution(r), ShardStart(r, "grad"), GetShardFromBucket(r, sum))
<1>1. /\ \A r \in Rank : pc[r] = "reduce"
      /\ data' = [r \in Rank |-> [data[r] EXCEPT !["grad"] = Reduced(r)]]
      /\ pc' = [r \in Rank |-> "step"]
      /\ UNCHANGED <<job, raised, plan, bucket, param>>
  BY DEF ReduceGrads, At
<1>2. job \in Jobs /\ 0 \in Rank
  BY JobTyped DEF Inv, Types
<1>3. LaidOut /\ \A r \in Rank : plan[r] = ThePlan
  BY <1>1, <1>2, Layouts
<1>4. ASSUME NEW r \in Rank PROVE Contribution(r) = Whole({r})
  BY <1>3, Contributed
<1>5. BucketSize(0) = Total
  BY <1>2, <1>3 DEF BucketSize, Total, Shard
<1>6. ASSUME NEW k \in 1 .. Total PROVE Sum(k) = CellAt(k, Rank)
  <2>1. k \in Nat
    BY <1>3, Geometry
  <2>2. \A r \in Rank : Contribution(r)[k] = CellAt(k, {r})
    BY <1>4 DEF Whole
  <2> HIDE DEF Contribution
  <2>3. /\ \A c \in Cells(k) : \E r \in Rank : c = CellAt(k, {r})
        /\ \A r \in Rank : CellAt(k, {r}) \in Cells(k)
    BY <2>2
  <2> HIDE DEF Cells
  <2>4. (IF \A c, d \in Cells(k) : c.item = d.item /\ c.pos = d.pos
          THEN Having(CHOOSE c \in Cells(k) : TRUE, UNION {c.from : c \in Cells(k)})
          ELSE Empty) = CellAt(k, Rank)
    BY <1>3, <2>1, <2>3, SumOfCells
  <2> QED
    BY <2>4 DEF Having
<1>7. sum = Whole(Rank)
  <2> HIDE DEF Sum
  <2> QED
    BY <1>5, <1>6 DEF Whole
<1> HIDE DEF sum, Contribution
<1>8. ASSUME NEW r \in Rank PROVE Reduced(r) = Contents(r, "grad", Rank, Rest(Rank, {r}))
  <2>1. Reduced(r) = KeptOf(r, sum, Contribution(r))
    BY DEF KeptOf
  <2> QED
    BY <1>3, <1>4, <1>7, <2>1, Kept
<1> HIDE DEF Reduced
<1>9. ASSUME NEW r \in Rank
      PROVE  /\ data'[r] = [buf \in Buffers |-> data'[r][buf]]
             /\ data'[r]["grad"] = Contents(r, "grad", Rank, Rest(Rank, {r}))
             /\ data'[r]["model"] = data[r]["model"] /\ data'[r]["main"] = data[r]["main"]
  <2>1. data[r] = [buf \in Buffers |-> data[r][buf]]
    BY Itself DEF Cased
  <2>2. data'[r] = [buf \in Buffers |-> IF buf = "grad" THEN Reduced(r) ELSE data[r][buf]]
    BY <1>1, <2>1 DEF Buffers
  <2> QED
    BY <1>8, <2>2 DEF Buffers
<1>10. ASSUME NEW r \in Rank PROVE Holds(r, "step", plan[r], data'[r], bucket'[r], param[r])
  <2>1. Holds(r, "reduce", plan[r], data[r], bucket[r], param[r])
    BY <1>1, Itself
  <2>2. Array(Contents(r, "grad", Rank, Rest(Rank, {r})), Extent("grad"))
    BY DEF Contents, Array
  <2>3. bucket'[r] = bucket[r]
    BY <1>1
  <2> QED
    BY <1>9, <2>1, <2>2, <2>3 DEF Holds, ModelHas, MainHas
<1>11. data' = [r \in Rank |-> [buf \in Buffers |-> data'[r][buf]]]
  <2>1. data' = [r \in Rank |-> data'[r]]
    BY <1>1
  <2> QED
    BY <1>9, <2>1
<1>12. bucket' = [r \in Rank |-> bucket'[r]] /\ "step" \in Steps
  BY <1>1 DEF Inv, Types, Steps
<1> QED
  BY <1>1, <1>10, <1>11, <1>12, AllStep

----------------------------------------------------------------------------
(* The optimizer, and the copy of the main weights.                        *)

\* every share written anew, beside what else a buffer contains
LEMMA Rewritten ==
  ASSUME LaidOut, NEW r \in Rank, plan[r] = ThePlan, NEW buf, NEW old, NEW from, NEW rest,
         NEW start, \A i \in Item : start[i] = GetItemLocalShardIndex(r, buf, i)[1],
         NEW part, \A i \in Item : part[i] = ShareOf(r, i, from)
  PROVE  WriteEach(Contents(r, buf, old, rest), start, part) = Contents(r, buf, from, rest)
<1> DEFINE cells == Contents(r, buf, old, rest)
           wanted == Contents(r, buf, from, rest)
<1>1. Array(cells, Extent(buf))
  BY DEF Contents, Array
<1>2. Beside(r, buf, cells, wanted)
  <2>1. ASSUME NEW k \in 1 .. Extent(buf), ~Own(r, Offset(r, buf) + k) PROVE cells[k] = wanted[k]
    BY <2>1 DEF Contents
  <2>2. ASSUME NEW k \in 1 .. Extent(buf), \A i \in Item : ~Covers(i, Offset(r, buf) + k)
        PROVE  cells[k] = wanted[k]
    <3>1. \A x : CellAt(Offset(r, buf) + k, x) = Empty
      BY <2>2, CellOfNone
    <3> QED
      BY <3>1 DEF Contents
  <2> HIDE DEF cells, wanted
  <2> QED
    BY <2>1, <2>2 DEF Beside
<1> HIDE DEF cells, wanted
<1>3. WriteEach(cells, start, part) = wanted
  BY <1>1, <1>2, WriteShares DEF wanted
<1> QED
  BY <1>3 DEF cells, wanted

\* every item written anew in a whole bucket
LEMMA RewrittenWhole ==
  ASSUME LaidOut, NEW r \in Rank, NEW buf, ~IsDataDistributed(buf), NEW old, NEW from,
         NEW start, \A i \in Item : start[i] = From(i),
         NEW part, \A i \in Item : part[i] = Tensor(i, from)
  PROVE  WriteEach(Contents(r, buf, old, old), start, part) = Contents(r, buf, from, from)
<1> DEFINE cells == Contents(r, buf, old, old)
<1>1. Array(cells, Total) /\ \A k \in 1 .. Total : cells[k] = CellAt(k, old)
  BY WholeContents
<1>2. \A k \in 1 .. Total : (\E i \in Item : Covers(i, k)) \/ cells[k] = Empty
  BY <1>1, CellOfNone
<1> HIDE DEF cells
<1>3. WriteEach(cells, start, part) = Whole(from)
  BY <1>1, <1>2, WriteTensors
<1>4. Contents(r, buf, from, from) = Whole(from)
  BY WholeContents DEF Array, Whole
<1> QED
  BY <1>3, <1>4 DEF cells

\* a buffer of a rank replaced
Replaced(buffers, buf, cells) == [b \in Buffers |-> IF b = buf THEN cells ELSE buffers[b]]

LEMMA PutBuffer ==
  ASSUME Inv, NEW r \in Rank, NEW buf \in Buffers, NEW cells
  PROVE  [data EXCEPT ![r][buf] = cells] = Put(data, r, Replaced(data[r], buf, cells))
<1>1. data = [q \in Rank |-> data[q]] /\ data[r] = [b \in Buffers |-> data[r][b]]
  BY DEF Inv, Types
<1> QED
  BY <1>1 DEF Put, Replaced

LEMMA OptimizerStepKeeps ==
  ASSUME PlansSound, Inv, NEW r \in Rank, OptimizerStep(r) PROVE Inv'
<1> DEFINE sharded == job.strategy # "no_shard"
           buf == IF HasBuffer("main") THEN "main" ELSE "model"
           New(i) == Update(GetItem(r, buf, i, sharded), GetItem(r, "grad", i, sharded))
           start == [i \in Item |-> ItemIndex(r, buf, i, sharded)[1]]
           part == [i \in Item |-> New(i)]
           written == WriteEach(data[r][buf], start, part)
           weights == [i \in Item |-> Update(param[r][i], GetItem(r, "grad", i, FALSE))]
<1>1. pc[r] = "step"
  BY DEF OptimizerStep, At
<1>2. job \in Jobs
  BY DEF Inv, Types
<1>3. LaidOut /\ plan[r] = ThePlan
  BY <1>1, Layouts
<1>4. Holds(r, "step", plan[r], data[r], bucket[r], param[r])
  BY <1>1, Itself
<1>5. UNCHANGED <<job, raised, plan, bucket>> /\ pc' = Put(pc, r, "install") /\ "install" \in Steps
  BY DEF OptimizerStep, Goto, Put, Steps
<1>6. data[r]["grad"] = Contents(r, "grad", Rank, Rest(Rank, {r}))
  BY <1>4 DEF Holds
<1>7. ModelHas("step") = {} /\ MainHas("step") = {} /\ MainHas("install") = Rank /\ Rest({}, {}) = {}
  BY DEF ModelHas, MainHas, Rest
<1>8. CASE HasBuffer(buf)
  <2>1. buf \in Buffers
    BY DEF Buffers
  <2>2. data' = Put(data, r, Replaced(data[r], buf, written)) /\ UNCHANGED param
    <3>1. data' = [data EXCEPT ![r][buf] = written] /\ UNCHANGED param
      BY <1>8 DEF OptimizerStep
    <3> HIDE DEF written, buf
    <3> QED
      BY <2>1, <3>1, PutBuffer
  <2>3. data[r][buf] = Contents(r, buf, {}, {})
    BY <1>4, <1>7, <1>8 DEF Holds
  <2>4. CASE sharded
    <3>1. \A i \in Item : start[i] = GetItemLocalShardIndex(r, buf, i)[1]
      BY <2>4 DEF ItemIndex
    <3>2. ASSUME NEW i \in Item PROVE part[i] = ShareOf(r, i, Rank)
      <4> HIDE DEF buf
      <4>1. GetItem(r, buf, i, TRUE) = ShareOf(r, i, {})
        BY <1>3, <2>3, ReadShare
      <4>2. GetItem(r, "grad", i, TRUE) = ShareOf(r, i, Rank)
        BY <1>3, <1>6, ReadShare
      <4>3. Update(ShareOf(r, i, {}), ShareOf(r, i, Rank)) = ShareOf(r, i, {} \cup Rank)
        BY <1>3, UpdatedShare
      <4>4. {} \cup Rank = Rank
        OBVIOUS
      <4>5. sharded = TRUE
        BY <2>4
      <4> QED
        BY <4>1, <4>2, <4>3, <4>4, <4>5
    <3> HIDE DEF start, part, buf
    <3>3. WriteEach(Contents(r, buf, {}, {}), start, part) = Contents(r, buf, Rank, {})
      BY <1>3, <3>1, <3>2, Rewritten
    <3>4. written = Contents(r, buf, Rank, {})
      BY <2>3, <3>3
    <3> HIDE DEF written
    <3>5. Holds(r, "install", plan[r], Replaced(data[r], buf, written), bucket[r], param[r])
      <4>1. Rest(Rank, {}) = {}
        BY <2>4 DEF Rest
      <4>2. /\ HasBuffer("main") => buf = "main" /\ ModelHas("install") = {}
            /\ ~HasBuffer("main") => buf = "model" /\ ModelHas("install") = Rank
        BY DEF buf, ModelHas
      <4>3. /\ Replaced(data[r], buf, written)[buf] = Contents(r, buf, Rank, {})
            /\ \A b \in Buffers : b # buf => Replaced(data[r], buf, written)[b] = data[r][b]
        BY <2>1, <3>4 DEF Replaced
      <4>4. HasBuffer("model")
        BY <1>2, <2>4, DistributedOrNot DEF Buffers
      <4>5. /\ ItemsAreValid(job.elements) /\ plan[r] = ThePlan
            /\ data[r]["model"] = Contents(r, "model", {}, {})
            /\ Array(data[r]["grad"], Extent("grad"))
            /\ IsDataDistributed("model") => bucket[r] = Whole({})
        BY <1>4, <1>7, <4>4 DEF Holds
      <4>6. /\ Replaced(data[r], buf, written)["grad"] = data[r]["grad"]
            /\ Replaced(data[r], buf, written)["model"] = Contents(r, "model", ModelHas("install"), {})
            /\ HasBuffer("main") =>
                 Replaced(data[r], buf, written)["main"] = Contents(r, "main", Rank, {})
        BY <4>2, <4>3, <4>5 DEF Buffers
      <4> QED
        BY <1>6, <1>7, <4>1, <4>4, <4>5, <4>6 DEF Holds
    <3>6. Cased(Replaced(data[r], buf, written))
      BY DEF Cased, Replaced
    <3> QED
      BY <1>5, <2>2, <3>5, <3>6, Itself, RankStep
  <2>5. CASE ~sharded
    <3>1. buf = "main" /\ HasBuffer("main") /\ ~HasBuffer("model")
      BY <1>2, <1>8, <2>5, DistributedOrNot DEF Buffers
    <3>2. ~IsDataDistributed("main") /\ ~IsDataDistributed("grad")
      BY <1>2, <2>5, DistributedOrNot DEF Buffers
    <3>3. \A i \in Item : start[i] = From(i)
      BY <1>3, <2>5, <3>1, <3>2 DEF ItemIndex, GetItemLocalIndex, From
    <3>4. data[r]["grad"] = Contents(r, "grad", Rank, Rank)
      BY <1>6, <2>5 DEF Rest
    <3>5. ASSUME NEW i \in Item PROVE part[i] = Tensor(i, Rank)
      <4>1. GetItem(r, "main", i, FALSE) = Tensor(i, {})
        BY <1>3, <2>3, <3>1, <3>2, ReadWhole
      <4>2. GetItem(r, "grad", i, FALSE) = Tensor(i, Rank)
        BY <1>3, <3>2, <3>4, ReadWhole
      <4>3. Update(Tensor(i, {}), Tensor(i, Rank)) = Tensor(i, {} \cup Rank)
        BY UpdatedTensor
      <4>4. {} \cup Rank = Rank
        OBVIOUS
      <4>5. sharded = FALSE
        BY <2>5
      <4> QED
        BY <3>1, <4>1, <4>2, <4>3, <4>4, <4>5
    <3> HIDE DEF start, part, buf
    <3>6. WriteEach(Contents(r, "main", {}, {}), start, part) = Contents(r, "main", Rank, Rank)
      BY <1>3, <3>2, <3>3, <3>5, RewrittenWhole
    <3>7. written = Contents(r, "main", Rank, Rank)
      BY <2>3, <3>1, <3>6
    <3> HIDE DEF written
    <3>8. Holds(r, "install", plan[r], Replaced(data[r], buf, written), bucket[r], param[r])
      <4>1. Rest(Rank, {}) = Rank
        BY <2>5 DEF Rest
      <4>2. ModelHas("install") = {}
        BY <3>1 DEF ModelHas
      <4>3. /\ Replaced(data[r], buf, written)["main"] = Contents(r, "main", Rank, Rank)
            /\ Replaced(data[r], buf, written)["grad"] = data[r]["grad"]
        BY <2>1, <3>1, <3>7 DEF Replaced, Buffers
      <4>4. ~IsDataDistributed("model")
        BY <1>2, <2>5, DistributedOrNot DEF Buffers
      <4> QED
        BY <1>4, <1>6, <1>7, <3>1, <4>1, <4>2, <4>3, <4>4 DEF Holds
    <3>9. Cased(Replaced(data[r], buf, written))
      BY DEF Cased, Replaced
    <3> QED
      BY <1>5, <2>2, <3>8, <3>9, Itself, RankStep
  <2> QED
    BY <2>4, <2>5
<1>9. CASE ~HasBuffer(buf)
  <2>1. ~HasBuffer("main") /\ ~HasBuffer("model")
    BY <1>9
  <2>2. job.strategy = "no_shard" /\ ~IsDataDistributed("grad") /\ ~IsDataDistributed("model")
    BY <1>2, <2>1, DistributedOrNot DEF Buffers
  <2>3. param[r] = [i \in Item |-> Tensor(i, {})]
    BY <1>4, <1>7, <2>1 DEF Holds
  <2>4. param' = Put(param, r, weights) /\ UNCHANGED data
    BY <1>9 DEF OptimizerStep, Put
  <2>5. data[r]["grad"] = Contents(r, "grad", Rank, Rank)
    BY <1>6, <2>2 DEF Rest
  <2>6. ASSUME NEW i \in Item PROVE weights[i] = Tensor(i, Rank)
    <3>1. GetItem(r, "grad", i, FALSE) = Tensor(i, Rank)
      BY <1>3, <2>2, <2>5, ReadWhole
    <3>2. param[r][i] = Tensor(i, {})
      BY <2>3
    <3>3. Update(Tensor(i, {}), Tensor(i, Rank)) = Tensor(i, {} \cup Rank)
      BY UpdatedTensor
    <3>4. {} \cup Rank = Rank
      OBVIOUS
    <3> QED
      BY <3>1, <3>2, <3>3, <3>4
  <2>7. weights = [i \in Item |-> Tensor(i, Rank)]
    BY <2>6
  <2> HIDE DEF weights
  <2>8. ModelHas("install") = Rank
    BY <2>1 DEF ModelHas
  <2>9. Holds(r, "install", plan[r], data[r], bucket[r], weights)
    BY <1>4, <2>1, <2>2, <2>7, <2>8 DEF Holds
  <2> QED
    BY <1>5, <2>4, <2>9, Itself, RankStep
<1> QED
  BY <1>8, <1>9

LEMMA CopyStepKeeps ==
  ASSUME PlansSound, Inv, NEW r \in Rank, CopyMainWeightsToModelWeights(r) PROVE Inv'
<1> DEFINE only_shard == IsDataDistributed("model") \/ IsDataDistributed("main")
           start == [i \in Item |-> ItemIndex(r, "model", i, only_shard)[1]]
           part == [i \in Item |-> GetItem(r, "main", i, only_shard)]
           written == WriteEach(data[r]["model"], start, part)
<1>1. pc[r] = "install"
  BY DEF CopyMainWeightsToModelWeights, At
<1>2. job \in Jobs
  BY DEF Inv, Types
<1>3. LaidOut /\ plan[r] = ThePlan
  BY <1>1, Layouts
<1>4. Holds(r, "install", plan[r], data[r], bucket[r], param[r])
  BY <1>1, Itself
<1>5. UNCHANGED <<job, raised, plan, bucket>> /\ pc' = Put(pc, r, "regather") /\ "regather" \in Steps
  BY DEF CopyMainWeightsToModelWeights, Goto, Put, Steps
<1>6. /\ MainHas("install") = Rank /\ MainHas("regather") = Rank /\ ModelHas("regather") = Rank
      /\ HasBuffer("main") => ModelHas("install") = {}
      /\ ~HasBuffer("main") => ModelHas("install") = Rank
  BY DEF ModelHas, MainHas
<1>7. CASE ~HasBuffer("main")
  <2>1. UNCHANGED <<data, param>>
    BY <1>7 DEF CopyMainWeightsToModelWeights
  <2>2. Holds(r, "regather", plan[r], data[r], bucket[r], param[r])
    BY <1>4, <1>6, <1>7 DEF Holds
  <2> QED
    BY <1>5, <2>1, <2>2, Itself, RankStep
<1>8. CASE HasBuffer("main") /\ HasBuffer("model")
  <2>1. job.strategy # "no_shard"
    BY <1>2, <1>8, DistributedOrNot DEF Buffers
  <2>2. data' = Put(data, r, Replaced(data[r], "model", written)) /\ UNCHANGED param
    <3>1. data' = [data EXCEPT ![r]["model"] = written] /\ UNCHANGED param
      BY <1>8 DEF CopyMainWeightsToModelWeights
    <3>2. "model" \in Buffers
      BY DEF Buffers
    <3> HIDE DEF written
    <3> QED
      BY <3>1, <3>2, PutBuffer
  <2>3. /\ data[r]["model"] = Contents(r, "model", {}, {})
        /\ data[r]["main"] = Contents(r, "main", Rank, {})
    BY <1>4, <1>6, <1>8, <2>1 DEF Holds, Rest
  <2>4. written = Contents(r, "model", Rank, {})
    <3>1. CASE only_shard
      <4>1. only_shard = TRUE
        BY <3>1
      <4>2. \A i \in Item : start[i] = GetItemLocalShardIndex(r, "model", i)[1]
        BY <4>1 DEF ItemIndex
      <4>3. ASSUME NEW i \in Item PROVE part[i] = ShareOf(r, i, Rank)
        <5>1. GetItem(r, "main", i, TRUE) = ShareOf(r, i, Rank)
          BY <1>3, <2>3, ReadShare
        <5> QED
          BY <4>1, <5>1
      <4> HIDE DEF start, part
      <4> QED
        BY <1>3, <2>3, <4>2, <4>3, Rewritten
    <3>2. CASE ~only_shard
      <4>1. only_shard = FALSE
        BY <3>2
      <4>2. ~IsDataDistributed("model") /\ ~IsDataDistributed("main") /\ job.ranks = 1
        BY <1>2, <2>1, <3>2, DistributedOrNot DEF Buffers
      <4>3. data[r]["main"] = Contents(r, "main", Rank, Rank)
        BY <1>3, <2>3, <4>2, AllOwn
      <4>4. \A i \in Item : start[i] = From(i)
        BY <1>3, <4>1, <4>2 DEF ItemIndex, GetItemLocalIndex, From
      <4>5. ASSUME NEW i \in Item PROVE part[i] = Tensor(i, Rank)
        <5>1. GetItem(r, "main", i, FALSE) = Tensor(i, Rank)
          BY <1>3, <4>2, <4>3, ReadWhole
        <5> QED
          BY <4>1, <5>1
      <4> HIDE DEF start, part
      <4>6. WriteEach(Contents(r, "model", {}, {}), start, part) = Contents(r, "model", Rank, Rank)
        BY <1>3, <4>2, <4>4, <4>5, RewrittenWhole
      <4>7. Contents(r, "model", Rank, Rank) = Contents(r, "model", Rank, {})
        BY <1>3, <4>2, AllOwn
      <4> QED
        BY <2>3, <4>6, <4>7
    <3> QED
      BY <3>1, <3>2
  <2> HIDE DEF written
  <2>5. Holds(r, "regather", plan[r], Replaced(data[r], "model", written), bucket[r], param[r])
    <3>1. /\ Replaced(data[r], "model", written)["model"] = Contents(r, "model", Rank, {})
          /\ Replaced(data[r], "model", written)["main"] = data[r]["main"]
          /\ Replaced(data[r], "model", written)["grad"] = data[r]["grad"]
      BY <2>4 DEF Replaced, Buffers
    <3> QED
      BY <1>4, <1>6, <1>8, <3>1 DEF Holds
  <2>6. Cased(Replaced(data[r], "model", written))
    BY DEF Cased, Replaced
  <2> QED
    BY <1>5, <2>2, <2>5, <2>6, Itself, RankStep
<1>9. CASE HasBuffer("main") /\ ~HasBuffer("model")
  <2>1. /\ job.strategy = "no_shard" /\ ~IsDataDistributed("model") /\ ~IsDataDistributed("main")
        /\ ~IsDataDistributed("grad")
    BY <1>2, <1>9, DistributedOrNot DEF Buffers
  <2>2. param' = Put(param, r, part) /\ UNCHANGED data
    BY <1>9 DEF CopyMainWeightsToModelWeights, Put
  <2>3. data[r]["main"] = Contents(r, "main", Rank, Rank)
    BY <1>4, <1>6, <1>9, <2>1 DEF Holds, Rest
  <2>4. ASSUME NEW i \in Item PROVE part[i] = Tensor(i, Rank)
    <3>1. GetItem(r, "main", i, FALSE) = Tensor(i, Rank)
      BY <1>3, <2>1, <2>3, ReadWhole
    <3>2. only_shard = FALSE
      BY <2>1
    <3> QED
      BY <3>1, <3>2
  <2>5. part = [i \in Item |-> Tensor(i, Rank)]
    BY <2>4
  <2> HIDE DEF part
  <2>6. Holds(r, "regather", plan[r], data[r], bucket[r], part)
    BY <1>4, <1>6, <1>9, <2>1, <2>5 DEF Holds
  <2> QED
    BY <1>5, <2>2, <2>6, Itself, RankStep
<1> QED
  BY <1>7, <1>8, <1>9

----------------------------------------------------------------------------
(* The theorems.                                                           *)

LEMMA InitInv == Init => Inv
<1> SUFFICES ASSUME Init PROVE Inv
  OBVIOUS
<1>1. Types
  <2>1. pc \in [Rank -> Steps]
    BY DEF Init, Steps
  <2>2. data = [r \in Rank |-> [buf \in Buffers |-> data[r][buf]]]
    BY DEF Init
  <2> QED
    BY <2>1, <2>2 DEF Init, Types
<1>2. ASSUME NEW r \in Rank PROVE RankInv(r)
  <2>1. pc[r] = "plan" /\ param[r] = [i \in Item |-> Tensor(i, {})]
    BY DEF Init
  <2>2. ModelHas("plan") = {}
    BY DEF ModelHas
  <2> QED
    BY <2>1, <2>2 DEF RankInv, Holds
<1> QED
  BY <1>1, <1>2 DEF Inv

LEMMA NextInv == PlansSound /\ Inv /\ [Next]_vars => Inv'
<1> SUFFICES ASSUME PlansSound, Inv, [Next]_vars PROVE Inv'
  OBVIOUS
<1>1. ASSUME NEW r \in Rank,
             \/ Plan(r) \/ InitBuffers(r) \/ KeepParams(r, "gather", "reduce")
             \/ OptimizerStep(r) \/ CopyMainWeightsToModelWeights(r)
             \/ KeepParams(r, "regather", "done")
      PROVE  Inv'
  <2>1. CASE Plan(r)
    BY <2>1, PlanStep
  <2>2. CASE InitBuffers(r)
    BY <2>2, InitStep
  <2>3. CASE KeepParams(r, "gather", "reduce")
    BY <2>3, KeepStep
  <2>4. CASE OptimizerStep(r)
    BY <2>4, OptimizerStepKeeps
  <2>5. CASE CopyMainWeightsToModelWeights(r)
    BY <2>5, CopyStepKeeps
  <2>6. CASE KeepParams(r, "regather", "done")
    BY <2>6, KeepStep
  <2> QED
    BY <1>1, <2>1, <2>2, <2>3, <2>4, <2>5, <2>6
<1>2. CASE GatherParams("gather", "reduce")
  BY <1>2, GatherStep
<1>3. CASE ReduceGrads
  BY <1>3, ReduceStep
<1>4. CASE GatherParams("regather", "done")
  BY <1>4, GatherStep
<1>5. CASE UNCHANGED vars
  <2>1. raised' \in {"none", "invalid"}
    BY <1>5 DEF Inv, Types, vars
  <2> QED
    BY <1>5, <2>1, Raised DEF vars
<1> QED
  BY <1>1, <1>2, <1>3, <1>4, <1>5 DEF Next

\* The contents of all buffers are as the invariant says, at every step.
LEMMA Invariant == ASSUME PlansSound PROVE Spec => []Inv
<1>1. Inv /\ [Next]_vars => Inv'
  BY NextInv
<1> QED
  BY InitInv, <1>1, PTL DEF Spec

\* Groups with valid block sizes and a sound layout are laid out and installed
\* without an exception (plan_dbuffer_layout accepts its own layout, and every view
\* of the bucket has the parameter's size).
THEOREM NoException == ASSUME PlansSound PROVE Spec => []NoError
<1>1. Inv => NoError
  BY DEF Inv, Types, NoError
<1> QED
  BY Invariant, <1>1, PTL

\* In every buffer a rank's shard of a tensor has the size that the RaggedShard
\* placement announces (get_item with only_shard against local_size), ...
THEOREM ShardSizes == ASSUME PlansSound PROVE Spec => []ShardsMatchPlacement
<1>1. ASSUME Inv, NEW r \in Rank, NEW buf \in Buffers, HasBuffer(buf), pc[r] \notin {"plan", "init"},
             NEW i \in Item
      PROVE  Len(GetItem(r, buf, i, TRUE)) =
               LocalSize(plan[r].start[i], ItemSize(i), plan[r].shard_size, r)
  <2>1. LaidOut /\ plan[r] = ThePlan
    BY <1>1, Layouts
  <2>2. Holds(r, pc[r], plan[r], data[r], bucket[r], param[r])
    BY <1>1, Itself
  <2>3. Array(data[r][buf], Extent(buf))
    BY <1>1, <2>2 DEF Holds, Buffers, Contents, Array
  <2> QED
    BY <2>1, <2>3, ReadLength DEF From, Shard
<1>2. Inv => ShardsMatchPlacement
  BY <1>1 DEF ShardsMatchPlacement
<1> QED
  BY Invariant, <1>2, PTL

\* ... what is gathered from the shards of a sharded weight buffer is every tensor,
\* whole, before the step, and after it with every rank's gradient in every
\* element (all_gather_params into the bucket, reduce_gradients, the optimizer and
\* copy_main_weights_to_model_weights), ...
THEOREM GatheredTensors == ASSUME PlansSound PROVE Spec => []GatheredWhole
<1>1. ASSUME Inv, IsDataDistributed("model"), NEW r \in Rank, NEW i \in Item
      PROVE  /\ pc[r] = "reduce" => ParamData(r, i) = Tensor(i, {})
             /\ pc[r] = "done" => ParamData(r, i) = Tensor(i, Rank)
  <2>1. Holds(r, pc[r], plan[r], data[r], bucket[r], param[r])
    BY <1>1, Itself
  <2>2. HasBuffer("model")
    BY <1>1, DistributedOrNot DEF Inv, Types, Buffers
  <2>3. ParamData(r, i) = Slice(bucket[r], plan[r].start[i], plan[r].start[i] + ItemSize(i))
    BY <1>1, <2>2 DEF ParamData, GetItemFromBucket
  <2>4. ASSUME NEW from, bucket[r] = Whole(from), pc[r] # "plan" PROVE ParamData(r, i) = Tensor(i, from)
    <3>1. LaidOut /\ plan[r] = ThePlan
      BY <1>1, <2>4, Layouts
    <3>2. Array(Whole(from), Total) /\ \A p \in 1 .. Total : Whole(from)[p] = CellAt(p, from)
      BY DEF Whole, Array
    <3>3. Slice(Whole(from), From(i), From(i) + ItemSize(i)) = Tensor(i, from)
      BY <3>1, <3>2, SliceOfBucket
    <3> QED
      BY <2>3, <2>4, <3>1, <3>3 DEF From
  <2>5. CASE pc[r] = "reduce"
    BY <1>1, <2>1, <2>4, <2>5 DEF Holds
  <2>6. CASE pc[r] = "done"
    BY <1>1, <2>1, <2>4, <2>6 DEF Holds
  <2> QED
    BY <2>5, <2>6
<1>2. Inv => GatheredWhole
  BY <1>1 DEF GatheredWhole
<1> QED
  BY Invariant, <1>2, PTL

\* ... and under every strategy a rank's own share of every tensor has every
\* rank's gradient once the step is installed.
THEOREM SharesGetGradients == ASSUME PlansSound PROVE Spec => []ShareUpdated
<1>1. ASSUME Inv, NEW r \in Rank, NEW i \in Item, pc[r] \in {"regather", "done"}
      PROVE  LET slice == GetItemSliceInShard(r, i)
             IN IF HasBuffer("model")
                THEN GetItem(r, "model", i, TRUE) = Slice(Tensor(i, Rank), slice[1], slice[2])
                ELSE param[r][i] = Tensor(i, Rank)
  <2>1. LaidOut /\ plan[r] = ThePlan
    BY <1>1, Layouts
  <2>2. Holds(r, pc[r], plan[r], data[r], bucket[r], param[r])
    BY <1>1, Itself
  <2>3. ModelHas(pc[r]) = Rank
    BY <1>1 DEF ModelHas
  <2>4. CASE HasBuffer("model")
    <3>1. data[r]["model"] = Contents(r, "model", Rank, {})
      BY <1>1, <2>2, <2>3, <2>4 DEF Holds
    <3>2. GetItem(r, "model", i, TRUE) = ShareOf(r, i, Rank)
      BY <2>1, <3>1, ReadShare
    <3> QED
      BY <2>1, <2>4, <3>2, SliceOfTensor
  <2>5. CASE ~HasBuffer("model")
    BY <2>2, <2>3, <2>5 DEF Holds
  <2> QED
    BY <2>4, <2>5
<1>2. Inv => ShareUpdated
  BY <1>1 DEF ShareUpdated
<1> QED
  BY Invariant, <1>2, PTL

----------------------------------------------------------------------------
(* The layouts are sound.                                                  *)

\* What the buffers ask of the planner: the default order, and tensors of single
\* elements or with blocks of rows but no larger than a rank's share of the bucket.
BuffersJobs ==
  \A j \in Jobs :
    j.order = "default" /\ NoLargeBlocks(j.elements, j.ranks, j.strategy # "no_shard")

\* The planner's layouts are sound: plan_dbuffer_layout puts the tensors of a group
\* side by side within the bucket and cuts them between blocks, for every group of
\* element-wise tensors, and of row-wise ones that are no larger than a share.
THEOREM PlannerIsSound == ASSUME BuffersJobs PROVE PlansSound
<1>1. ASSUME NEW j \in Jobs, ItemsAreValid(j.elements)
      PROVE  InBucket(j.elements, PlanOf(j), j.ranks) /\ LocalUnitsAreWhole(j.elements, PlanOf(j), j.ranks)
  <2> DEFINE elements == j.elements
             ranks == j.ranks
             unit == j.unit
             padded == j.strategy # "no_shard"
             p == PlanDBufferLayout(elements, ranks, unit, "default", padded)
  <2>1. j \in Job
    BY JobAssumption
  <2>2. /\ elements \in Seq([shape : Seq(Nat), block : Nat]) /\ ranks \in Nat \ {0}
        /\ unit \in Nat /\ padded \in BOOLEAN
    BY <2>1 DEF Job
  <2>3. j.order = "default" /\ NoLargeBlocks(elements, ranks, padded) /\ ItemsAreValid(elements)
    BY <1>1 DEF BuffersJobs
  <2>4. PlanOf(j) = p
    BY <2>3 DEF PlanOf
  <2> HIDE DEF elements, ranks, unit, padded
  <2>5. InBucket(elements, p, ranks) /\ LocalUnitsAreWhole(elements, p, ranks)
    BY <2>2, <2>3, PlanIsSound
  <2> QED
    BY <2>4, <2>5 DEF elements, ranks
<1> QED
  BY <1>1 DEF PlansSound

\* Every element of every tensor is on exactly one rank, and every rank holds whole
\* blocks: tensors do not overlap, the shares of the ranks add up to the tensor, and
\* cuts respect block sizes (what plan_dbuffer_layout promises RaggedShard).
THEOREM LayoutIsSound == ASSUME PlansSound PROVE Spec => []LayoutSound
<1>1. ASSUME Inv, NEW r \in Rank, Planned(r) PROVE LaidOut /\ plan[r] = ThePlan
  BY <1>1, Layouts DEF Planned
<1>2. ASSUME LaidOut, NEW i \in Item
      PROVE  SumOfShares(From(i), ItemSize(i), Shard, Rank) = ItemSize(i)
  <2>1. /\ From(i) \in Nat /\ ItemSize(i) \in Nat /\ Shard \in Nat /\ job.ranks \in Nat \ {0}
        /\ From(i) + ItemSize(i) <= job.ranks * Shard
    BY <1>2, Geometry, JobTyped DEF LaidOut, To, Total
  <2> DEFINE start == From(i)
             size == ItemSize(i)
             ranks == job.ranks
             S == Shard
  <2>2. Rank = 0 .. ranks - 1
    BY DEF Rank
  <2>3. start \in Nat /\ size \in Nat /\ S \in Nat /\ ranks \in Nat \ {0} /\ start + size <= ranks * S
    BY <2>1
  <2> HIDE DEF start, size, ranks, S
  <2>4. SumOfShares(start, size, S, 0 .. ranks - 1) = size
    BY <2>3, SharesAddUp
  <2>5. SumOfShares(start, size, S, Rank) = size
    BY <2>2, <2>4
  <2> QED
    BY <2>5 DEF start, size, S
<1>3. ASSUME LaidOut
      PROVE  /\ \A i, k \in Item : i # k => To(i) <= From(k) \/ To(k) <= From(i)
             /\ \A i \in Item, q \in Rank :
                  LocalSize(From(i), ItemSize(i), Shard, q) % job.elements[i].block = 0
  <2>1. InBucket(job.elements, ThePlan, job.ranks) /\ LocalUnitsAreWhole(job.elements, ThePlan, job.ranks)
    BY <1>3 DEF LaidOut, PlansSound, ThePlan
  <2>2. \A i, k \in Item : i # k => To(i) <= From(k) \/ To(k) <= From(i)
    BY <2>1 DEF InBucket, Item, From, ItemSize, To
  <2>3. \A i \in Item, q \in Rank :
          LocalSize(From(i), ItemSize(i), Shard, q) % job.elements[i].block = 0
    BY <2>1 DEF LocalUnitsAreWhole, Item, From, ItemSize, Shard, Rank
  <2> QED
    BY <2>2, <2>3
<1>4. ASSUME Inv, NEW r \in Rank, Planned(r)
      PROVE  /\ \A i, j \in Item : i # j =>
                  \/ plan[r].start[i] + ItemSize(i) <= plan[r].start[j]
                  \/ plan[r].start[j] + ItemSize(j) <= plan[r].start[i]
             /\ \A i \in Item : MapThenSumSet(LAMBDA q :
                  LocalSize(plan[r].start[i], ItemSize(i), plan[r].shard_size, q), Rank) = ItemSize(i)
             /\ \A i \in Item, q \in Rank :
                  LocalSize(plan[r].start[i], ItemSize(i), plan[r].shard_size, q) % job.elements[i].block = 0
  <2>1. LaidOut /\ plan[r] = ThePlan
    BY <1>1, <1>4
  <2>2. ASSUME NEW i \in Item
        PROVE  MapThenSumSet(LAMBDA q :
                 LocalSize(plan[r].start[i], ItemSize(i), plan[r].shard_size, q), Rank) = ItemSize(i)
    <3>1. SumOfShares(From(i), ItemSize(i), Shard, Rank) = ItemSize(i)
      BY <1>2, <2>1
    <3>2. From(i) = plan[r].start[i] /\ Shard = plan[r].shard_size
      BY <2>1 DEF From, Shard
    <3>3. SumOfShares(plan[r].start[i], ItemSize(i), plan[r].shard_size, Rank) = ItemSize(i)
      BY <3>1, <3>2
    <3> QED
      BY <3>3 DEF SumOfShares
  <2>3. \A i, j \in Item : i # j =>
          \/ plan[r].start[i] + ItemSize(i) <= plan[r].start[j]
          \/ plan[r].start[j] + ItemSize(j) <= plan[r].start[i]
    BY <1>3, <2>1 DEF From, To
  <2>4. \A i \in Item, q \in Rank :
          LocalSize(plan[r].start[i], ItemSize(i), plan[r].shard_size, q) % job.elements[i].block = 0
    BY <1>3, <2>1 DEF From, Shard
  <2> QED
    BY <2>2, <2>3, <2>4
<1>5. Inv => LayoutSound
  BY <1>4 DEF LayoutSound
<1> QED
  BY Invariant, <1>5, PTL
=============================================================================
