------------------------ MODULE DBufferLayoutProofs ------------------------
(***************************************************************************)
(* What the planner of dbuffer.py returns, for every sequence of tensors,  *)
(* number of ranks and collective unit: the search ends at a size of       *)
(* shards that has room for the tensors, placed one after the other, and   *)
(* no tensor is cut inside a block.                                        *)
(***************************************************************************)
EXTENDS DBufferLayout, FoldProofs

----------------------------------------------------------------------------
(* Multiples and quotients.                                                *)

LEMMA Monotone ==
  ASSUME NEW a \in Nat, NEW b \in Nat, NEW s \in Nat, a <= b PROVE a * s <= b * s
<1>1. \A x, y, z \in Nat : x <= y => x * z <= y * z
  OBVIOUS
<1> QED
  BY <1>1

LEMMA Division ==
  ASSUME NEW a \in Nat, NEW b \in Nat \ {0}
  PROVE  a \div b \in Nat /\ a % b \in 0 .. b - 1 /\ a = b * (a \div b) + (a % b)
<1>1. a \div b \in Int
  OBVIOUS
<1>2. a \div b >= 0
  OBVIOUS
<1>3. a % b \in 0 .. b - 1
  OBVIOUS
<1>4. a = b * (a \div b) + (a % b)
  OBVIOUS
<1> QED
  BY <1>1, <1>2, <1>3, <1>4

LEMMA Quotient ==
  ASSUME NEW a \in Nat, NEW s \in Nat \ {0}
  PROVE  /\ a \div s \in Nat /\ (a \div s) * s <= a /\ a < (a \div s + 1) * s
<1> DEFINE q == a \div s
           m == a % s
<1>1. q \in Nat /\ m \in 0 .. s - 1 /\ a = s * q + m
  BY Division
<1> HIDE DEF q, m
<1>3. s * q = q * s /\ (q + 1) * s = q * s + s /\ q * s \in Nat
  BY <1>1
<1> DEFINE p == q * s
<1>4. p \in Nat /\ a = p + m /\ (q + 1) * s = p + s
  BY <1>1, <1>3
<1> HIDE DEF p
<1>5. p <= a /\ a < p + s
  BY <1>1, <1>4
<1>6. q \in Nat /\ q * s <= a /\ a < (q + 1) * s
  BY <1>1, <1>4, <1>5 DEF p
<1> QED
  BY <1>6 DEF q

LEMMA QuotientBounds ==
  ASSUME NEW a \in Nat, NEW s \in Nat \ {0}, NEW k \in Nat
  PROVE  /\ k * s <= a => k <= a \div s
         /\ a < k * s => a \div s < k
<1> DEFINE q == a \div s
<1>1. q \in Nat /\ q * s <= a /\ a < (q + 1) * s
  BY Quotient
<1> HIDE DEF q
<1>2. ASSUME k * s <= a, ~(k <= q) PROVE FALSE
  <2>1. (q + 1) * s <= k * s
    BY <1>1, <1>2, Monotone
  <2> DEFINE x == (q + 1) * s
             y == k * s
  <2>2. x \in Nat /\ y \in Nat
    BY <1>1
  <2>3. x <= y /\ y <= a /\ a < x
    BY <1>1, <1>2, <2>1
  <2> HIDE DEF x, y
  <2> QED
    BY <2>2, <2>3
<1>3. ASSUME a < k * s, ~(q < k) PROVE FALSE
  <2>1. k * s <= q * s
    BY <1>1, <1>3, Monotone
  <2> DEFINE x == q * s
             y == k * s
  <2>2. x \in Nat /\ y \in Nat
    BY <1>1
  <2>3. y <= x /\ x <= a /\ a < y
    BY <1>1, <1>3, <2>1
  <2> HIDE DEF x, y
  <2> QED
    BY <2>2, <2>3
<1> QED
  BY <1>2, <1>3 DEF q

\* differences and sums of multiples are multiples
LEMMA Multiples ==
  ASSUME NEW a \in Nat, NEW b \in Nat, NEW s \in Nat \ {0}, a % s = 0, b % s = 0, b <= a
  PROVE  (a - b) % s = 0
<1>1. a = s * (a \div s) /\ b = s * (b \div s) /\ a \div s \in Int /\ b \div s \in Int
  <2>1. a \div s \in Nat /\ a = s * (a \div s) + (a % s)
    BY Division
  <2>2. b \div s \in Nat /\ b = s * (b \div s) + (b % s)
    BY Division
  <2> DEFINE p == s * (a \div s)
             q == s * (b \div s)
  <2>3. p \in Int /\ q \in Int
    BY <2>1, <2>2
  <2>4. a = p + 0 /\ b = q + 0
    BY <2>1, <2>2
  <2> HIDE DEF p, q
  <2>5. a = p /\ b = q
    BY <2>3, <2>4
  <2> QED
    BY <2>1, <2>2, <2>5 DEF p, q
<1> DEFINE p == a \div s
           q == b \div s
<1>2. p \in Int /\ q \in Int /\ a = s * p /\ b = s * q
  BY <1>1
<1> HIDE DEF p, q
<1>3. a - b = (p - q) * s /\ p - q \in Int
  BY <1>2
<1>4. \A k \in Int : (k * s) % s = 0
  OBVIOUS
<1> QED
  BY <1>3, <1>4

LEMMA CeilDivBounds ==
  ASSUME NEW n \in Nat, NEW m \in Nat \ {0}
  PROVE  CeilDiv(n, m) \in Nat /\ n <= m * CeilDiv(n, m)
<1> DEFINE q == (n + m - 1) \div m
<1>1. n + m - 1 \in Nat
  OBVIOUS
<1>2. q \in Nat /\ n + m - 1 < (q + 1) * m
  BY <1>1, Quotient
<1> HIDE DEF q
<1>3. (q + 1) * m = m * q + m /\ m * q \in Nat
  BY <1>2
<1>4. n <= m * q
  BY <1>2, <1>3
<1> QED
  BY <1>2, <1>4 DEF CeilDiv, q

----------------------------------------------------------------------------
(* A tensor in a shard.                                                    *)

\* every shard boundary inside the tensor is whole blocks from its start
CutsWholeBlocks(x, size, block, S) ==
  \A k \in Nat : x < k * S /\ k * S < x + size => (k * S - x) % block = 0

\* a tensor inside one shard is not cut
LEMMA Uncut ==
  ASSUME NEW S \in Nat \ {0}, NEW i \in Nat, NEW x \in Nat, NEW size \in Nat, NEW block,
         i * S <= x, x + size <= (i + 1) * S
  PROVE  CutsWholeBlocks(x, size, block, S)
<1>1. ASSUME NEW k \in Nat, x < k * S, k * S < x + size PROVE FALSE
  <2> DEFINE l == i * S
             e == (i + 1) * S
             b == k * S
  <2>1. l \in Nat /\ e \in Nat /\ b \in Nat
    OBVIOUS
  <2>2. k <= i => b <= l
    BY Monotone
  <2>3. ~(k <= i) => e <= b
    <3>1. ~(k <= i) => i + 1 <= k /\ i + 1 \in Nat
      OBVIOUS
    <3> QED
      BY <3>1, Monotone
  <2>4. l <= x /\ x + size <= e /\ x < b /\ b < x + size
    BY <1>1
  <2> HIDE DEF l, e, b
  <2> QED
    BY <2>1, <2>2, <2>3, <2>4
<1> QED
  BY <1>1 DEF CutsWholeBlocks

\* the check of boundaries covers all of them
LEMMA BoundariesChecked ==
  ASSUME NEW S \in Nat \ {0}, NEW x \in Nat, NEW size \in Nat, NEW block \in Nat \ {0},
         TensorBoundaryIsValid(x, size, block, S)
  PROVE  CutsWholeBlocks(x, size, block, S)
<1>1. ASSUME NEW k \in Nat, x < k * S, k * S < x + size PROVE (k * S - x) % block = 0
  <2>1. x \div S < k /\ x \div S \in Nat
    BY <1>1, Quotient, QuotientBounds
  <2>2. k <= (x + size) \div S /\ (x + size) \div S \in Nat
    <3>1. x + size \in Nat /\ k * S \in Nat
      OBVIOUS
    <3>2. k * S <= x + size
      BY <1>1, <3>1
    <3> QED
      BY <3>1, <3>2, Quotient, QuotientBounds
  <2>3. k \in (x \div S) + 1 .. (x + size) \div S
    BY <2>1, <2>2
  <2> QED
    BY <1>1, <2>3 DEF TensorBoundaryIsValid
<1> QED
  BY <1>1 DEF CutsWholeBlocks

Base(i, cursor, S) == Larger(cursor, i * S)

LEMMA BaseIs ==
  ASSUME NEW S \in Nat \ {0}, NEW i \in Nat, NEW cursor \in Nat
  PROVE  /\ Base(i, cursor, S) \in Nat /\ cursor <= Base(i, cursor, S) /\ i * S <= Base(i, cursor, S)
         /\ Base(i, cursor, S) \in {cursor, i * S}
         /\ i * S \in Nat /\ (i + 1) * S \in Nat /\ (i + 1) * S = i * S + S
<1>1. i * S \in Nat /\ (i + 1) * S \in Nat /\ (i + 1) * S = i * S + S
  OBVIOUS
<1> DEFINE l == i * S
<1>2. l \in Nat
  BY <1>1
<1> HIDE DEF l
<1>3. /\ Larger(cursor, l) \in Nat /\ cursor <= Larger(cursor, l) /\ l <= Larger(cursor, l)
      /\ Larger(cursor, l) \in {cursor, l}
  BY <1>2 DEF Larger
<1> QED
  BY <1>1, <1>3 DEF Base, l

LEMMA FitsAtBase ==
  ASSUME NEW S, NEW i, NEW cursor, NEW size, NEW block,
         Base(i, cursor, S) + size <= (i + 1) * S
  PROVE  StartInShard(i, cursor, size, block, S) = Base(i, cursor, S)
BY DEF StartInShard, Base

\* Where a tensor may start in a shard.
LEMMA StartsInShard ==
  ASSUME NEW S \in Nat \ {0}, NEW i \in Nat, NEW cursor \in Nat, NEW size \in Nat,
         NEW block \in Nat \ {0},
         StartInShard(i, cursor, size, block, S) # NoStart
  PROVE  LET x == StartInShard(i, cursor, size, block, S)
         IN /\ x \in Nat /\ cursor <= x /\ i * S <= x
            /\ \/ x + size <= (i + 1) * S
               \/ x < (i + 1) * S /\ ~(Base(i, cursor, S) + size <= (i + 1) * S)
            /\ CutsWholeBlocks(x, size, block, S)
<1> DEFINE x == StartInShard(i, cursor, size, block, S)
           base == Base(i, cursor, S)
           l == i * S
           e == (i + 1) * S
           lower == Larger(base, e - size + 1)
           candidate == lower + ((e - lower) % block)
<1>1. x = IF base + size <= e THEN base
          ELSE IF candidate < e /\ TensorBoundaryIsValid(candidate, size, block, S)
               THEN candidate ELSE NoStart
  BY DEF StartInShard, Base
<1>2. /\ base \in Nat /\ cursor <= base /\ l <= base /\ l \in Nat /\ e \in Nat
  BY BaseIs
<1>8. x # NoStart
  OBVIOUS
<1> HIDE DEF base, l, e, x
<1>3. ASSUME base + size <= e
      PROVE  x \in Nat /\ cursor <= x /\ l <= x /\ x + size <= e /\ CutsWholeBlocks(x, size, block, S)
  <2>1. x = base
    BY <1>1, <1>3
  <2>2. CutsWholeBlocks(x, size, block, S)
    BY <1>2, <1>3, <2>1, Uncut DEF l, e
  <2>3. x \in Nat /\ cursor <= x /\ l <= x /\ x + size <= e
    BY <1>2, <1>3, <2>1
  <2> QED
    BY <2>2, <2>3
<1>4. ASSUME ~(base + size <= e)
      PROVE  x \in Nat /\ cursor <= x /\ l <= x /\ x < e /\ CutsWholeBlocks(x, size, block, S)
  <2>1. x = candidate /\ candidate < e /\ TensorBoundaryIsValid(candidate, size, block, S)
    BY <1>1, <1>4, <1>8
  <2>2. lower \in Int /\ base <= lower
    BY <1>2 DEF Larger
  <2> DEFINE d == e - lower
  <2>3. d \in Int
    BY <1>2, <2>2
  <2> HIDE DEF d, lower
  <2>4. d % block \in 0 .. block - 1
    BY <2>3
  <2>5. d % block \in Nat
    BY <2>4
  <2>6. candidate \in Nat /\ lower <= candidate
    BY <1>2, <2>2, <2>5 DEF d
  <2> HIDE DEF candidate
  <2>7. CutsWholeBlocks(candidate, size, block, S)
    BY <2>1, <2>6, BoundariesChecked
  <2>8. x \in Nat /\ cursor <= x /\ l <= x /\ x < e
    BY <1>2, <2>1, <2>2, <2>6
  <2> QED
    BY <1>4, <2>1, <2>7, <2>8
<1>5. /\ x \in Nat /\ cursor <= x /\ l <= x
      /\ x + size <= e \/ (x < e /\ ~(base + size <= e))
      /\ CutsWholeBlocks(x, size, block, S)
  BY <1>3, <1>4
<1> QED
  BY <1>5 DEF x, l, e, base

LEMMA LeastIs ==
  ASSUME NEW T, T \subseteq Nat, T # {}
  PROVE  Min(T) \in T /\ \A y \in T : Min(T) <= y
<1>1. \E n \in T : \A m \in T : n <= m
  BY Least
<1> QED
  BY <1>1 DEF Min

\* single elements start at the cursor
LEMMA StartsAtCursor ==
  ASSUME NEW S \in Nat \ {0}, NEW cursor \in Nat, NEW size \in Nat
  PROVE  StartInShard(cursor \div S, cursor, size, 1, S) = cursor
<1> DEFINE i == cursor \div S
           e == (i + 1) * S
           l == i * S
           lower == Larger(cursor, e - size + 1)
<1>1. i \in Nat /\ l <= cursor /\ cursor < e /\ l \in Nat /\ e \in Nat
  <2>1. i \in Nat /\ l <= cursor /\ cursor < e
    BY Quotient
  <2> HIDE DEF i
  <2> QED
    BY <2>1
<1> HIDE DEF i
<1>2. Larger(cursor, l) = cursor
  <2> HIDE DEF l
  <2> QED
    BY <1>1 DEF Larger
<1>3. StartInShard(i, cursor, size, 1, S) =
        IF cursor + size <= e THEN cursor
        ELSE IF lower + ((e - lower) % 1) < e /\ TensorBoundaryIsValid(lower + ((e - lower) % 1), size, 1, S)
             THEN lower + ((e - lower) % 1) ELSE NoStart
  BY <1>2 DEF StartInShard
<1>4. ASSUME ~(cursor + size <= e)
      PROVE  lower + ((e - lower) % 1) = cursor
  <2> HIDE DEF e
  <2>1. lower = cursor
    BY <1>1, <1>4 DEF Larger
  <2>2. \A a \in Int : a % 1 = 0
    OBVIOUS
  <2>3. (e - cursor) % 1 = 0
    BY <1>1, <2>2
  <2> QED
    BY <2>1, <2>3
<1>5. TensorBoundaryIsValid(cursor, size, 1, S)
  <2>2. \A a \in Int : a % 1 = 0
    OBVIOUS
  <2>3. cursor \div S \in Nat /\ (cursor + size) \div S \in Nat
    BY Quotient
  <2>4. ASSUME NEW k \in (cursor \div S) + 1 .. (cursor + size) \div S PROVE (k * S - cursor) % 1 = 0
    <3>1. k \in Int
      BY <2>3
    <3>2. k * S - cursor \in Int
      BY <3>1
    <3> QED
      BY <2>2, <3>2
  <2> QED
    BY <2>4 DEF TensorBoundaryIsValid
<1>6. CASE cursor + size <= e
  BY <1>3, <1>6 DEF i
<1>7. CASE ~(cursor + size <= e)
  <2> DEFINE c == lower + ((e - lower) % 1)
  <2>1. c = cursor
    BY <1>4, <1>7
  <2>2. StartInShard(i, cursor, size, 1, S) =
          IF c < e /\ TensorBoundaryIsValid(c, size, 1, S) THEN c ELSE NoStart
    BY <1>3, <1>7
  <2> HIDE DEF c, e
  <2>3. StartInShard(i, cursor, size, 1, S) = cursor
    BY <1>1, <1>5, <2>1, <2>2
  <2> QED
    BY <2>3 DEF i
<1> QED
  BY <1>6, <1>7

\* single elements, and tensors no larger than a shard, do not overrun the bucket
Modest(size, block, S) == block = 1 \/ size <= S

LEMMA NextStarts ==
  ASSUME NEW S \in Nat \ {0}, NEW ranks \in Nat \ {0}, NEW cursor \in Nat, NEW size \in Nat,
         NEW block \in Nat \ {0},
         NextValidTensorStart(cursor, size, block, S, ranks) # NoStart
  PROVE  LET x == NextValidTensorStart(cursor, size, block, S, ranks)
         IN /\ x \in Nat /\ cursor <= x /\ CutsWholeBlocks(x, size, block, S)
            /\ Modest(size, block, S) => x + size <= ranks * S
<1> DEFINE x == NextValidTensorStart(cursor, size, block, S, ranks)
           Start(i) == StartInShard(i, cursor, size, block, S)
           shards == {i \in cursor \div S .. ranks - 1 : Start(i) # NoStart}
           m == Min(shards)
<1>1. cursor + size <= S * ranks /\ shards # {} /\ x = Start(m)
  <2>1. x = IF cursor + size > S * ranks \/ shards = {} THEN NoStart ELSE Start(m)
    BY DEF NextValidTensorStart
  <2>2. ~(cursor + size > S * ranks) /\ shards # {}
    BY <2>1
  <2>3. x = Start(m)
    BY <2>1, <2>2
  <2>4. S * ranks \in Nat /\ cursor + size \in Nat
    OBVIOUS
  <2>5. cursor + size <= S * ranks
    BY <2>2, <2>4
  <2> HIDE DEF shards, m, x
  <2> QED
    BY <2>2, <2>3, <2>5
<1>2. cursor \div S \in Nat
  BY Quotient
<1>3. shards \subseteq Nat
  <2>1. \A i \in cursor \div S .. ranks - 1 : i \in Nat
    BY <1>2
  <2> QED
    BY <2>1
<1>4. m \in shards /\ \A i \in shards : m <= i
  <2> HIDE DEF shards
  <2> QED
    BY <1>1, <1>3, LeastIs
<1>5. m \in Nat /\ m <= ranks - 1 /\ cursor \div S <= m /\ Start(m) # NoStart
  <2>1. m \in cursor \div S .. ranks - 1 /\ Start(m) # NoStart
    BY <1>4
  <2> HIDE DEF shards, m
  <2> QED
    BY <1>2, <2>1
<1>6. /\ x \in Nat /\ cursor <= x /\ CutsWholeBlocks(x, size, block, S)
      /\ x + size <= (m + 1) * S \/ (x < (m + 1) * S /\ ~(Base(m, cursor, S) + size <= (m + 1) * S))
  <2> HIDE DEF shards, m, x
  <2> QED
    BY <1>1, <1>5, StartsInShard
<1>7. ASSUME size <= S PROVE x + size <= ranks * S
  <2> DEFINE e == (m + 1) * S
             l == m * S
             t == ranks * S
  <2> HIDE DEF m, x
  <2>1. e \in Nat /\ t \in Nat /\ l \in Nat /\ e = l + S /\ S * ranks = t
    BY <1>5
  <2>2. e <= t
    <3>1. m + 1 \in Nat /\ m + 1 <= ranks
      BY <1>5
    <3> QED
      BY <3>1, Monotone
  <2>3. CASE x + size <= e
    <3> HIDE DEF e, t
    <3> QED
      BY <1>6, <2>1, <2>2, <2>3
  <2>4. CASE ~(x + size <= e)
    <3>1. x < e /\ ~(Base(m, cursor, S) + size <= e)
      BY <1>6, <2>4
    <3>2. Base(m, cursor, S) \in {cursor, l}
      BY <1>5, BaseIs
    <3>3. m # ranks - 1
      <4>1. ASSUME m = ranks - 1 PROVE e = t
        <5>1. m + 1 = ranks
          BY <1>5, <4>1
        <5> QED
          BY <5>1
      <4> HIDE DEF e, t, l
      <4>2. ASSUME m = ranks - 1 PROVE cursor + size <= e /\ l + size <= e
        BY <1>1, <1>7, <2>1, <4>1, <4>2
      <4> QED
        BY <3>1, <3>2, <4>2
    <3>4. (m + 2) * S <= t /\ (m + 2) * S = e + S
      <4>1. m + 2 \in Nat /\ m + 2 <= ranks
        BY <1>5, <3>3
      <4>2. (m + 2) * S <= t
        BY <4>1, Monotone
      <4>3. (m + 2) * S = (m + 1) * S + S
        BY <1>5
      <4> QED
        BY <4>2, <4>3
    <3> DEFINE u == (m + 2) * S
    <3>5. u <= t /\ u = e + S
      BY <3>4
    <3> HIDE DEF u, e, t
    <3> QED
      BY <1>6, <1>7, <2>1, <3>1, <3>5
  <2> QED
    BY <2>3, <2>4
<1>8. ASSUME block = 1 PROVE x + size <= ranks * S
  <2> DEFINE i == cursor \div S
  <2>1. Start(i) = cursor
    BY <1>8, StartsAtCursor
  <2>2. i \in shards
    <3>1. i \in cursor \div S .. ranks - 1
      BY <1>2, <1>5
    <3>2. cursor # NoStart
      BY DEF NoStart
    <3> QED
      BY <2>1, <3>1, <3>2
  <2>3. m = i
    <3>1. m <= i /\ i <= m
      BY <1>4, <1>5, <2>2
    <3> HIDE DEF m
    <3> QED
      BY <1>2, <1>5, <3>1
  <2>4. x = cursor
    BY <1>1, <2>1, <2>3
  <2>5. S * ranks = ranks * S
    OBVIOUS
  <2> HIDE DEF x, shards, m, i
  <2> QED
    BY <1>1, <2>4, <2>5
<1> HIDE DEF x, m, shards
<1>9. /\ x \in Nat /\ cursor <= x /\ CutsWholeBlocks(x, size, block, S)
      /\ Modest(size, block, S) => x + size <= ranks * S
  BY <1>6, <1>7, <1>8 DEF Modest
<1> QED
  BY <1>9 DEF x

----------------------------------------------------------------------------
(* Tensors one after the other.                                            *)

\* the start of a tensor, from the start of the one before it
StartAfter(elements, S, ranks, j, before) ==
  IF j > 1 /\ before = NoStart THEN NoStart
  ELSE NextValidTensorStart(IF j = 1 THEN 0 ELSE before + Size(elements[j - 1]),
                            Size(elements[j]), elements[j].block, S, ranks)

Starts(elements, S, ranks, start) ==
  start = [j \in DOMAIN elements |-> StartAfter(elements, S, ranks, j, start[j - 1])]

LEMMA StartsChosen ==
  ASSUME NEW elements, NEW S, NEW ranks
  PROVE  CheckValidShardSize(elements, S, ranks) = CHOOSE start : Starts(elements, S, ranks, start)
BY DEF CheckValidShardSize, Starts, StartAfter

\* nothing is before the first
LEMMA FirstStart ==
  ASSUME NEW elements, NEW S, NEW ranks, NEW p, NEW q
  PROVE  StartAfter(elements, S, ranks, 1, p) = StartAfter(elements, S, ranks, 1, q)
BY DEF StartAfter

LEMMA StartsExist ==
  ASSUME NEW elements, NEW S, NEW ranks, NEW n \in Nat, DOMAIN elements = 1 .. n
  PROVE  \E start : Starts(elements, S, ranks, start)
<1> DEFINE F(j, p) == StartAfter(elements, S, ranks, j, p)
           Good == {k \in Nat : \E h : h = [j \in 1 .. k |-> h[j]] /\ \A j \in 1 .. k : h[j] = F(j, h[j - 1])}
<1>0. \A p, q : F(1, p) = F(1, q)
  BY FirstStart
<1> HIDE DEF F
<1>1. 0 \in Good
  <2> DEFINE h == [j \in 1 .. 0 |-> 0]
  <2>1. h = [j \in 1 .. 0 |-> h[j]] /\ \A j \in 1 .. 0 : h[j] = F(j, h[j - 1])
    OBVIOUS
  <2> QED
    BY <2>1
<1>2. ASSUME NEW k \in Nat, k \in Good PROVE k + 1 \in Good
  <2>1. PICK h : h = [j \in 1 .. k |-> h[j]] /\ \A j \in 1 .. k : h[j] = F(j, h[j - 1])
    BY <1>2
  <2> DEFINE g == [j \in 1 .. k + 1 |-> IF j = k + 1 THEN F(k + 1, h[k]) ELSE h[j]]
  <2>2. g = [j \in 1 .. k + 1 |-> g[j]]
    OBVIOUS
  <2>3. \A j \in 1 .. k : g[j] = h[j]
    OBVIOUS
  <2>4. g[k + 1] = F(k + 1, h[k])
    OBVIOUS
  <2> HIDE DEF g
  <2>5. ASSUME NEW j \in 1 .. k + 1 PROVE g[j] = F(j, g[j - 1])
    <3>1. CASE j = 1
      <4>1. g[1] = F(1, h[0])
        <5>1. CASE k = 0
          BY <2>4, <5>1
        <5>2. CASE k # 0
          <6>1. 1 \in 1 .. k /\ 1 - 1 = 0
            BY <5>2
          <6> QED
            BY <2>1, <2>3, <6>1
        <5> QED
          BY <5>1, <5>2
      <4> QED
        BY <1>0, <3>1, <4>1
    <3>2. CASE j # 1 /\ j = k + 1
      <4>1. k \in 1 .. k /\ j - 1 = k
        BY <3>2
      <4> QED
        BY <2>3, <2>4, <3>2, <4>1
    <3>3. CASE j # 1 /\ j # k + 1
      <4>1. j \in 1 .. k /\ j - 1 \in 1 .. k
        BY <3>3
      <4> QED
        BY <2>1, <2>3, <4>1
    <3> QED
      BY <3>1, <3>2, <3>3
  <2> HIDE DEF Good
  <2>6. k + 1 \in Nat
    OBVIOUS
  <2> QED
    BY <2>2, <2>5, <2>6 DEF Good
<1> HIDE DEF Good
<1>3. n \in Good
  BY <1>1, <1>2, Induct
<1>4. PICK h : h = [j \in 1 .. n |-> h[j]] /\ \A j \in 1 .. n : h[j] = F(j, h[j - 1])
  BY <1>3 DEF Good
<1>5. h = [j \in 1 .. n |-> F(j, h[j - 1])]
  BY <1>4
<1> QED
  BY <1>5 DEF Starts, F

\* tensors with sizes and blocks
Sized(elements, n) ==
  /\ n \in Nat /\ DOMAIN elements = 1 .. n
  /\ \A j \in 1 .. n : Size(elements[j]) \in Nat /\ elements[j].block \in Nat \ {0}

LEMMA StartIs ==
  ASSUME NEW elements, NEW S, NEW ranks, NEW n, Sized(elements, n)
  PROVE  LET start == CheckValidShardSize(elements, S, ranks)
         IN /\ DOMAIN start = 1 .. n
            /\ start = [j \in 1 .. n |-> start[j]]
            /\ \A j \in 1 .. n : start[j] = StartAfter(elements, S, ranks, j, start[j - 1])
<1> DEFINE start == CheckValidShardSize(elements, S, ranks)
<1>1. Starts(elements, S, ranks, start)
  <2>1. \E h : Starts(elements, S, ranks, h)
    BY StartsExist DEF Sized
  <2> QED
    BY <2>1, StartsChosen
<1> HIDE DEF start
<1>2. start = [j \in 1 .. n |-> StartAfter(elements, S, ranks, j, start[j - 1])]
  BY <1>1 DEF Starts, Sized
<1>3. /\ DOMAIN start = 1 .. n
      /\ start = [j \in 1 .. n |-> start[j]]
      /\ \A j \in 1 .. n : start[j] = StartAfter(elements, S, ranks, j, start[j - 1])
  BY <1>2
<1> QED
  BY <1>3 DEF start

\* Placed tensors: each after the one before, within the bucket if it is modest,
\* and cut between blocks.
PlacedInOrder(elements, start, n, S, ranks) ==
  /\ start \in [1 .. n -> Nat]
  /\ \A j \in 1 .. n :
       /\ CutsWholeBlocks(start[j], Size(elements[j]), elements[j].block, S)
       /\ Modest(Size(elements[j]), elements[j].block, S) => start[j] + Size(elements[j]) <= ranks * S
  /\ \A j \in 1 .. n : j > 1 => start[j - 1] + Size(elements[j - 1]) <= start[j]

LEMMA FittingIsPlaced ==
  ASSUME NEW elements, NEW S \in Nat \ {0}, NEW ranks \in Nat \ {0}, NEW n, Sized(elements, n),
         Fits(elements, S, ranks)
  PROVE  PlacedInOrder(elements, CheckValidShardSize(elements, S, ranks), n, S, ranks)
<1> DEFINE start == CheckValidShardSize(elements, S, ranks)
<1>1. /\ start = [j \in 1 .. n |-> start[j]]
      /\ \A j \in 1 .. n : start[j] = StartAfter(elements, S, ranks, j, start[j - 1])
  BY StartIs
<1>2. \A j \in 1 .. n : start[j] # NoStart
  BY DEF Fits, Sized
<1> HIDE DEF start
<1> DEFINE Placed(j) ==
             LET size == Size(elements[j])
                 block == elements[j].block
             IN /\ start[j] \in Nat
                /\ CutsWholeBlocks(start[j], size, block, S)
                /\ Modest(size, block, S) => start[j] + size <= ranks * S
                /\ j > 1 => start[j - 1] + Size(elements[j - 1]) <= start[j]
           Good == {k \in Nat : \A j \in 1 .. k : j <= n => Placed(j)}
<1>3. 0 \in Good
  OBVIOUS
<1>4. ASSUME NEW k \in Nat, k \in Good PROVE k + 1 \in Good
  <2> DEFINE j == k + 1
             before == IF j = 1 THEN 0 ELSE start[k] + Size(elements[k])
             size == Size(elements[j])
             block == elements[j].block
  <2>1. ASSUME j <= n PROVE Placed(j)
    <3>0. n \in Nat
      BY DEF Sized
    <3>1. j \in 1 .. n /\ j - 1 = k /\ j \in Nat
      BY <2>1, <3>0
    <3>2. j # 1 => k \in 1 .. k /\ k <= n /\ k \in 1 .. n
      BY <2>1, <3>0
    <3>3. j # 1 => start[k] \in Nat /\ start[k] # NoStart
      <4>1. j # 1 => Placed(k)
        BY <1>4, <3>2
      <4> QED
        BY <1>2, <3>2, <4>1
    <3>4. before \in Nat
      BY <3>2, <3>3 DEF Sized
    <3>5. start[j] = NextValidTensorStart(before, size, block, S, ranks)
      <4>1. start[j] = StartAfter(elements, S, ranks, j, start[k])
        BY <1>1, <3>1
      <4> HIDE DEF j
      <4>2. StartAfter(elements, S, ranks, j, start[k])
              = NextValidTensorStart(IF j = 1 THEN 0 ELSE start[k] + Size(elements[k]), size, block, S, ranks)
        BY <3>1, <3>3 DEF StartAfter
      <4> QED
        BY <4>1, <4>2
    <3>6. size \in Nat /\ block \in Nat \ {0} /\ start[j] # NoStart
      BY <1>2, <3>1 DEF Sized
    <3>9. j > 1 => before = start[j - 1] + Size(elements[j - 1])
      BY <3>1
    <3> HIDE DEF j, before, size, block
    <3>7. /\ start[j] \in Nat /\ before <= start[j] /\ CutsWholeBlocks(start[j], size, block, S)
          /\ Modest(size, block, S) => start[j] + size <= ranks * S
      BY <3>4, <3>5, <3>6, NextStarts
    <3>8. j > 1 => start[j - 1] + Size(elements[j - 1]) <= start[j]
      BY <3>7, <3>9
    <3> HIDE DEF before
    <3>10. /\ start[j] \in Nat /\ CutsWholeBlocks(start[j], size, block, S)
           /\ Modest(size, block, S) => start[j] + size <= ranks * S
           /\ j > 1 => start[j - 1] + Size(elements[j - 1]) <= start[j]
      BY <3>7, <3>8
    <3> QED
      BY ONLY <3>10 DEF size, block
  <2> HIDE DEF Placed
  <2>2. ASSUME NEW i \in 1 .. k + 1, i <= n PROVE Placed(i)
    <3>1. CASE i = k + 1
      BY <2>1, <2>2, <3>1
    <3>2. CASE i # k + 1
      <4>1. i \in 1 .. k
        BY <3>2
      <4> QED
        BY <1>4, <2>2, <4>1
    <3> QED
      BY <3>1, <3>2
  <2> QED
    BY <2>2
<1> HIDE DEF Good, Placed
<1>5. n \in Good /\ n \in Nat
  BY <1>3, <1>4, Induct DEF Sized
<1>6. ASSUME NEW j \in 1 .. n PROVE Placed(j)
  BY <1>5 DEF Good
<1>7. start \in [1 .. n -> Nat]
  BY <1>1, <1>6 DEF Placed
<1>8. PlacedInOrder(elements, start, n, S, ranks)
  BY <1>6, <1>7 DEF PlacedInOrder, Placed
<1> QED
  BY <1>8 DEF start

\* later tensors start after earlier ones end
LEMMA SideBySide ==
  ASSUME NEW elements, NEW S, NEW ranks, NEW n, Sized(elements, n), NEW start,
         PlacedInOrder(elements, start, n, S, ranks),
         NEW i \in 1 .. n, NEW k \in 1 .. n, i < k
  PROVE  start[i] + Size(elements[i]) <= start[k]
<1> DEFINE End(j) == start[j] + Size(elements[j])
           Good == {d \in Nat : i + d + 1 <= n => End(i) <= start[i + d + 1]}
<1>1. /\ n \in Nat /\ \A j \in 1 .. n : start[j] \in Nat /\ End(j) \in Nat /\ start[j] <= End(j)
      /\ \A j \in 1 .. n : j > 1 => End(j - 1) <= start[j]
  <2>1. n \in Nat /\ \A j \in 1 .. n : Size(elements[j]) \in Nat
    BY DEF Sized
  <2>2. /\ \A j \in 1 .. n : start[j] \in Nat
        /\ \A j \in 1 .. n : j > 1 => End(j - 1) <= start[j]
    BY DEF PlacedInOrder
  <2> QED
    BY <2>1, <2>2
<1> HIDE DEF End
<1>2. 0 \in Good
  <2>1. ASSUME i + 0 + 1 <= n PROVE End(i) <= start[i + 0 + 1]
    <3>1. i + 1 \in 1 .. n /\ i + 1 > 1 /\ (i + 1) - 1 = i /\ i + 0 + 1 = i + 1
      BY <1>1, <2>1
    <3> QED
      BY <1>1, <3>1
  <2> QED
    BY <2>1
<1>3. ASSUME NEW d \in Nat, d \in Good PROVE d + 1 \in Good
  <2>1. ASSUME i + (d + 1) + 1 <= n PROVE End(i) <= start[i + (d + 1) + 1]
    <3> DEFINE j == i + d + 1
    <3>1. j \in 1 .. n /\ j + 1 \in 1 .. n /\ j + 1 > 1 /\ (j + 1) - 1 = j /\ i + (d + 1) + 1 = j + 1
      BY <1>1, <2>1
    <3>2. j <= n
      BY <1>1, <2>1
    <3> HIDE DEF j
    <3>3. End(i) <= start[j]
      BY <1>3, <3>2 DEF j
    <3>4. start[j] <= End(j) /\ End(j) <= start[j + 1]
      BY <1>1, <3>1
    <3>5. End(i) \in Nat /\ End(j) \in Nat /\ start[j] \in Nat /\ start[j + 1] \in Nat
      BY <1>1, <3>1
    <3>6. End(i) <= start[j + 1]
      BY <3>3, <3>4, <3>5
    <3> QED
      BY <3>1, <3>6
  <2> QED
    BY <2>1
<1> HIDE DEF Good
<1>4. k - i - 1 \in Nat /\ i + (k - i - 1) + 1 = k /\ k <= n
  BY <1>1
<1>5. k - i - 1 \in Good
  BY <1>2, <1>3, <1>4, Induct
<1>6. End(i) <= start[i + (k - i - 1) + 1]
  BY <1>4, <1>5 DEF Good
<1> QED
  BY <1>4, <1>6 DEF End

----------------------------------------------------------------------------
(* Large shards have room.                                                 *)

LEMMA StartsInFirstShard ==
  ASSUME NEW S \in Nat \ {0}, NEW ranks \in Nat \ {0}, NEW cursor \in Nat, NEW size \in Nat, NEW block,
         cursor + size < S
  PROVE  NextValidTensorStart(cursor, size, block, S, ranks) = cursor
<1> DEFINE Start(i) == StartInShard(i, cursor, size, block, S)
           shards == {i \in cursor \div S .. ranks - 1 : Start(i) # NoStart}
<1>1. cursor \div S = 0
  <2>1. 1 \in Nat /\ cursor < 1 * S
    OBVIOUS
  <2>2. cursor \div S < 1 /\ cursor \div S \in Nat
    BY <2>1, Quotient, QuotientBounds
  <2> QED
    BY <2>2
<1>2. Start(0) = cursor
  <2>1. 0 * S = 0 /\ (0 + 1) * S = S
    OBVIOUS
  <2>2. Base(0, cursor, S) = cursor
    BY <2>1 DEF Base, Larger
  <2>3. Base(0, cursor, S) + size <= (0 + 1) * S
    BY <2>1, <2>2
  <2> QED
    BY <2>2, <2>3, FitsAtBase
<1>3. 0 \in shards /\ shards \subseteq Nat
  <2>1. 0 \in 0 .. ranks - 1 /\ cursor # NoStart
    BY DEF NoStart
  <2>2. \A i \in 0 .. ranks - 1 : i \in Nat
    OBVIOUS
  <2> HIDE DEF Start
  <2> QED
    BY <1>1, <1>2, <2>1, <2>2
<1>4. Min(shards) = 0
  <2> HIDE DEF shards
  <2>1. Min(shards) \in shards /\ Min(shards) <= 0
    BY <1>3, LeastIs
  <2>2. Min(shards) \in Nat
    BY <1>3, <2>1
  <2> QED
    BY <2>1, <2>2
<1>5. ~(cursor + size > S * ranks)
  <2>1. 1 * S <= ranks * S
    BY Monotone
  <2>2. S <= S * ranks /\ S * ranks \in Nat
    BY <2>1
  <2> DEFINE t == S * ranks
  <2>3. S <= t /\ t \in Nat
    BY <2>2
  <2> HIDE DEF t
  <2>4. ~(cursor + size > t)
    BY <2>3
  <2> QED
    BY <2>4 DEF t
<1>6. NextValidTensorStart(cursor, size, block, S, ranks) =
        IF cursor + size > S * ranks \/ shards = {} THEN NoStart ELSE Start(Min(shards))
  BY DEF NextValidTensorStart
<1> HIDE DEF shards, Start
<1> QED
  BY <1>2, <1>3, <1>4, <1>5, <1>6

\* the sizes of the first tensors, added up
SizesBefore(elements, n, pre) ==
  /\ pre[0] = 0
  /\ \A k \in 0 .. n : pre[k] \in Nat
  /\ \A k \in Nat : k + 1 <= n => pre[k + 1] = pre[k] + Size(elements[k + 1])

LEMMA PrefixesExist ==
  ASSUME NEW elements, NEW n, Sized(elements, n)
  PROVE  \E pre : SizesBefore(elements, n, pre)
<1> DEFINE D == 1 .. n
           f == [j \in D |-> Size(elements[j])]
           q == [j \in D |-> j]
<1>1. n \in Nat /\ f \in [D -> Nat]
  BY DEF Sized
<1>2. q \in Seq(D) /\ Len(q) = n
  <2>1. q \in [1 .. n -> D]
    OBVIOUS
  <2> HIDE DEF q, D
  <2>2. q \in Seq(D)
    BY <1>1, <2>1, SeqDef
  <2>3. DOMAIN q = 1 .. n
    BY <2>1
  <2> QED
    BY <1>1, <2>2, <2>3, LenProperties
<1>3. \A k \in Nat : k + 1 <= n => f[q[k + 1]] = Size(elements[k + 1])
  <2>1. ASSUME NEW k \in Nat, k + 1 <= n PROVE f[q[k + 1]] = Size(elements[k + 1])
    <3>1. k + 1 \in D
      BY <1>1, <2>1
    <3> QED
      BY <3>1
  <2> QED
    BY <2>1
<1> HIDE DEF D, f, q
<1>4. PICK s : Running(f, q, s) /\ \A k \in 0 .. Len(q) : s[k] \in Nat
  BY <1>1, <1>2, RunningExists
<1>5. SizesBefore(elements, n, s)
  BY <1>2, <1>3, <1>4 DEF SizesBefore, Running
<1> QED
  BY <1>5

LEMMA PrefixesGrow ==
  ASSUME NEW elements, NEW n, Sized(elements, n), NEW pre, SizesBefore(elements, n, pre), NEW k \in 0 .. n
  PROVE  pre[k] <= pre[n]
<1> DEFINE Good == {d \in Nat : d <= n => pre[n - d] <= pre[n]}
<1>1. n \in Nat /\ \A j \in 0 .. n : pre[j] \in Nat
  BY DEF Sized, SizesBefore
<1>2. 0 \in Good
  <2>1. n - 0 = n /\ pre[n] \in Nat
    BY <1>1
  <2> QED
    BY <2>1
<1>3. ASSUME NEW d \in Nat, d \in Good PROVE d + 1 \in Good
  <2>1. ASSUME d + 1 <= n PROVE pre[n - (d + 1)] <= pre[n]
    <3> DEFINE j == n - (d + 1)
    <3>1. j \in Nat /\ j + 1 <= n /\ n - d = j + 1 /\ j \in 0 .. n /\ j + 1 \in 0 .. n /\ j + 1 \in 1 .. n /\ n \in 0 .. n
      BY <1>1, <2>1
    <3> HIDE DEF j
    <3>2. pre[j + 1] = pre[j] + Size(elements[j + 1]) /\ Size(elements[j + 1]) \in Nat
      BY <3>1 DEF SizesBefore, Sized
    <3>3. pre[j + 1] <= pre[n]
      <4>1. d <= n
        BY <1>1, <2>1
      <4>2. pre[n - d] <= pre[n]
        BY <1>3, <4>1
      <4> QED
        BY <3>1, <4>2
    <3>4. pre[j] \in Nat /\ pre[n] \in Nat
      BY <1>1, <3>1
    <3>5. pre[j] <= pre[n]
      BY <3>2, <3>3, <3>4
    <3> QED
      BY <3>5 DEF j
  <2> QED
    BY <2>1
<1> HIDE DEF Good
<1>4. n - k \in Nat /\ n - k <= n /\ n - (n - k) = k
  BY <1>1
<1>5. n - k \in Good
  BY <1>2, <1>3, <1>4, Induct
<1>6. pre[n - (n - k)] <= pre[n]
  BY <1>4, <1>5 DEF Good
<1> QED
  BY <1>4, <1>6

\* with all sizes in the first shard, everything fits
LEMMA LargeShardsFit ==
  ASSUME NEW elements, NEW n, Sized(elements, n), NEW ranks \in Nat \ {0}
  PROVE  \E b \in Nat : \A S \in Nat : b <= S => Fits(elements, S, ranks)
<1>1. PICK pre : SizesBefore(elements, n, pre)
  BY PrefixesExist
<1>2. n \in Nat /\ \A j \in 0 .. n : pre[j] \in Nat
  BY <1>1 DEF Sized, SizesBefore
<1>3. pre[n] + 1 \in Nat
  BY <1>2
<1>4. ASSUME NEW S \in Nat, pre[n] + 1 <= S PROVE Fits(elements, S, ranks)
  <2> DEFINE start == CheckValidShardSize(elements, S, ranks)
             Good == {k \in Nat : k + 1 <= n => start[k + 1] = pre[k]}
  <2>1. \A j \in 1 .. n : start[j] = StartAfter(elements, S, ranks, j, start[j - 1])
    BY StartIs
  <2>0. S \in Nat \ {0} /\ pre[n] < S
    BY <1>2, <1>4
  <2> HIDE DEF start
  <2>2. ASSUME NEW k \in Nat, k + 1 <= n, k = 0 \/ (k # 0 /\ start[k] = pre[k - 1])
        PROVE  start[k + 1] = pre[k]
    <3> DEFINE j == k + 1
               size == Size(elements[j])
               block == elements[j].block
    <3>1. j \in 1 .. n /\ j - 1 = k /\ k \in 0 .. n /\ j \in 0 .. n
      BY <1>2, <2>2
    <3>2. pre[j] = pre[k] + size /\ size \in Nat /\ pre[k] \in Nat
      BY <1>1, <1>2, <2>2, <3>1 DEF SizesBefore, Sized
    <3>3. pre[j] <= pre[n] /\ pre[j] \in Nat /\ pre[n] \in Nat
      BY <1>1, <1>2, <3>1, PrefixesGrow
    <3>4. start[j] = StartAfter(elements, S, ranks, j, start[k])
      BY <2>1, <3>1
    <3>5. StartAfter(elements, S, ranks, j, start[k]) = NextValidTensorStart(pre[k], size, block, S, ranks)
      <4>1. CASE k = 0
        <5>1. j = 1 /\ pre[k] = 0
          BY <1>1, <4>1 DEF SizesBefore
        <5> HIDE DEF j
        <5> QED
          BY <5>1 DEF StartAfter
      <4>2. CASE k # 0
        <5>1. start[k] = pre[k - 1] /\ k - 1 \in Nat /\ (k - 1) + 1 = k /\ k <= n /\ k - 1 \in 0 .. n
          BY <1>2, <2>2, <4>2
        <5>2. pre[k] = pre[k - 1] + Size(elements[k])
          BY <1>1, <5>1 DEF SizesBefore
        <5>3. start[k] # NoStart
          BY <1>2, <5>1 DEF NoStart
        <5>4. j # 1
          BY <4>2
        <5> HIDE DEF j
        <5> QED
          BY <3>1, <5>1, <5>2, <5>3, <5>4 DEF StartAfter
      <4> QED
        BY <4>1, <4>2
    <3> HIDE DEF j, size, block
    <3>6. pre[k] + size < S
      BY <2>0, <3>2, <3>3
    <3>7. start[j] = pre[k]
      BY <2>0, <3>2, <3>4, <3>5, <3>6, StartsInFirstShard
    <3> QED
      BY <3>7 DEF j
  <2>3. 0 \in Good
    BY <2>2
  <2>4. ASSUME NEW k \in Nat, k \in Good PROVE k + 1 \in Good
    <3>1. ASSUME (k + 1) + 1 <= n PROVE start[(k + 1) + 1] = pre[k + 1]
      <4>1. k + 1 \in Nat /\ k + 1 # 0 /\ k + 1 <= n /\ (k + 1) - 1 = k
        BY <1>2, <3>1
      <4>2. start[k + 1] = pre[k]
        BY <2>4, <4>1
      <4> QED
        BY <2>2, <3>1, <4>1, <4>2
    <3> QED
      BY <3>1
  <2> HIDE DEF Good
  <2>5. ASSUME NEW j \in 1 .. n PROVE start[j] # NoStart
    <3>1. j - 1 \in Nat /\ (j - 1) + 1 = j /\ j <= n /\ j - 1 \in 0 .. n
      BY <1>2
    <3>2. j - 1 \in Good
      BY <2>3, <2>4, <3>1, Induct
    <3>3. start[(j - 1) + 1] = pre[j - 1]
      BY <3>1, <3>2 DEF Good
    <3>4. start[j] \in Nat
      BY <1>2, <3>1, <3>3
    <3> QED
      BY <3>4 DEF NoStart
  <2> QED
    BY <2>5 DEF Fits, Sized, start
<1> QED
  BY <1>3, <1>4

----------------------------------------------------------------------------
(* Loops: a function that is given at some arguments and else is its value *)
(* at the next one.                                                        *)

Loop(g, D, stop, next, leaf) ==
  \A x \in D : g[x] = IF x \in stop THEN leaf[x] ELSE g[next[x]]

\* A loop with a bound on the steps left has a function, ...
LEMMA LoopExists ==
  ASSUME NEW D, NEW A, NEW stop, NEW next \in [D -> D], NEW leaf \in [D -> A],
         NEW bound \in Nat, NEW m \in [D -> 0 .. bound],
         \A x \in D : x \notin stop => m[next[x]] < m[x]
  PROVE  \E g \in [D -> A] : Loop(g, D, stop, next, leaf)
<1> DEFINE Right(g, x) == g[x] = IF x \in stop THEN leaf[x] ELSE g[next[x]]
           Good == {k \in Nat : \E g \in [D -> A] : \A x \in D : m[x] < k => Right(g, x)}
<1>0. \A x \in D : m[x] \in Nat /\ m[x] <= bound /\ next[x] \in D /\ leaf[x] \in A
  OBVIOUS
<1>1. 0 \in Good
  <2>1. leaf \in [D -> A] /\ \A x \in D : ~(m[x] < 0)
    BY <1>0
  <2> HIDE DEF Right
  <2> QED
    BY <2>1
<1>2. ASSUME NEW k \in Nat, k \in Good PROVE k + 1 \in Good
  <2>1. PICK g \in [D -> A] : \A x \in D : m[x] < k => Right(g, x)
    BY <1>2
  <2> DEFINE h == [x \in D |-> IF x \in stop THEN leaf[x] ELSE IF m[x] = k THEN g[next[x]] ELSE g[x]]
  <2>2. h \in [D -> A]
    <3>1. \A x \in D : h[x] \in A
      BY <1>0
    <3>2. h = [x \in D |-> h[x]]
      OBVIOUS
    <3> HIDE DEF h
    <3> QED
      BY <3>1, <3>2
  <2>3. ASSUME NEW x \in D, m[x] < k PROVE h[x] = g[x]
    <3>1. m[x] # k
      BY <1>0, <2>3
    <3>2. x \in stop => g[x] = leaf[x]
      BY <2>1, <2>3
    <3> QED
      BY <3>1, <3>2
  <2>4. ASSUME NEW x \in D, m[x] < k + 1 PROVE Right(h, x)
    <3>1. CASE x \in stop
      BY <3>1
    <3>2. CASE x \notin stop /\ m[x] = k
      <4>1. h[x] = g[next[x]]
        BY <3>2
      <4>2. next[x] \in D /\ m[next[x]] < k
        BY <1>0, <3>2
      <4>3. h[next[x]] = g[next[x]]
        BY <2>3, <4>2
      <4> QED
        BY <3>2, <4>1, <4>3
    <3>3. CASE x \notin stop /\ m[x] # k
      <4>1. m[x] < k /\ next[x] \in D /\ m[next[x]] \in Nat /\ m[next[x]] < m[x]
        BY <1>0, <2>4, <3>3
      <4>2. m[next[x]] < k
        BY <1>0, <4>1
      <4>3. h[x] = g[x] /\ h[next[x]] = g[next[x]]
        BY <2>3, <4>1, <4>2
      <4>4. g[x] = g[next[x]]
        BY <2>1, <3>3, <4>1
      <4> QED
        BY <3>3, <4>3, <4>4
    <3> QED
      BY <3>1, <3>2, <3>3
  <2> HIDE DEF h, Right
  <2> QED
    BY <2>2, <2>4
<1> HIDE DEF Good
<1>3. bound + 1 \in Good
  BY <1>1, <1>2, Induct
<1>4. PICK g \in [D -> A] : \A x \in D : m[x] < bound + 1 => Right(g, x)
  BY <1>3 DEF Good
<1>5. \A x \in D : m[x] < bound + 1
  BY <1>0
<1> QED
  BY <1>4, <1>5 DEF Loop, Right

\* ... whose values are those where it stops.
Runs(Inv, stop, next, leaf, m, A) ==
  \A x \in Inv : /\ x \in stop => leaf[x] \in A
                 /\ x \notin stop => next[x] \in Inv /\ m[next[x]] < m[x]
Yields(g, Inv, A) == \A x \in Inv : g[x] \in A

LEMMA LoopValue ==
  ASSUME NEW D, NEW A, NEW stop, NEW next, NEW leaf,
         NEW bound \in Nat, NEW m \in [D -> 0 .. bound],
         NEW g, Loop(g, D, stop, next, leaf),
         NEW Inv, Inv \subseteq D, Runs(Inv, stop, next, leaf, m, A)
  PROVE  Yields(g, Inv, A)
<1> DEFINE Good == {k \in Nat : \A x \in Inv : m[x] < k => g[x] \in A}
<1>0. \A x \in Inv : x \in D /\ m[x] \in Nat /\ m[x] <= bound
  OBVIOUS
<1>1. 0 \in Good
  BY <1>0
<1>2. ASSUME NEW k \in Nat, k \in Good PROVE k + 1 \in Good
  <2>1. ASSUME NEW x \in Inv, m[x] < k + 1 PROVE g[x] \in A
    <3>1. CASE x \in stop
      BY <1>0, <3>1 DEF Loop, Runs
    <3>2. CASE x \notin stop
      <4>1. next[x] \in Inv /\ m[next[x]] < m[x] /\ m[next[x]] \in Nat /\ m[x] \in Nat
        BY <1>0, <3>2 DEF Runs
      <4>2. m[next[x]] < k
        BY <2>1, <4>1
      <4>3. g[x] = g[next[x]]
        BY <1>0, <3>2 DEF Loop
      <4> QED
        BY <1>2, <4>1, <4>2, <4>3
    <3> QED
      BY <3>1, <3>2
  <2> QED
    BY <2>1
<1> HIDE DEF Good
<1>3. bound + 1 \in Good
  BY <1>1, <1>2, Induct
<1>4. \A x \in Inv : m[x] < bound + 1
  BY <1>0
<1> QED
  BY <1>3, <1>4 DEF Good, Yields

----------------------------------------------------------------------------
(* The search for a size of shards.                                        *)

Room(elements, ranks, a, k) == Fits(elements, k * a, ranks)
LowestSize(elements, ranks, a) == Larger(1, CeilDiv(CeilDiv(TotalSize(elements), ranks), a))

DoubledIs(elements, ranks, a, g) ==
  g = [k \in Nat |-> IF Room(elements, ranks, a, k) THEN k ELSE g[2 * k]]
Doubled(elements, ranks, a) == CHOOSE g : DoubledIs(elements, ranks, a, g)

Spans(high) == [lo : 1 .. high + 1, hi : 0 .. high, best : 1 .. high]
Middle(s) == (s.lo + s.hi) \div 2
Below(s) == [s EXCEPT !.hi = Middle(s) - 1, !.best = Middle(s)]
Above(s) == [s EXCEPT !.lo = Middle(s) + 1]
SearchIs(elements, ranks, a, high, g) ==
  g = [s \in Spans(high) |-> IF s.lo > s.hi THEN s.best
                             ELSE IF Room(elements, ranks, a, Middle(s)) THEN g[Below(s)] ELSE g[Above(s)]]
Searched(elements, ranks, a, high) == CHOOSE g : SearchIs(elements, ranks, a, high, g)

LEMMA SizeChosen ==
  ASSUME NEW elements, NEW ranks, NEW a
  PROVE  LET low == LowestSize(elements, ranks, a)
             high == Doubled(elements, ranks, a)[low]
         IN MinimalFeasibleShardSize(elements, ranks, a) =
              Searched(elements, ranks, a, high)[[lo |-> low, hi |-> high, best |-> high]] * a
BY DEF MinimalFeasibleShardSize, LowestSize, Doubled, DoubledIs, Searched, SearchIs, Spans, Room,
       Middle, Below, Above

LEMMA Lowest ==
  ASSUME NEW elements, TotalSize(elements) \in Nat, NEW ranks \in Nat \ {0}, NEW a \in Nat \ {0}
  PROVE  /\ LowestSize(elements, ranks, a) \in Nat \ {0}
         /\ CeilDiv(TotalSize(elements), ranks) \in Nat
         /\ \A k \in Nat : LowestSize(elements, ranks, a) <= k =>
              CeilDiv(TotalSize(elements), ranks) <= k * a
<1> DEFINE share == CeilDiv(TotalSize(elements), ranks)
           q == CeilDiv(share, a)
           low == Larger(1, q)
<1>1. share \in Nat
  BY CeilDivBounds
<1> HIDE DEF share
<1>2. q \in Nat /\ share <= a * q
  BY <1>1, CeilDivBounds
<1> HIDE DEF q
<1>3. low \in Nat \ {0} /\ q <= low
  BY <1>2 DEF Larger
<1> HIDE DEF low
<1>4. ASSUME NEW k \in Nat, low <= k PROVE share <= k * a
  <2>1. q <= k
    BY <1>2, <1>3, <1>4
  <2>2. q * a <= k * a /\ q * a = a * q /\ k * a \in Nat /\ q * a \in Nat
    BY <1>2, <2>1, Monotone
  <2> DEFINE x == q * a
             y == k * a
  <2>3. x \in Nat /\ y \in Nat /\ share <= x /\ x <= y
    BY <1>2, <2>2
  <2> HIDE DEF x, y
  <2>4. share <= y
    BY <1>1, <2>3
  <2> QED
    BY <2>4 DEF y
<1> QED
  BY <1>1, <1>3, <1>4 DEF LowestSize, low, q, share

LEMMA RoomAtLast ==
  ASSUME NEW elements, NEW n, Sized(elements, n), NEW ranks \in Nat \ {0}, NEW a \in Nat \ {0}
  PROVE  \E b \in Nat : \A k \in Nat : b <= k => Room(elements, ranks, a, k)
<1>1. PICK b \in Nat : \A S \in Nat : b <= S => Fits(elements, S, ranks)
  BY LargeShardsFit
<1>2. ASSUME NEW k \in Nat, b <= k PROVE Room(elements, ranks, a, k)
  <2>1. k * a \in Nat /\ 1 * k <= a * k /\ a * k = k * a
    BY Monotone
  <2> DEFINE y == k * a
  <2>2. y \in Nat /\ k <= y
    BY <2>1
  <2> HIDE DEF y
  <2>3. b <= y
    BY <1>2, <2>2
  <2>4. Fits(elements, y, ranks)
    BY <1>1, <2>2, <2>3
  <2> QED
    BY <2>4 DEF Room, y
<1> QED
  BY <1>2

\* doubling ends at a size with room
LEMMA DoublingEnds ==
  ASSUME NEW elements, NEW n, Sized(elements, n), NEW ranks \in Nat \ {0}, NEW a \in Nat \ {0},
         NEW low \in Nat \ {0}
  PROVE  LET high == Doubled(elements, ranks, a)[low]
         IN high \in Nat /\ low <= high /\ Room(elements, ranks, a, high)
<1> DEFINE R(k) == Room(elements, ranks, a, k)
           D == Nat
           stop == {k \in D : R(k)} \cup {0}
           next == [k \in D |-> 2 * k]
           leaf == [k \in D |-> k]
<1>1. PICK b \in Nat : \A k \in Nat : b <= k => R(k)
  BY RoomAtLast
<1> HIDE DEF R
<1> DEFINE m == [k \in D |-> IF k < b THEN b - k ELSE 0]
<1>2. m \in [D -> 0 .. b]
  <2>1. \A k \in D : m[k] \in 0 .. b
    OBVIOUS
  <2>2. m = [k \in D |-> m[k]]
    OBVIOUS
  <2> HIDE DEF m
  <2> QED
    BY <2>1, <2>2
<1>3. next \in [D -> D] /\ leaf \in [D -> D]
  OBVIOUS
<1>4. \A k \in D : k \notin stop => m[next[k]] < m[k]
  <2>1. ASSUME NEW k \in D, k \notin stop PROVE m[next[k]] < m[k]
    <3>1. k # 0 /\ ~(b <= k)
      BY <1>1, <2>1
    <3>2. k < b /\ 2 * k \in D /\ k < 2 * k /\ next[k] = 2 * k
      BY <3>1
    <3>3. m[k] = b - k
      BY <3>2
    <3>4. m[2 * k] = IF 2 * k < b THEN b - (2 * k) ELSE 0
      BY <3>2
    <3> HIDE DEF m, next
    <3> QED
      BY <3>2, <3>3, <3>4
  <2> QED
    BY <2>1
<1> HIDE DEF m, next, leaf, stop, D
<1>5. PICK g \in [D -> D] : Loop(g, D, stop, next, leaf)
  BY <1>2, <1>3, <1>4, LoopExists
<1>6. DoubledIs(elements, ranks, a, g)
  <2>1. ASSUME NEW k \in Nat PROVE g[k] = IF R(k) THEN k ELSE g[2 * k]
    <3>1. g[k] = IF k \in stop THEN k ELSE g[2 * k]
      BY <1>5 DEF Loop, D, next, leaf
    <3>2. CASE R(k)
      BY <3>1, <3>2 DEF stop, D
    <3>3. CASE ~R(k) /\ k # 0
      <4>1. k \notin stop
        BY <3>3 DEF stop
      <4> QED
        BY <3>1, <3>3, <4>1
    <3>4. CASE ~R(k) /\ k = 0
      <4>1. 2 * k = k
        BY <3>4
      <4> QED
        BY <3>4, <4>1
    <3> QED
      BY <3>2, <3>3, <3>4
  <2>2. g = [k \in Nat |-> g[k]]
    BY <1>5 DEF D
  <2>3. g = [k \in Nat |-> IF R(k) THEN k ELSE g[2 * k]]
    BY <2>1, <2>2
  <2> QED
    BY <2>3 DEF DoubledIs, R
<1> DEFINE d == Doubled(elements, ranks, a)
<1>7. DoubledIs(elements, ranks, a, d)
  BY <1>6 DEF Doubled
<1> HIDE DEF d
<1>8. \A k \in Nat : d[k] = IF R(k) THEN k ELSE d[2 * k]
  BY <1>7 DEF DoubledIs, R
<1> DEFINE D2 == Nat \ {0}
           m2 == [k \in D2 |-> m[k]]
           A == {k \in Nat : low <= k /\ R(k)}
           Inv == {k \in Nat : low <= k}
<1>9. Loop(d, D2, stop, next, leaf)
  <2>1. ASSUME NEW k \in D2 PROVE d[k] = IF k \in stop THEN k ELSE d[2 * k]
    <3>1. k \in stop <=> R(k)
      BY <2>1 DEF stop, D
    <3> QED
      BY <1>8, <3>1
  <2> QED
    BY <2>1 DEF Loop, D, next, leaf
<1>10. m2 \in [D2 -> 0 .. b] /\ \A k \in D2 : m2[k] = m[k]
  <2>1. \A k \in D2 : m2[k] = m[k] /\ m2[k] \in 0 .. b
    BY <1>2 DEF D
  <2>2. m2 = [k \in D2 |-> m2[k]]
    OBVIOUS
  <2> HIDE DEF m2, D2
  <2> QED
    BY <2>1, <2>2
<1>11. Inv \subseteq D2
  OBVIOUS
<1>12. ASSUME NEW k \in Inv
       PROVE  /\ k \in stop => leaf[k] \in A
              /\ k \notin stop => next[k] \in Inv /\ m2[next[k]] < m2[k]
  <2>1. k \in Nat /\ low <= k /\ k # 0 /\ 2 * k \in Nat /\ 2 * k # 0 /\ low <= 2 * k
    OBVIOUS
  <2>2. next[k] = 2 * k /\ leaf[k] = k
    BY <2>1 DEF next, leaf, D
  <2>3. k \in stop => R(k)
    BY <2>1 DEF stop
  <2>4. k \notin stop => m[next[k]] < m[k]
    BY <1>4, <2>1 DEF D
  <2>5. m2[k] = m[k] /\ m2[2 * k] = m[2 * k]
    BY <1>10, <2>1
  <2> QED
    BY <2>1, <2>2, <2>3, <2>4, <2>5
<1> HIDE DEF D2, m2, A, Inv
<1>16. Runs(Inv, stop, next, leaf, m2, A)
  BY <1>12 DEF Runs
<1>13. Yields(d, Inv, A)
  BY <1>9, <1>10, <1>11, <1>16, LoopValue
<1>14. low \in Inv
  BY DEF Inv
<1>15. d[low] \in Nat /\ low <= d[low] /\ R(d[low])
  BY <1>13, <1>14 DEF A, Yields
<1> QED
  BY <1>15 DEF d, R

LEMMA Halves ==
  ASSUME NEW high \in Nat, NEW s \in Spans(high), s.lo <= s.hi
  PROVE  /\ Middle(s) \in Nat /\ s.lo <= Middle(s) /\ Middle(s) <= s.hi
         /\ Below(s) \in Spans(high) /\ Below(s).lo = s.lo /\ Below(s).hi = Middle(s) - 1
         /\ Below(s).best = Middle(s)
         /\ Above(s) \in Spans(high) /\ Above(s).lo = Middle(s) + 1 /\ Above(s).hi = s.hi
         /\ Above(s).best = s.best
<1>1. /\ s.lo \in Nat /\ s.hi \in Nat /\ 1 <= s.lo /\ s.hi <= high /\ s.best \in 1 .. high
      /\ s = [lo |-> s.lo, hi |-> s.hi, best |-> s.best]
  BY DEF Spans
<1>2. \A x, y \in Nat : x <= y => (x + y) \div 2 \in Nat /\ x <= (x + y) \div 2 /\ (x + y) \div 2 <= y
  OBVIOUS
<1>3. Middle(s) \in Nat /\ s.lo <= Middle(s) /\ Middle(s) <= s.hi
  BY <1>1, <1>2 DEF Middle
<1>5. /\ Middle(s) - 1 \in 0 .. high /\ Middle(s) \in 1 .. high /\ Middle(s) + 1 \in 1 .. high + 1
  BY <1>1, <1>3
<1>6. /\ Below(s) \in Spans(high)
      /\ Below(s).lo = s.lo /\ Below(s).hi = Middle(s) - 1 /\ Below(s).best = Middle(s)
  <2> DEFINE x == Middle(s) - 1
             y == Middle(s)
             t == [s EXCEPT !.hi = x, !.best = y]
  <2>1. x \in 0 .. high /\ y \in 1 .. high
    BY <1>5
  <2>2. Below(s) = t
    BY DEF Below
  <2> HIDE DEF x, y
  <2>3. t \in Spans(high) /\ t.lo = s.lo /\ t.hi = x /\ t.best = y
    BY <2>1 DEF Spans
  <2> HIDE DEF t
  <2> QED
    BY <2>2, <2>3 DEF x, y
<1>7. /\ Above(s) \in Spans(high)
      /\ Above(s).lo = Middle(s) + 1 /\ Above(s).hi = s.hi /\ Above(s).best = s.best
  <2> DEFINE x == Middle(s) + 1
             t == [s EXCEPT !.lo = x]
  <2>1. x \in 1 .. high + 1
    BY <1>5
  <2>2. Above(s) = t
    BY DEF Above
  <2> HIDE DEF x
  <2>3. t \in Spans(high) /\ t.lo = x /\ t.hi = s.hi /\ t.best = s.best
    BY <2>1 DEF Spans
  <2> HIDE DEF t
  <2> QED
    BY <2>2, <2>3 DEF x
<1> QED
  BY <1>3, <1>6, <1>7

\* bisection ends at a size with room
LEMMA BisectionEnds ==
  ASSUME NEW elements, NEW ranks, NEW a, NEW low \in Nat \ {0}, NEW high \in Nat,
         low <= high, Room(elements, ranks, a, high)
  PROVE  LET k == Searched(elements, ranks, a, high)[[lo |-> low, hi |-> high, best |-> high]]
         IN k \in Nat /\ low <= k /\ Room(elements, ranks, a, k)
<1> DEFINE R(k) == Room(elements, ranks, a, k)
           D == Spans(high)
           stop == {s \in D : s.lo > s.hi}
           next == [s \in D |-> IF s.lo > s.hi THEN s ELSE IF R(Middle(s)) THEN Below(s) ELSE Above(s)]
           leaf == [s \in D |-> s.best]
           left(s) == IF s.lo > s.hi THEN 0 ELSE s.hi + 1 - s.lo
           m == [s \in D |-> left(s)]
           bound == high + 1
           A == {k \in Nat : low <= k /\ R(k)}
           Inv == {s \in D : low <= s.lo /\ s.best \in A}
           first == [lo |-> low, hi |-> high, best |-> high]
<1> HIDE DEF R
<1>1. \A s \in D : /\ s.lo \in Nat /\ s.hi \in Nat /\ 1 <= s.lo /\ s.hi <= high /\ s.best \in 1 .. high
                   /\ s.best \in Nat
  BY DEF Spans
<1>2. bound \in Nat /\ \A s \in D : left(s) \in 0 .. bound
  <2>1. ASSUME NEW s \in D PROVE left(s) \in 0 .. bound
    <3>1. s.lo \in Nat /\ s.hi \in Nat /\ 1 <= s.lo /\ s.hi <= high
      BY <1>1
    <3> QED
      BY <3>1
  <2> QED
    BY <2>1
<1>3. ASSUME NEW s \in D, s \notin stop
      PROVE  next[s] \in D /\ left(next[s]) < left(s) /\ next[s] \in {Below(s), Above(s)}
             /\ (R(Middle(s)) => next[s] = Below(s))
             /\ (~R(Middle(s)) => next[s] = Above(s))
  <2>1. s.lo <= s.hi /\ s.lo \in Nat /\ s.hi \in Nat /\ ~(s.lo > s.hi)
    BY <1>1, <1>3
  <2>2. next[s] = IF R(Middle(s)) THEN Below(s) ELSE Above(s)
    BY <2>1
  <2> HIDE DEF next
  <2>3. /\ Middle(s) \in Nat /\ s.lo <= Middle(s) /\ Middle(s) <= s.hi
        /\ Below(s) \in D /\ Below(s).lo = s.lo /\ Below(s).hi = Middle(s) - 1
        /\ Above(s) \in D /\ Above(s).lo = Middle(s) + 1 /\ Above(s).hi = s.hi
    BY <2>1, Halves
  <2>4. left(Below(s)) < left(s)
    BY <2>1, <2>3
  <2>5. left(Above(s)) < left(s)
    BY <2>1, <2>3
  <2> QED
    BY <2>2, <2>3, <2>4, <2>5
<1>4. next \in [D -> D] /\ leaf \in [D -> Nat] /\ m \in [D -> 0 .. bound]
  <2>1. \A s \in D : next[s] \in D
    BY <1>3
  <2>2. next = [s \in D |-> next[s]] /\ leaf = [s \in D |-> leaf[s]] /\ m = [s \in D |-> m[s]]
    OBVIOUS
  <2>3. \A s \in D : leaf[s] \in Nat
    BY <1>1
  <2>4. \A s \in D : m[s] \in 0 .. bound
    BY <1>2
  <2> HIDE DEF next, leaf, m, D, bound
  <2> QED
    BY <2>1, <2>2, <2>3, <2>4
<1>5. ASSUME NEW s \in D, s \notin stop PROVE m[next[s]] < m[s]
  <2>1. m[s] = left(s)
    OBVIOUS
  <2>2. m[next[s]] = left(next[s])
    <3> HIDE DEF next, left
    <3> QED
      BY <1>3, <1>5
  <2> HIDE DEF m, next, left
  <2> QED
    BY <1>3, <1>5, <2>1, <2>2
<1>6. \A s \in D : s \notin stop => m[next[s]] < m[s]
  BY <1>5
<1>7. \A s \in D : (s \in stop <=> s.lo > s.hi) /\ leaf[s] = s.best
  OBVIOUS
<1>8. \A s \in D : s \notin stop => next[s] = IF R(Middle(s)) THEN Below(s) ELSE Above(s)
  BY <1>3
<1>9. first \in Inv
  <2>1. low \in 1 .. high + 1 /\ high \in 0 .. high /\ high \in 1 .. high
    OBVIOUS
  <2>2. first \in D
    BY <2>1 DEF Spans
  <2>3. high \in A
    BY DEF R
  <2> QED
    BY <2>2, <2>3
<1>10. Runs(Inv, stop, next, leaf, m, A)
  <2>1. ASSUME NEW s \in Inv, s \notin stop PROVE next[s] \in Inv
    <3>1. s \in D /\ low <= s.lo /\ s.best \in A /\ s.lo <= s.hi /\ s.lo \in Nat /\ s.hi \in Nat
      BY <1>1, <2>1
    <3>2. /\ Middle(s) \in Nat /\ s.lo <= Middle(s) /\ Middle(s) <= s.hi
          /\ Below(s) \in D /\ Below(s).lo = s.lo /\ Below(s).best = Middle(s)
          /\ Above(s) \in D /\ Above(s).lo = Middle(s) + 1 /\ Above(s).best = s.best
      BY <3>1, Halves
    <3>3. low <= Middle(s) /\ low <= Middle(s) + 1
      BY <3>1, <3>2
    <3>4. R(Middle(s)) => Middle(s) \in A
      BY <3>2, <3>3
    <3>5. next[s] = IF R(Middle(s)) THEN Below(s) ELSE Above(s)
      BY <1>8, <2>1, <3>1
    <3> HIDE DEF next, D, A
    <3> QED
      BY <3>1, <3>2, <3>3, <3>4, <3>5
  <2>2. ASSUME NEW s \in Inv PROVE s \in D /\ s.best \in A
    OBVIOUS
  <2> HIDE DEF next, D, A, Inv, stop, leaf, m
  <2> QED
    BY <1>6, <1>7, <2>1, <2>2 DEF Runs
<1>11. Inv \subseteq D
  OBVIOUS
<1> HIDE DEF D, stop, next, leaf, left, m, bound, A, Inv, first
<1>12. PICK g \in [D -> Nat] : Loop(g, D, stop, next, leaf)
  BY <1>2, <1>4, <1>6, LoopExists
<1> DEFINE Value(f, s) == IF s.lo > s.hi THEN s.best ELSE IF R(Middle(s)) THEN f[Below(s)] ELSE f[Above(s)]
<1>13. ASSUME NEW f PROVE Loop(f, D, stop, next, leaf) <=> \A s \in D : f[s] = Value(f, s)
  <2>1. ASSUME NEW s \in D
        PROVE  Value(f, s) = IF s \in stop THEN leaf[s] ELSE f[next[s]]
    <3>1. CASE s \in stop
      BY <1>7, <3>1
    <3>2. CASE s \notin stop
      BY <1>7, <1>8, <3>2
    <3> QED
      BY <3>1, <3>2
  <2> HIDE DEF Value
  <2> QED
    BY <2>1 DEF Loop
<1>14. ASSUME NEW f PROVE SearchIs(elements, ranks, a, high, f) <=> f = [s \in D |-> Value(f, s)]
  BY DEF SearchIs, D, R
<1> HIDE DEF Value
<1>15. SearchIs(elements, ranks, a, high, g)
  <2>1. \A s \in D : g[s] = Value(g, s)
    BY <1>12, <1>13
  <2>2. g = [s \in D |-> g[s]]
    BY <1>12
  <2>3. g = [s \in D |-> Value(g, s)]
    BY <2>1, <2>2
  <2> QED
    BY <1>14, <2>3
<1> DEFINE d == Searched(elements, ranks, a, high)
<1>16. SearchIs(elements, ranks, a, high, d)
  BY <1>15 DEF Searched
<1> HIDE DEF d
<1>17. Loop(d, D, stop, next, leaf)
  <2>1. d = [s \in D |-> Value(d, s)]
    BY <1>14, <1>16
  <2>2. \A s \in D : d[s] = Value(d, s)
    BY <2>1
  <2> QED
    BY <1>13, <2>2
<1>18. Yields(d, Inv, A)
  BY <1>2, <1>4, <1>10, <1>11, <1>17, LoopValue
<1>19. d[first] \in A
  BY <1>9, <1>18 DEF Yields
<1>20. d[first] \in Nat /\ low <= d[first] /\ R(d[first])
  BY <1>19 DEF A
<1> QED
  BY <1>20 DEF d, first, R

\* What the search returns has room, and each rank at least its share.
LEMMA MinimalFits ==
  ASSUME NEW elements, NEW n, Sized(elements, n), TotalSize(elements) \in Nat,
         NEW ranks \in Nat \ {0}, NEW a \in Nat \ {0}
  PROVE  LET S == MinimalFeasibleShardSize(elements, ranks, a)
         IN /\ S \in Nat \ {0} /\ Fits(elements, S, ranks)
            /\ CeilDiv(TotalSize(elements), ranks) <= S
<1> DEFINE low == LowestSize(elements, ranks, a)
           high == Doubled(elements, ranks, a)[low]
           k == Searched(elements, ranks, a, high)[[lo |-> low, hi |-> high, best |-> high]]
<1>1. /\ low \in Nat \ {0}
      /\ \A j \in Nat : low <= j => CeilDiv(TotalSize(elements), ranks) <= j * a
  BY Lowest
<1>2. MinimalFeasibleShardSize(elements, ranks, a) = k * a
  BY SizeChosen
<1> HIDE DEF low
<1>3. high \in Nat /\ low <= high /\ Room(elements, ranks, a, high)
  BY <1>1, DoublingEnds
<1> HIDE DEF high
<1>4. k \in Nat /\ low <= k /\ Room(elements, ranks, a, k)
  BY <1>1, <1>3, BisectionEnds
<1> HIDE DEF k
<1>5. CeilDiv(TotalSize(elements), ranks) <= k * a
  BY <1>1, <1>4
<1>6. k * a \in Nat /\ k * a # 0
  <2>1. k # 0
    BY <1>1, <1>4
  <2>2. k * a \in Nat
    BY <1>4
  <2>3. \A x, y \in Nat : x # 0 /\ y # 0 => x * y # 0
    OBVIOUS
  <2> QED
    BY <1>4, <2>1, <2>2, <2>3
<1>7. Fits(elements, k * a, ranks)
  BY <1>4 DEF Room
<1> QED
  BY <1>2, <1>5, <1>6, <1>7

----------------------------------------------------------------------------
(* Products, sums and common multiples are numbers.                        *)

\* a fold of typed values has their type
LEMMA FoldLands ==
  ASSUME NEW S, IsFiniteSet(S), NEW A, NEW g, g[{}] \in A,
         \A s \in SUBSET S : s # {} /\ g[s \ {Picked(s)}] \in A => g[s] \in A
  PROVE  \A s \in SUBSET S : g[s] \in A
<1> DEFINE Good == {s \in SUBSET S : g[s] \in A}
<1>1. {} \in Good
  OBVIOUS
<1>2. ASSUME NEW s \in SUBSET S, s # {},
             \A t \in SUBSET S : Cardinality(t) < Cardinality(s) => t \in Good
      PROVE  s \in Good
  <2>1. Picked(s) \in s /\ IsFiniteSet(s)
    BY <1>2, PickedIn, FS_Subset
  <2>2. Cardinality(s \ {Picked(s)}) < Cardinality(s)
    <3>1. /\ Cardinality(s) \in Nat /\ Cardinality(s \ {Picked(s)}) \in Nat
          /\ Cardinality(s) = Cardinality(s \ {Picked(s)}) + 1
      BY <2>1, Fewer
    <3> QED
      BY <3>1
  <2>3. s \ {Picked(s)} \in SUBSET S
    OBVIOUS
  <2>4. s \ {Picked(s)} \in Good
    <3> HIDE DEF Good
    <3> QED
      BY <1>2, <2>2, <2>3
  <2> QED
    BY <1>2, <2>4
<1> HIDE DEF Good
<1>3. SUBSET S \subseteq Good
  BY <1>1, <1>2, FiniteInduct
<1> QED
  BY <1>3 DEF Good

\* the products of the dimensions
ProductIs(shape, g) ==
  g = [s \in SUBSET DOMAIN shape |-> IF s = {} THEN 1 ELSE shape[Picked(s)] * g[s \ {Picked(s)}]]

LEMMA NumelChosen ==
  ASSUME NEW shape
  PROVE  Numel(shape) = (CHOOSE g : ProductIs(shape, g))[DOMAIN shape]
<1>1. Numel(shape) = FoldSeq(LAMBDA n, m : n * m, 1, shape)
  BY DEF Numel
<1>2. FoldSeq(LAMBDA n, m : n * m, 1, shape)
        = MapThenFoldSet(LAMBDA n, m : n * m, 1, LAMBDA i : shape[i],
                         LAMBDA s : CHOOSE x \in s : TRUE, DOMAIN shape)
  BY DEF FoldSeq, FoldFunction, FoldFunctionOnSet
<1>3. MapThenFoldSet(LAMBDA n, m : n * m, 1, LAMBDA i : shape[i],
                     LAMBDA s : CHOOSE x \in s : TRUE, DOMAIN shape)
        = (CHOOSE g : g = [s \in SUBSET DOMAIN shape |->
             IF s = {} THEN 1 ELSE shape[CHOOSE x \in s : TRUE] * g[s \ {CHOOSE x \in s : TRUE}]])[DOMAIN shape]
  BY DEF MapThenFoldSet
<1> QED
  BY <1>1, <1>2, <1>3 DEF ProductIs, Picked

LEMMA NumelType ==
  ASSUME NEW shape \in Seq(Nat) PROVE Numel(shape) \in Nat
<1> DEFINE S == DOMAIN shape
           T == [p \in S \X Nat |-> shape[p[1]] * p[2]]
<1>1. IsFiniteSet(S) /\ \A x \in S : shape[x] \in Nat
  <2>1. DOMAIN shape = 1 .. Len(shape) /\ Len(shape) \in Nat
    OBVIOUS
  <2>2. IsFiniteSet(1 .. Len(shape))
    BY <2>1, FS_Interval
  <2> QED
    BY <2>1, <2>2
<1>2. \A x \in S, y \in Nat : T[<<x, y>>] = shape[x] * y
  OBVIOUS
<1>3. T \in [S \X Nat -> Nat]
  <2>1. \A p \in S \X Nat : T[p] \in Nat
    BY <1>1
  <2>2. T = [p \in S \X Nat |-> T[p]]
    OBVIOUS
  <2> HIDE DEF T, S
  <2> QED
    BY <2>1, <2>2
<1> HIDE DEF S, T
<1>4. 1 \in Nat
  OBVIOUS
<1>5. \E g \in [SUBSET S -> Nat] : Table(g, S, 1, T)
  BY <1>1, <1>3, <1>4, TableExists
<1>6. PICK g \in [SUBSET S -> Nat] : Table(g, S, 1, T)
  BY <1>5
<1>7. ProductIs(shape, g)
  <2>1. ASSUME NEW s \in SUBSET S
        PROVE  g[s] = IF s = {} THEN 1 ELSE shape[Picked(s)] * g[s \ {Picked(s)}]
    <3>1. g[s] = IF s = {} THEN 1 ELSE T[<<Picked(s), g[s \ {Picked(s)}]>>]
      BY <1>6 DEF Table
    <3>2. s # {} => Picked(s) \in S /\ g[s \ {Picked(s)}] \in Nat
      BY <1>6, PickedIn
    <3> QED
      BY <1>2, <3>1, <3>2
  <2>2. g = [s \in SUBSET S |-> g[s]]
    BY <1>6
  <2>3. g = [s \in SUBSET S |-> IF s = {} THEN 1 ELSE shape[Picked(s)] * g[s \ {Picked(s)}]]
    BY <2>1, <2>2
  <2> QED
    BY <2>3 DEF ProductIs, S
<1> DEFINE h == CHOOSE f : ProductIs(shape, f)
<1>8. ProductIs(shape, h)
  BY <1>7
<1> HIDE DEF h
<1>9. h[{}] \in Nat
  BY <1>8 DEF ProductIs
<1>10. ASSUME NEW s \in SUBSET S, s # {} /\ h[s \ {Picked(s)}] \in Nat PROVE h[s] \in Nat
  <2>1. h[s] = shape[Picked(s)] * h[s \ {Picked(s)}]
    BY <1>8, <1>10 DEF ProductIs, S
  <2>2. shape[Picked(s)] \in Nat
    BY <1>1, <1>10, PickedIn
  <2> QED
    BY <1>10, <2>1, <2>2
<1>11. \A s \in SUBSET S : s # {} /\ h[s \ {Picked(s)}] \in Nat => h[s] \in Nat
  BY <1>10
<1>12. \A s \in SUBSET S : h[s] \in Nat
  BY <1>1, <1>9, <1>11, FoldLands
<1>13. h[S] \in Nat
  BY <1>12
<1> QED
  BY <1>13, NumelChosen DEF h, S

\* the sizes of the tensors, added up
SizesAdded(elements, g) ==
  g = [s \in SUBSET DOMAIN elements |->
         IF s = {} THEN 0 ELSE Size(elements[Picked(s)]) + g[s \ {Picked(s)}]]

LEMMA TotalChosen ==
  ASSUME NEW elements
  PROVE  TotalSize(elements) = (CHOOSE g : SizesAdded(elements, g))[DOMAIN elements]
<1>1. TotalSize(elements) = FoldSeq(LAMBDA e, n : Size(e) + n, 0, elements)
  BY DEF TotalSize
<1>2. FoldSeq(LAMBDA e, n : Size(e) + n, 0, elements)
        = MapThenFoldSet(LAMBDA e, n : Size(e) + n, 0, LAMBDA i : elements[i],
                         LAMBDA s : CHOOSE x \in s : TRUE, DOMAIN elements)
  BY DEF FoldSeq, FoldFunction, FoldFunctionOnSet
<1>3. MapThenFoldSet(LAMBDA e, n : Size(e) + n, 0, LAMBDA i : elements[i],
                     LAMBDA s : CHOOSE x \in s : TRUE, DOMAIN elements)
        = (CHOOSE g : g = [s \in SUBSET DOMAIN elements |->
             IF s = {} THEN 0 ELSE Size(elements[CHOOSE x \in s : TRUE])
                                   + g[s \ {CHOOSE x \in s : TRUE}]])[DOMAIN elements]
  BY DEF MapThenFoldSet
<1> QED
  BY <1>1, <1>2, <1>3 DEF SizesAdded, Picked

LEMMA TotalSizeType ==
  ASSUME NEW elements, NEW n, Sized(elements, n) PROVE TotalSize(elements) \in Nat
<1> DEFINE S == DOMAIN elements
           f == [i \in S |-> Size(elements[i])]
<1>1. IsFiniteSet(S) /\ \A x \in S : Size(elements[x]) \in Nat /\ f[x] = Size(elements[x])
  <2>1. S = 1 .. n /\ n \in Nat /\ \A x \in S : Size(elements[x]) \in Nat
    BY DEF Sized
  <2>2. IsFiniteSet(1 .. n)
    BY <2>1, FS_Interval
  <2> QED
    BY <2>1, <2>2
<1>2. f \in [S -> Int]
  <2>1. f = [x \in S |-> f[x]] /\ \A x \in S : f[x] \in Int
    BY <1>1
  <2> HIDE DEF f, S
  <2> QED
    BY <2>1
<1> HIDE DEF S, f
<1>3. PICK g \in [SUBSET S -> Int] : SumTable(g, f, S)
  BY <1>1, <1>2, SumTableExists
<1>4. SizesAdded(elements, g)
  <2>1. ASSUME NEW s \in SUBSET S
        PROVE  g[s] = IF s = {} THEN 0 ELSE Size(elements[Picked(s)]) + g[s \ {Picked(s)}]
    <3>1. g[s] = IF s = {} THEN 0 ELSE f[Picked(s)] + g[s \ {Picked(s)}]
      BY <1>3 DEF SumTable
    <3>2. s # {} => f[Picked(s)] = Size(elements[Picked(s)])
      BY <1>1, PickedIn
    <3> QED
      BY <3>1, <3>2
  <2>2. g = [s \in SUBSET S |-> g[s]]
    BY <1>3
  <2>3. g = [s \in SUBSET S |-> IF s = {} THEN 0 ELSE Size(elements[Picked(s)]) + g[s \ {Picked(s)}]]
    BY <2>1, <2>2
  <2> QED
    BY <2>3 DEF SizesAdded, S
<1> DEFINE h == CHOOSE t : SizesAdded(elements, t)
<1>5. SizesAdded(elements, h)
  BY <1>4
<1> HIDE DEF h
<1>6. h[{}] \in Nat
  BY <1>5 DEF SizesAdded
<1>7. ASSUME NEW s \in SUBSET S, s # {} /\ h[s \ {Picked(s)}] \in Nat PROVE h[s] \in Nat
  <2>1. h[s] = Size(elements[Picked(s)]) + h[s \ {Picked(s)}]
    BY <1>5, <1>7 DEF SizesAdded, S
  <2>2. Size(elements[Picked(s)]) \in Nat
    BY <1>1, <1>7, PickedIn
  <2> QED
    BY <1>7, <2>1, <2>2
<1>8. \A s \in SUBSET S : s # {} /\ h[s \ {Picked(s)}] \in Nat => h[s] \in Nat
  BY <1>7
<1>9. \A s \in SUBSET S : h[s] \in Nat
  BY <1>1, <1>6, <1>8, FoldLands
<1>10. h[S] \in Nat
  BY <1>9
<1> QED
  BY <1>10, TotalChosen DEF h, S

Positive == Nat \ {0}

\* the least common multiple is positive, and one of both
LEMMA LcmIs ==
  ASSUME NEW n \in Positive, NEW m \in Positive
  PROVE  Lcm(n, m) \in Positive /\ Lcm(n, m) % n = 0 /\ Lcm(n, m) % m = 0
<1> DEFINE T == {k \in 1 .. n * m : k % n = 0 /\ k % m = 0}
           Is(k) == k % n = 0 /\ k % m = 0 /\ \A j \in 1 .. k - 1 : j % n # 0 \/ j % m # 0
<1>1. n \in Nat \ {0} /\ m \in Nat \ {0} /\ n * m \in Nat /\ n * m # 0
  <2>1. \A x, y \in Nat : x # 0 /\ y # 0 => x * y # 0
    OBVIOUS
  <2> QED
    BY <2>1 DEF Positive
<1>2. n * m \in T
  <2>1. \A q \in Nat, b \in Nat \ {0} : (q * b) % b = 0
    OBVIOUS
  <2>2. (n * m) % m = 0 /\ (m * n) % n = 0 /\ m * n = n * m
    BY <1>1, <2>1
  <2>3. n * m \in 1 .. n * m
    BY <1>1
  <2> QED
    BY <2>2, <2>3
<1>3. T \subseteq Nat
  <2>1. \A k \in 1 .. n * m : k \in Nat
    BY <1>1
  <2> QED
    BY <2>1
<1> HIDE DEF T
<1>4. PICK k \in T : \A j \in T : k <= j
  BY <1>2, <1>3, Least
<1>5. k \in 1 .. n * m /\ k % n = 0 /\ k % m = 0 /\ k \in Nat
  BY <1>3 DEF T
<1>6. ASSUME NEW j \in 1 .. k - 1 PROVE j % n # 0 \/ j % m # 0
  <2>1. j \in 1 .. n * m /\ ~(k <= j)
    <3> DEFINE p == n * m
    <3>1. p \in Nat /\ k \in 1 .. p
      BY <1>1, <1>5
    <3> HIDE DEF p
    <3>2. j \in 1 .. p /\ ~(k <= j)
      BY <1>6, <3>1
    <3> QED
      BY <3>2 DEF p
  <2> QED
    BY <1>4, <2>1 DEF T
<1>7. Is(k)
  BY <1>5, <1>6
<1>8. Lcm(n, m) = CHOOSE j \in 1 .. n * m : Is(j)
  BY DEF Lcm
<1> HIDE DEF Is
<1>9. Lcm(n, m) \in 1 .. n * m /\ Is(Lcm(n, m))
  BY <1>5, <1>7, <1>8
<1> DEFINE p == n * m
<1>10. p \in Nat /\ Lcm(n, m) \in 1 .. p
  BY <1>1, <1>9
<1> HIDE DEF p
<1>11. Lcm(n, m) \in Positive
  BY <1>10 DEF Positive
<1> QED
  BY <1>9, <1>11 DEF Is

LEMMA LcmType ==
  ASSUME NEW n \in Positive, NEW m \in Positive PROVE Lcm(n, m) \in Positive
BY LcmIs

\* common multiples of a set
MultipleIs(base, S, g) ==
  g = [s \in SUBSET S |-> IF s = {} THEN base ELSE Lcm(Picked(s), g[s \ {Picked(s)}])]

LEMMA MultipleChosen ==
  ASSUME NEW base, NEW S
  PROVE  FoldSet(Lcm, base, S) = (CHOOSE g : MultipleIs(base, S, g))[S]
<1>1. FoldSet(Lcm, base, S)
        = MapThenFoldSet(Lcm, base, LAMBDA x : x, LAMBDA s : CHOOSE x \in s : TRUE, S)
  BY DEF FoldSet
<1>2. MapThenFoldSet(Lcm, base, LAMBDA x : x, LAMBDA s : CHOOSE x \in s : TRUE, S)
        = (CHOOSE g : g = [s \in SUBSET S |->
             IF s = {} THEN base ELSE Lcm(CHOOSE x \in s : TRUE, g[s \ {CHOOSE x \in s : TRUE}])])[S]
  BY DEF MapThenFoldSet
<1> QED
  BY <1>1, <1>2 DEF MultipleIs, Picked

LEMMA MultipleType ==
  ASSUME NEW S, IsFiniteSet(S), S \subseteq Positive, NEW base \in Positive
  PROVE  FoldSet(Lcm, base, S) \in Positive
<1> DEFINE T == [p \in S \X Positive |-> Lcm(p[1], p[2])]
<1>1. \A x \in S, y \in Positive : T[<<x, y>>] = Lcm(x, y)
  OBVIOUS
<1>2. T \in [S \X Positive -> Positive]
  <2>1. \A p \in S \X Positive : T[p] \in Positive
    BY LcmType
  <2>2. T = [p \in S \X Positive |-> T[p]]
    OBVIOUS
  <2> HIDE DEF T
  <2> QED
    BY <2>1, <2>2
<1> HIDE DEF T
<1>3. \E g \in [SUBSET S -> Positive] : Table(g, S, base, T)
  BY <1>2, TableExists
<1>4. PICK g \in [SUBSET S -> Positive] : Table(g, S, base, T)
  BY <1>3
<1>5. MultipleIs(base, S, g)
  <2>1. ASSUME NEW s \in SUBSET S
        PROVE  g[s] = IF s = {} THEN base ELSE Lcm(Picked(s), g[s \ {Picked(s)}])
    <3>1. g[s] = IF s = {} THEN base ELSE T[<<Picked(s), g[s \ {Picked(s)}]>>]
      BY <1>4 DEF Table
    <3>2. s # {} => Picked(s) \in S /\ g[s \ {Picked(s)}] \in Positive
      BY <1>4, PickedIn
    <3> QED
      BY <1>1, <3>1, <3>2
  <2>2. g = [s \in SUBSET S |-> g[s]]
    BY <1>4
  <2>3. g = [s \in SUBSET S |-> IF s = {} THEN base ELSE Lcm(Picked(s), g[s \ {Picked(s)}])]
    BY <2>1, <2>2
  <2> QED
    BY <2>3 DEF MultipleIs
<1> DEFINE h == CHOOSE f : MultipleIs(base, S, f)
<1>6. MultipleIs(base, S, h)
  BY <1>5
<1> HIDE DEF h
<1>7. h[{}] \in Positive
  BY <1>6 DEF MultipleIs
<1>8. ASSUME NEW s \in SUBSET S, s # {} /\ h[s \ {Picked(s)}] \in Positive PROVE h[s] \in Positive
  <2>1. h[s] = Lcm(Picked(s), h[s \ {Picked(s)}])
    BY <1>6, <1>8 DEF MultipleIs
  <2>2. Picked(s) \in Positive
    BY <1>8, PickedIn
  <2> QED
    BY <1>8, <2>1, <2>2, LcmType
<1>9. \A s \in SUBSET S : s # {} /\ h[s \ {Picked(s)}] \in Positive => h[s] \in Positive
  BY <1>8
<1>10. \A s \in SUBSET S : h[s] \in Positive
  BY <1>7, <1>9, FoldLands
<1>11. h[S] \in Positive
  BY <1>10
<1> QED
  BY <1>11, MultipleChosen DEF h

----------------------------------------------------------------------------
(* The shares of the ranks.                                                *)

\* a position, held between the ends of a tensor
Within(start, size, p) == Larger(start, Smaller(start + size, p))

LEMMA WithinIs ==
  ASSUME NEW start \in Nat, NEW size \in Nat, NEW p \in Nat
  PROVE  /\ Within(start, size, p) \in Nat
         /\ start <= Within(start, size, p)
         /\ p <= start => Within(start, size, p) = start
         /\ start + size <= p => Within(start, size, p) = start + size
         /\ start < p /\ p < start + size => Within(start, size, p) = p
BY DEF Within, Larger, Smaller

LEMMA WithinGrows ==
  ASSUME NEW start \in Nat, NEW size \in Nat, NEW p \in Nat, NEW q \in Nat, p <= q
  PROVE  Within(start, size, p) <= Within(start, size, q)
BY DEF Within, Larger, Smaller

LEMMA ShareIs ==
  ASSUME NEW start \in Nat, NEW size \in Nat, NEW S \in Nat, NEW r \in Nat
  PROVE  /\ r * S \in Nat /\ (r + 1) * S \in Nat /\ r * S <= (r + 1) * S
         /\ LocalSize(start, size, S, r) = Within(start, size, (r + 1) * S) - Within(start, size, r * S)
<1>1. r * S \in Nat /\ (r + 1) * S \in Nat /\ (r + 1) * S = r * S + S
  OBVIOUS
<1> DEFINE a == r * S
           b == (r + 1) * S
<1>2. a \in Nat /\ b \in Nat /\ a <= b
  <2>1. a \in Nat /\ b = a + S
    BY <1>1
  <2> HIDE DEF a, b
  <2> QED
    BY <2>1
<1> HIDE DEF a, b
<1>3. Larger(0, Smaller(start + size, b) - Larger(start, a)) = Within(start, size, b) - Within(start, size, a)
  BY <1>2 DEF Larger, Smaller, Within
<1> QED
  BY <1>2, <1>3 DEF LocalSize, a, b

\* a share is whole blocks
LEMMA ShareType ==
  ASSUME NEW start \in Nat, NEW size \in Nat, NEW S \in Nat, NEW r \in Nat
  PROVE  LocalSize(start, size, S, r) \in Int
<1> DEFINE u == Within(start, size, (r + 1) * S)
           v == Within(start, size, r * S)
<1>1. u \in Nat /\ v \in Nat
  BY ShareIs, WithinIs
<1>2. LocalSize(start, size, S, r) = u - v
  BY ShareIs
<1> HIDE DEF u, v
<1> QED
  BY <1>1, <1>2

LEMMA ShareIsWhole ==
  ASSUME NEW start \in Nat, NEW size \in Nat, NEW S \in Nat, NEW block \in Nat \ {0}, NEW r \in Nat,
         CutsWholeBlocks(start, size, block, S), size % block = 0
  PROVE  LocalSize(start, size, S, r) % block = 0
<1> DEFINE C(k) == Within(start, size, k * S)
<1>1. ASSUME NEW k \in Nat PROVE C(k) \in Nat /\ start <= C(k) /\ (C(k) - start) % block = 0
  <2> DEFINE p == k * S
             w == Within(start, size, p)
  <2>1. p \in Nat
    OBVIOUS
  <2>2. start < p /\ p < start + size => (p - start) % block = 0
    BY DEF CutsWholeBlocks
  <2> HIDE DEF p
  <2>3. /\ w \in Nat /\ start <= w
        /\ p <= start => w = start
        /\ start + size <= p => w = start + size
        /\ start < p /\ p < start + size => w = p
    BY <2>1, WithinIs
  <2> HIDE DEF w
  <2>4. (w - start) % block = 0
    <3>1. CASE p <= start
      <4>1. w - start = 0
        BY <2>3, <3>1
      <4>2. 0 % block = 0
        OBVIOUS
      <4> QED
        BY <4>1, <4>2
    <3>2. CASE start + size <= p
      <4>1. w - start = size
        BY <2>3, <3>2
      <4> QED
        BY <4>1
    <3>3. CASE start < p /\ p < start + size
      BY <2>2, <2>3, <3>3
    <3> QED
      BY <2>1, <3>1, <3>2, <3>3
  <2> QED
    BY <2>3, <2>4 DEF w, p
<1>2. LocalSize(start, size, S, r) = C(r + 1) - C(r)
  BY ShareIs
<1>3. C(r) <= C(r + 1)
  <2>1. r * S \in Nat /\ (r + 1) * S \in Nat /\ r * S <= (r + 1) * S
    BY ShareIs
  <2> QED
    BY <2>1, WithinGrows
<1> HIDE DEF C
<1>4. PICK x, y : x = C(r + 1) - start /\ y = C(r) - start
  OBVIOUS
<1>5. x \in Nat /\ y \in Nat /\ y <= x /\ x % block = 0 /\ y % block = 0
  <2>1. r + 1 \in Nat
    OBVIOUS
  <2>2. C(r + 1) \in Nat /\ start <= C(r + 1) /\ C(r) \in Nat /\ start <= C(r)
    BY <1>1, <2>1
  <2>3. x % block = 0 /\ y % block = 0
    BY <1>1, <1>4, <2>1
  <2> QED
    BY <1>3, <1>4, <2>2, <2>3
<1>6. (x - y) % block = 0
  BY <1>5, Multiples
<1>7. x - y = C(r + 1) - C(r)
  BY <1>1, <1>4
<1> QED
  BY <1>2, <1>6, <1>7

SharesAdded(start, size, S, R, g) ==
  g = [s \in SUBSET R |->
         IF s = {} THEN 0 ELSE LocalSize(start, size, S, Picked(s)) + g[s \ {Picked(s)}]]

SumOfShares(start, size, S, R) == MapThenSumSet(LAMBDA q : LocalSize(start, size, S, q), R)

LEMMA SharesChosen ==
  ASSUME NEW start, NEW size, NEW S, NEW R
  PROVE  SumOfShares(start, size, S, R)
           = (CHOOSE g : SharesAdded(start, size, S, R, g))[R]
<1>1. SumOfShares(start, size, S, R)
        = MapThenFoldSet(+, 0, LAMBDA q : LocalSize(start, size, S, q), LAMBDA s : CHOOSE x \in s : TRUE, R)
  BY DEF SumOfShares, MapThenSumSet
<1>2. MapThenFoldSet(+, 0, LAMBDA q : LocalSize(start, size, S, q), LAMBDA s : CHOOSE x \in s : TRUE, R)
        = (CHOOSE g : g = [s \in SUBSET R |->
             IF s = {} THEN 0 ELSE LocalSize(start, size, S, CHOOSE x \in s : TRUE)
                                   + g[s \ {CHOOSE x \in s : TRUE}]])[R]
  BY DEF MapThenFoldSet
<1> QED
  BY <1>1, <1>2 DEF SharesAdded, Picked

\* The shares of the ranks add up to the tensor.
LEMMA SharesAddUp ==
  ASSUME NEW start \in Nat, NEW size \in Nat, NEW S \in Nat, NEW ranks \in Nat \ {0},
         start + size <= ranks * S
  PROVE  SumOfShares(start, size, S, 0 .. ranks - 1) = size
<1> DEFINE R == 0 .. ranks - 1
           c == [k \in 0 .. ranks |-> Within(start, size, k * S)]
           f == [k \in R |-> LocalSize(start, size, S, k)]
<1>1. IsFiniteSet(R)
  BY FS_Interval
<1>2. c \in [0 .. ranks -> Int]
  <2>1. ASSUME NEW k \in 0 .. ranks PROVE c[k] \in Int
    <3>1. k * S \in Nat
      OBVIOUS
    <3> QED
      BY <3>1, WithinIs
  <2>2. c = [k \in 0 .. ranks |-> c[k]]
    OBVIOUS
  <2> HIDE DEF c
  <2> QED
    BY <2>1, <2>2
<1>3. \A k \in R : f[k] = c[k + 1] - c[k]
  <2>1. ASSUME NEW k \in R PROVE f[k] = c[k + 1] - c[k]
    <3>1. k \in Nat /\ k \in 0 .. ranks /\ k + 1 \in 0 .. ranks
      OBVIOUS
    <3>2. LocalSize(start, size, S, k) = Within(start, size, (k + 1) * S) - Within(start, size, k * S)
      BY <3>1, ShareIs
    <3> QED
      BY <3>1, <3>2
  <2> QED
    BY <2>1
<1>4. f \in [R -> Int]
  <2>1. ASSUME NEW k \in R PROVE f[k] \in Int
    <3>1. k \in 0 .. ranks /\ k + 1 \in 0 .. ranks
      OBVIOUS
    <3>2. c[k] \in Int /\ c[k + 1] \in Int
      BY <1>2, <3>1
    <3> HIDE DEF c, f, R
    <3> QED
      BY <1>3, <3>2
  <2>2. f = [k \in R |-> f[k]]
    OBVIOUS
  <2> HIDE DEF f, R
  <2> QED
    BY <2>1, <2>2
<1>5. c[0] = start /\ c[ranks] = start + size
  <2>1. 0 * S = 0 /\ ranks * S \in Nat /\ 0 \in 0 .. ranks /\ ranks \in 0 .. ranks
    OBVIOUS
  <2>2. Within(start, size, 0) = start /\ Within(start, size, ranks * S) = start + size
    BY <2>1, WithinIs
  <2> QED
    BY <2>1, <2>2
<1>6. \A k \in R : f[k] = LocalSize(start, size, S, k)
  OBVIOUS
<1> HIDE DEF f, c
<1>7. ASSUME NEW g, SumTable(g, f, R) PROVE g[R] = size
  <2>1. g[R] = c[ranks] - c[0]
    <3>1. ranks \in Nat
      OBVIOUS
    <3>2. SumTable(g, f, 0 .. ranks - 1) /\ f \in [0 .. ranks - 1 -> Int]
      BY <1>4, <1>7
    <3>3. \A k \in 0 .. ranks - 1 : f[k] = c[k + 1] - c[k]
      BY <1>3
    <3>4. g[0 .. ranks - 1] = c[ranks] - c[0]
      BY <1>2, <3>1, <3>2, <3>3, Telescopes
    <3> QED
      BY <3>4
  <2> HIDE DEF R
  <2> QED
    BY <1>5, <2>1
<1> HIDE DEF R
<1>8. \E g \in [SUBSET R -> Int] : SumTable(g, f, R)
  BY <1>1, <1>4, SumTableExists
<1>9. PICK g \in [SUBSET R -> Int] : SumTable(g, f, R)
  BY <1>8
<1>10. ASSUME NEW h PROVE SharesAdded(start, size, S, R, h) => SumTable(h, f, R)
  <2>1. ASSUME NEW s \in SUBSET R, s # {} PROVE f[Picked(s)] = LocalSize(start, size, S, Picked(s))
    BY <1>6, <2>1, PickedIn
  <2> QED
    BY <2>1 DEF SharesAdded, SumTable
<1>11. SharesAdded(start, size, S, R, g)
  <2>1. ASSUME NEW s \in SUBSET R
        PROVE  g[s] = IF s = {} THEN 0 ELSE LocalSize(start, size, S, Picked(s)) + g[s \ {Picked(s)}]
    <3>1. g[s] = IF s = {} THEN 0 ELSE f[Picked(s)] + g[s \ {Picked(s)}]
      BY <1>9 DEF SumTable
    <3>2. s # {} => f[Picked(s)] = LocalSize(start, size, S, Picked(s))
      BY <1>6, PickedIn
    <3> QED
      BY <3>1, <3>2
  <2>2. g = [s \in SUBSET R |-> g[s]]
    BY <1>9
  <2>3. g = [s \in SUBSET R |->
               IF s = {} THEN 0 ELSE LocalSize(start, size, S, Picked(s)) + g[s \ {Picked(s)}]]
    BY <2>1, <2>2
  <2> QED
    BY <2>3 DEF SharesAdded
<1> DEFINE h == CHOOSE t : SharesAdded(start, size, S, R, t)
<1>12. SharesAdded(start, size, S, R, h)
  BY <1>11
<1> HIDE DEF h
<1>13. h[R] = size
  BY <1>7, <1>10, <1>12
<1>14. SumOfShares(start, size, S, R) = h[R]
  BY SharesChosen DEF h
<1> QED
  BY <1>13, <1>14 DEF R

----------------------------------------------------------------------------
(* The plan.                                                               *)

LEMMA AlignmentsType ==
  ASSUME NEW elements, NEW n, Sized(elements, n), n # 0, NEW unit \in Nat
  PROVE  Alignments(elements, unit) # {} /\ Alignments(elements, unit) \subseteq Positive
<1> DEFINE blocks == {elements[j].block : j \in DOMAIN elements}
           base == Larger(1, unit)
           A == {FoldSet(Lcm, base, {c \in blocks : c <= b}) : b \in blocks}
<1>1. blocks \subseteq Positive /\ blocks # {}
  <2>1. n \in Nat /\ DOMAIN elements = 1 .. n /\ \A j \in 1 .. n : elements[j].block \in Positive
    BY DEF Sized, Positive
  <2>2. 1 \in DOMAIN elements
    BY <2>1
  <2> QED
    BY <2>1, <2>2
<1>2. base \in Positive
  BY DEF Larger, Positive
<1>3. Alignments(elements, unit) = A
  BY DEF Alignments
<1> HIDE DEF blocks, base
<1>4. ASSUME NEW b \in blocks PROVE FoldSet(Lcm, base, {c \in blocks : c <= b}) \in Positive
  <2> DEFINE T == {c \in blocks : c <= b}
  <2>1. T \subseteq Positive
    BY <1>1
  <2>2. b \in Nat /\ T \subseteq 1 .. b
    <3>1. b \in Nat
      BY <1>1 DEF Positive
    <3>2. ASSUME NEW c \in T PROVE c \in 1 .. b
      <4>1. c \in blocks /\ c <= b
        OBVIOUS
      <4>2. c \in Nat \ {0}
        BY <4>1, <1>1 DEF Positive
      <4> HIDE DEF T
      <4> QED
        BY <3>1, <4>1, <4>2
    <3> HIDE DEF T
    <3> QED
      BY <3>1, <3>2
  <2>3. IsFiniteSet(1 .. b)
    BY <2>2, FS_Interval
  <2>4. IsFiniteSet(T)
    <3> HIDE DEF T
    <3> QED
      BY <2>2, <2>3, FS_Subset
  <2> HIDE DEF T
  <2>5. FoldSet(Lcm, base, T) \in Positive
    BY <1>2, <2>1, <2>4, MultipleType
  <2> QED
    BY <2>5 DEF T
<1>5. A # {} /\ A \subseteq Positive
  <2>1. A # {}
    BY <1>1
  <2>2. A \subseteq Positive
    BY <1>4
  <2> QED
    BY <2>1, <2>2
<1> QED
  BY <1>3, <1>5

LEMMA ShardSizeFits ==
  ASSUME NEW elements, NEW n, Sized(elements, n), n # 0, NEW ranks \in Nat \ {0}, NEW unit \in Nat
  PROVE  LET S == Algorithm1ShardSize(elements, ranks, unit)
         IN /\ S \in Nat \ {0} /\ Fits(elements, S, ranks)
            /\ CeilDiv(TotalSize(elements), ranks) <= S
<1> DEFINE A == Alignments(elements, unit)
           T == {MinimalFeasibleShardSize(elements, ranks, a) : a \in A}
<1>1. A # {} /\ A \subseteq Positive
  BY AlignmentsType
<1>2. elements # <<>>
  <2>1. 1 \in DOMAIN elements
    BY DEF Sized
  <2> QED
    BY <2>1
<1>3. Algorithm1ShardSize(elements, ranks, unit) = Min(T)
  BY <1>2 DEF Algorithm1ShardSize
<1> HIDE DEF A
<1>4. ASSUME NEW S \in T
      PROVE  S \in Nat \ {0} /\ Fits(elements, S, ranks) /\ CeilDiv(TotalSize(elements), ranks) <= S
  <2>1. PICK a \in A : S = MinimalFeasibleShardSize(elements, ranks, a)
    BY <1>4
  <2>2. a \in Nat \ {0}
    BY <1>1 DEF Positive
  <2>3. TotalSize(elements) \in Nat
    BY TotalSizeType
  <2> QED
    BY <2>1, <2>2, <2>3, MinimalFits
<1>5. T \subseteq Nat /\ T # {}
  <2>1. T # {}
    BY <1>1
  <2> HIDE DEF T
  <2> QED
    BY <1>4, <2>1
<1> HIDE DEF T
<1>6. Min(T) \in T
  BY <1>5, LeastIs
<1> QED
  BY <1>3, <1>4, <1>6

Listed(elements, n) == n \in Nat /\ elements = [j \in 1 .. n |-> elements[j]]

\* in the default order nothing moves
LEMMA DefaultVariant ==
  ASSUME NEW elements, NEW n, Listed(elements, n), NEW ranks, NEW unit
  PROVE  SelectedVariant(elements, ranks, unit, "default") =
           [tensor_order |-> [i \in 1 .. n |-> i],
            shard_size |-> Algorithm1ShardSize(elements, ranks, unit)]
<1> DEFINE o == [i \in DOMAIN elements |-> i]
           c0 == [tensor_order |-> o, shard_size |-> Algorithm1ShardSize(Ordered(elements, o), ranks, unit)]
<1>0. n \in Nat /\ elements = [j \in 1 .. n |-> elements[j]]
  BY DEF Listed
<1>1. DOMAIN elements = 1 .. n /\ o = [i \in 1 .. n |-> i] /\ DOMAIN o = 1 .. n /\ \A i \in 1 .. n : o[i] = i
  <2>1. DOMAIN elements = 1 .. n
    BY <1>0
  <2> QED
    BY <2>1
<1>2. Ordered(elements, o) = elements
  <2>1. Ordered(elements, o) = [j \in 1 .. n |-> elements[j]]
    <3>1. Ordered(elements, o) = [j \in DOMAIN o |-> elements[o[j]]]
      BY DEF Ordered
    <3> HIDE DEF o
    <3>2. [j \in DOMAIN o |-> elements[o[j]]] = [j \in 1 .. n |-> elements[j]]
      BY <1>1
    <3> QED
      BY <3>1, <3>2
  <2> QED
    BY <1>0, <2>1
<1>3. ~LexLess(o, o)
  <2>1. \A k \in 1 .. n : ~(o[k] < o[k])
    BY <1>1
  <2>2. Len(o) = n
    BY <1>0, <1>1, LenProperties
  <2>3. ~(Len(o) < Len(o))
    BY <2>2
  <2> HIDE DEF o
  <2> QED
    BY <1>1, <2>1, <2>3 DEF LexLess
<1>4. OrderedItemVariants(elements, "default") = {o}
  BY DEF OrderedItemVariants
<1> DEFINE Made(p) == [tensor_order |-> p, shard_size |-> Algorithm1ShardSize(Ordered(elements, p), ranks, unit)]
           candidates == {Made(p) : p \in OrderedItemVariants(elements, "default")}
           Best(c) == \A d \in candidates :
                        \/ c.shard_size < d.shard_size
                        \/ c.shard_size = d.shard_size /\ ~LexLess(d.tensor_order, c.tensor_order)
<1>5. SelectedVariant(elements, ranks, unit, "default") = CHOOSE c \in candidates : Best(c)
  BY DEF SelectedVariant
<1>6. candidates = {c0}
  <2>1. Made(o) = c0
    OBVIOUS
  <2>2. \A c : c \in candidates <=> \E p \in OrderedItemVariants(elements, "default") : c = Made(p)
    OBVIOUS
  <2> HIDE DEF Made, o, c0, candidates
  <2> QED
    BY <1>4, <2>1, <2>2
<1>7. Best(c0)
  <2>1. c0.shard_size = c0.shard_size /\ c0.tensor_order = o
    OBVIOUS
  <2> HIDE DEF c0, candidates
  <2> QED
    BY <1>3, <1>6, <2>1
<1> HIDE DEF Best, candidates, c0
<1>8. SelectedVariant(elements, ranks, unit, "default") = c0
  BY <1>5, <1>6, <1>7
<1> QED
  BY <1>1, <1>2, <1>8 DEF c0

\* What the theorems ask of tensors: single elements, or blocks of a tensor no
\* larger than a rank's share of a bucket that is padded.
NoLargeBlocks(elements, ranks, pad_bucket) ==
  \A j \in DOMAIN elements :
    \/ elements[j].block = 1
    \/ pad_bucket /\ Size(elements[j]) <= CeilDiv(TotalSize(elements), ranks)

\* A plan lays tensors out side by side within the bucket.
InBucket(elements, p, ranks) ==
  /\ p.shard_size \in Nat
  /\ p.start \in [DOMAIN elements -> Nat]
  /\ \A i \in DOMAIN elements :
       /\ Size(elements[i]) \in Nat
       /\ p.start[i] + Size(elements[i]) <= ranks * p.shard_size
  /\ \A i, k \in DOMAIN elements : i # k =>
       \/ p.start[i] + Size(elements[i]) <= p.start[k]
       \/ p.start[k] + Size(elements[k]) <= p.start[i]

LEMMA ValidIsSized ==
  ASSUME NEW elements \in Seq([shape : Seq(Nat), block : Nat]), ItemsAreValid(elements)
  PROVE  /\ Sized(elements, Len(elements)) /\ Listed(elements, Len(elements))
         /\ \A j \in DOMAIN elements : Size(elements[j]) % elements[j].block = 0
<1> DEFINE D == [shape : Seq(Nat), block : Nat]
<1>1. /\ Len(elements) \in Nat /\ DOMAIN elements = 1 .. Len(elements)
      /\ elements = [j \in 1 .. Len(elements) |-> elements[j]]
      /\ \A j \in 1 .. Len(elements) : elements[j] \in D
  <2>1. elements \in Seq(D)
    OBVIOUS
  <2> HIDE DEF D
  <2>2. Len(elements) \in Nat /\ elements \in [1 .. Len(elements) -> D]
    BY <2>1, LenProperties
  <2>3. DOMAIN elements = 1 .. Len(elements) /\ \A j \in 1 .. Len(elements) : elements[j] \in D
    BY <2>2
  <2>4. elements = [j \in 1 .. Len(elements) |-> elements[j]]
    BY <2>2
  <2> QED
    BY <2>2, <2>3, <2>4
<1>2. ASSUME NEW j \in 1 .. Len(elements)
      PROVE  Size(elements[j]) \in Nat /\ elements[j].block \in Nat \ {0}
  <2>1. elements[j].shape \in Seq(Nat) /\ elements[j].block \in Nat /\ elements[j].block > 0
    BY <1>1 DEF ItemsAreValid
  <2>2. Size(elements[j]) \in Nat
    BY <2>1, NumelType DEF Size
  <2> QED
    BY <2>1, <2>2
<1>3. Sized(elements, Len(elements))
  BY <1>1, <1>2 DEF Sized
<1> QED
  BY <1>1, <1>3 DEF ItemsAreValid, Listed

\* the default order: the starts as they were found, and a shard as large as
\* the search says, or as the last element needs
StartsOf(elements, n, S, ranks) == [i \in 1 .. n |-> CheckValidShardSize(elements, S, ranks)[i]]

SizeOfShards(elements, n, start, S, ranks, pad_bucket) ==
  IF pad_bucket \/ elements = <<>> THEN S
  ELSE CeilDiv(Max({start[i] + Size(elements[i]) : i \in 1 .. n}), ranks)

LEMMA DefaultPlan ==
  ASSUME NEW elements, NEW n, Listed(elements, n), NEW ranks, NEW unit, NEW pad_bucket
  PROVE  LET S == Algorithm1ShardSize(elements, ranks, unit)
             start == StartsOf(elements, n, S, ranks)
             p == PlanDBufferLayout(elements, ranks, unit, "default", pad_bucket)
         IN /\ p.start = start
            /\ p.shard_size = SizeOfShards(elements, n, start, S, ranks, pad_bucket)
<1> DEFINE S == Algorithm1ShardSize(elements, ranks, unit)
           found == CheckValidShardSize(elements, S, ranks)
           start == [i \in 1 .. n |-> found[i]]
           o == [i \in 1 .. n |-> i]
           selected == [tensor_order |-> o, shard_size |-> S]
<1>0. n \in Nat /\ elements = [j \in 1 .. n |-> elements[j]]
  BY DEF Listed
<1>1. SelectedVariant(elements, ranks, unit, "default") = selected
  BY DefaultVariant DEF Listed
<1>2. DOMAIN elements = 1 .. n
  BY <1>0
<1>3. Ordered(elements, selected.tensor_order) = elements
  <2>1. Ordered(elements, selected.tensor_order) = [j \in 1 .. n |-> elements[o[j]]]
    BY DEF Ordered
  <2>2. [j \in 1 .. n |-> elements[o[j]]] = [j \in 1 .. n |-> elements[j]]
    OBVIOUS
  <2> QED
    BY <1>0, <2>1, <2>2
<1>4. selected.tensor_order = o /\ selected.shard_size = S
  OBVIOUS
<1> HIDE DEF S, selected
<1> DEFINE offsets == CheckValidShardSize(Ordered(elements, selected.tensor_order), selected.shard_size, ranks)
           Placed == [i \in DOMAIN elements |->
                        offsets[CHOOSE j \in DOMAIN elements : selected.tensor_order[j] = i]]
<1>5. Placed = start
  <2> DEFINE At(i) == CHOOSE j \in DOMAIN elements : selected.tensor_order[j] = i
             at == [i \in 1 .. n |-> At(i)]
  <2>1. ASSUME NEW i \in 1 .. n PROVE At(i) = i
    <3>1. \A j \in DOMAIN elements : selected.tensor_order[j] = i <=> j = i
      BY <1>2, <1>4
    <3> QED
      BY <1>2, <3>1
  <2>2. offsets = found
    BY <1>3, <1>4
  <2> HIDE DEF found, offsets, At
  <2>3. at = [i \in 1 .. n |-> i]
    BY <2>1
  <2>4. Placed = [i \in DOMAIN elements |-> offsets[At(i)]]
    BY DEF At
  <2> HIDE DEF Placed
  <2>5. Placed = [i \in 1 .. n |-> found[At(i)]]
    BY <1>2, <2>2, <2>4
  <2>6. Placed = [i \in 1 .. n |-> found[at[i]]]
    BY <2>5
  <2> HIDE DEF at
  <2>7. \A i \in 1 .. n : at[i] = i
    BY <2>3
  <2> QED
    BY <2>6, <2>7
<1> DEFINE Size1(st) == IF pad_bucket \/ elements = <<>> THEN S
                        ELSE CeilDiv(Max({st[i] + Size(elements[i]) : i \in DOMAIN elements}), ranks)
<1>6. PlanDBufferLayout(elements, ranks, unit, "default", pad_bucket)
        = [tensor_order |-> selected.tensor_order, start |-> Placed, shard_size |-> Size1(Placed)]
  <2>1. PlanDBufferLayout(elements, ranks, unit, "default", pad_bucket)
          = Layout(elements, ranks, selected, pad_bucket)
    BY <1>1 DEF PlanDBufferLayout
  <2>2. Layout(elements, ranks, selected, pad_bucket)
          = [tensor_order |-> selected.tensor_order, start |-> Placed,
             shard_size |-> IF pad_bucket \/ elements = <<>> THEN selected.shard_size
                            ELSE CeilDiv(Max({Placed[i] + Size(elements[i]) : i \in DOMAIN elements}), ranks)]
    BY DEF Layout
  <2> HIDE DEF Placed
  <2>3. Layout(elements, ranks, selected, pad_bucket)
          = [tensor_order |-> selected.tensor_order, start |-> Placed, shard_size |-> Size1(Placed)]
    BY <1>4, <2>2
  <2> QED
    BY <2>1, <2>3
<1> HIDE DEF Placed, start
<1>7. Size1(start) = IF pad_bucket \/ elements = <<>> THEN S
                     ELSE CeilDiv(Max({start[i] + Size(elements[i]) : i \in 1 .. n}), ranks)
  BY <1>2
<1> HIDE DEF Size1
<1>8. LET p == PlanDBufferLayout(elements, ranks, unit, "default", pad_bucket)
      IN p.start = start /\ p.shard_size = Size1(start)
  BY <1>5, <1>6
<1> QED
  <2>1. start = StartsOf(elements, n, S, ranks)
    BY DEF start, StartsOf
  <2>2. Size1(start) = SizeOfShards(elements, n, start, S, ranks, pad_bucket)
    BY <1>7 DEF SizeOfShards
  <2> QED
    BY <1>8, <2>1, <2>2 DEF S

\* tensors that fit, none of them too large, are side by side within the bucket
LEMMA FittingIsInBucket ==
  ASSUME NEW elements, NEW n, Sized(elements, n), NEW S \in Nat \ {0}, NEW ranks \in Nat \ {0},
         Fits(elements, S, ranks),
         \A j \in 1 .. n : Modest(Size(elements[j]), elements[j].block, S)
  PROVE  LET found == CheckValidShardSize(elements, S, ranks)
         IN /\ found \in [1 .. n -> Nat]
            /\ \A i \in 1 .. n : found[i] + Size(elements[i]) <= ranks * S
            /\ \A i \in 1 .. n : CutsWholeBlocks(found[i], Size(elements[i]), elements[i].block, S)
            /\ \A i, k \in 1 .. n : i # k =>
                 \/ found[i] + Size(elements[i]) <= found[k]
                 \/ found[k] + Size(elements[k]) <= found[i]
<1> DEFINE found == CheckValidShardSize(elements, S, ranks)
<1>1. PlacedInOrder(elements, found, n, S, ranks)
  BY FittingIsPlaced
<1> HIDE DEF found
<1>2. n \in Nat
  BY DEF Sized
<1>3. ASSUME NEW i \in 1 .. n, NEW k \in 1 .. n, i # k
      PROVE  \/ found[i] + Size(elements[i]) <= found[k]
             \/ found[k] + Size(elements[k]) <= found[i]
  <2>1. CASE i < k
    BY <1>1, <2>1, SideBySide
  <2>2. CASE k < i
    BY <1>1, <2>2, SideBySide
  <2> QED
    BY <1>2, <1>3, <2>1, <2>2
<1>4. /\ found \in [1 .. n -> Nat]
      /\ \A i \in 1 .. n : found[i] + Size(elements[i]) <= ranks * S
      /\ \A i \in 1 .. n : CutsWholeBlocks(found[i], Size(elements[i]), elements[i].block, S)
  BY <1>1 DEF PlacedInOrder
<1> QED
  BY <1>3, <1>4 DEF found

\* the largest of finitely many numbers
Values(f, n) == {f[i] : i \in 1 .. n}
AreNumbers(f, n) == \A i \in 1 .. n : f[i] \in Nat

LEMMA GreatestIs ==
  ASSUME NEW n \in Nat \ {0}, NEW f, AreNumbers(f, n)
  PROVE  Max(Values(f, n)) \in Nat /\ \A i \in 1 .. n : f[i] <= Max(Values(f, n))
<1> USE DEF AreNumbers
<1> DEFINE T == {f[i] : i \in 1 .. n}
           Sums == {k \in Nat : k <= n => \E b \in Nat : \A i \in 1 .. k : f[i] <= b}
<1>1. 0 \in Sums
  OBVIOUS
<1>2. ASSUME NEW k \in Sums PROVE k + 1 \in Sums
  <2>1. CASE ~(k + 1 <= n)
    BY <2>1
  <2>2. CASE k + 1 <= n
    <3>1. PICK b \in Nat : \A i \in 1 .. k : f[i] <= b
      BY <2>2
    <3>2. f[k + 1] \in Nat
      BY <2>2
    <3>3. b + f[k + 1] \in Nat /\ b <= b + f[k + 1] /\ f[k + 1] <= b + f[k + 1]
      BY <3>2
    <3>4. \A i \in 1 .. k + 1 : i \in 1 .. k \/ i = k + 1
      OBVIOUS
    <3>5. \A i \in 1 .. k : f[i] \in Nat
      BY <2>2
    <3>6. \A i \in 1 .. k + 1 : f[i] <= b + f[k + 1]
      BY <3>1, <3>2, <3>3, <3>4, <3>5
    <3> QED
      BY <3>3, <3>6
  <2> QED
    BY <2>1, <2>2
<1>3. n \in Sums
  <2> HIDE DEF Sums
  <2>1. Sums \subseteq Nat
    BY DEF Sums
  <2> QED
    BY <1>1, <1>2, <2>1, Induct
<1>4. PICK top \in Nat : \A i \in 1 .. n : f[i] <= top
  BY <1>3
<1> DEFINE Bounds == {b \in Nat : \A y \in T : y <= b}
<1>5. Bounds # {} /\ Bounds \subseteq Nat
  BY <1>4
<1>6. PICK m \in Bounds : \A b \in Bounds : m <= b
  <2> HIDE DEF Bounds
  <2> QED
    BY <1>5, LeastIs
<1>7. m \in T
  <2>1. SUFFICES ASSUME m \notin T PROVE FALSE
    OBVIOUS
  <2>2. m \in Nat /\ (\A y \in T : y <= m) /\ \A y \in T : y \in Nat
    OBVIOUS
  <2>3. f[1] \in T /\ f[1] \in Nat
    OBVIOUS
  <2> HIDE DEF T
  <2>4. \A y \in T : y <= m - 1
    BY <2>1, <2>2
  <2>5. m - 1 \in Nat
    BY <2>2, <2>3, <2>4
  <2>6. m - 1 \in Bounds
    BY <2>4, <2>5
  <2>7. m <= m - 1
    BY <1>6, <2>6
  <2> QED
    BY <2>2, <2>7
<1>8. \A y \in T : y <= m
  BY <1>6
<1>9. T \subseteq Nat
  OBVIOUS
<1> HIDE DEF T
<1>10. Max(T) \in T /\ \A y \in T : y <= Max(T)
  <2>1. \E x \in T : \A y \in T : x >= y
    BY <1>7, <1>8, <1>9
  <2>2. Max(T) = CHOOSE x \in T : \A y \in T : x >= y
    BY DEF Max
  <2>3. Max(T) \in T /\ \A y \in T : Max(T) >= y
    BY <2>1, <2>2
  <2> QED
    BY <1>9, <2>3
<1>11. T = Values(f, n) /\ \A i \in 1 .. n : f[i] \in T
  BY DEF T, Values
<1> QED
  BY <1>9, <1>10, <1>11

\* The planner's promise: in the default order, every tensor of single elements
\* or no larger than a rank's share of a padded bucket is laid out within the
\* bucket, beside the others, and cut between blocks.
THEOREM PlanIsSound ==
  ASSUME NEW elements \in Seq([shape : Seq(Nat), block : Nat]), ItemsAreValid(elements),
         NEW ranks \in Nat \ {0}, NEW unit \in Nat, NEW pad_bucket \in BOOLEAN,
         NoLargeBlocks(elements, ranks, pad_bucket)
  PROVE  LET p == PlanDBufferLayout(elements, ranks, unit, "default", pad_bucket)
         IN InBucket(elements, p, ranks) /\ LocalUnitsAreWhole(elements, p, ranks)
<1> DEFINE n == Len(elements)
           S == Algorithm1ShardSize(elements, ranks, unit)
           found == CheckValidShardSize(elements, S, ranks)
           start == StartsOf(elements, n, S, ranks)
           p == PlanDBufferLayout(elements, ranks, unit, "default", pad_bucket)
<1>1. /\ Sized(elements, n) /\ Listed(elements, n) /\ n \in Nat
      /\ \A j \in DOMAIN elements : Size(elements[j]) % elements[j].block = 0
  BY ValidIsSized DEF Listed
<1> HIDE DEF n
<1>2. DOMAIN elements = 1 .. n /\ \A j \in 1 .. n : Size(elements[j]) \in Nat /\ elements[j].block \in Nat \ {0}
  BY <1>1 DEF Sized
<1>3. /\ p.start = start
      /\ p.shard_size = SizeOfShards(elements, n, start, S, ranks, pad_bucket)
  BY <1>1, DefaultPlan
<1> HIDE DEF p
<1>4. CASE n = 0
  <2>1. elements = <<>>
    <3>1. elements \in Seq([shape : Seq(Nat), block : Nat]) /\ Len(elements) = 0
      BY <1>4 DEF n
    <3> QED
      BY <3>1, EmptySeq
  <2>2. S = 0
    BY <2>1 DEF Algorithm1ShardSize
  <2>3. p.shard_size = 0
    BY <1>3, <2>1, <2>2 DEF SizeOfShards
  <2>4. DOMAIN elements = {}
    BY <1>2, <1>4
  <2>5. p.start \in [DOMAIN elements -> Nat]
    BY <1>3, <1>4, <2>4 DEF StartsOf
  <2> QED
    BY <2>3, <2>4, <2>5 DEF InBucket, LocalUnitsAreWhole, p
<1>5. CASE n # 0
  <2>1. /\ S \in Nat \ {0} /\ Fits(elements, S, ranks)
        /\ CeilDiv(TotalSize(elements), ranks) <= S
    BY <1>1, <1>5, ShardSizeFits
  <2>2. elements # <<>>
    <3>1. 1 \in DOMAIN elements
      BY <1>1, <1>2, <1>5
    <3> QED
      BY <3>1
  <2> HIDE DEF S
  <2>3. ASSUME NEW j \in 1 .. n PROVE Modest(Size(elements[j]), elements[j].block, S)
    <3>1. TotalSize(elements) \in Nat
      BY <1>1, TotalSizeType
    <3>2. CeilDiv(TotalSize(elements), ranks) \in Nat
      BY <3>1, CeilDivBounds
    <3>3. elements[j].block = 1 \/ Size(elements[j]) <= CeilDiv(TotalSize(elements), ranks)
      BY <1>2 DEF NoLargeBlocks
    <3> QED
      BY <1>2, <2>1, <3>2, <3>3 DEF Modest
  <2>4. /\ found \in [1 .. n -> Nat]
        /\ \A i \in 1 .. n : found[i] + Size(elements[i]) <= ranks * S
        /\ \A i \in 1 .. n : CutsWholeBlocks(found[i], Size(elements[i]), elements[i].block, S)
        /\ \A i, k \in 1 .. n : i # k =>
             \/ found[i] + Size(elements[i]) <= found[k]
             \/ found[k] + Size(elements[k]) <= found[i]
    BY <1>1, <2>1, <2>3, FittingIsInBucket
  <2>5. start = found
    <3>1. start = [i \in 1 .. n |-> found[i]]
      BY DEF StartsOf
    <3> HIDE DEF found, start
    <3> QED
      BY <2>4, <3>1
  <2> HIDE DEF found
  <2> HIDE DEF start
  <2>6. /\ p.shard_size \in Nat
        /\ \A i \in 1 .. n : found[i] + Size(elements[i]) <= ranks * p.shard_size
        /\ \A i \in 1 .. n, r \in 0 .. ranks - 1 :
             LocalSize(found[i], Size(elements[i]), p.shard_size, r) % elements[i].block = 0
    <3>1. CASE pad_bucket
      <4>1. p.shard_size = S
        BY <1>3, <3>1 DEF SizeOfShards
      <4>2. ASSUME NEW i \in 1 .. n, NEW r \in 0 .. ranks - 1
            PROVE  LocalSize(found[i], Size(elements[i]), S, r) % elements[i].block = 0
        <5>1. found[i] \in Nat /\ r \in Nat /\ S \in Nat /\ Size(elements[i]) \in Nat
          <6>1. found[i] \in Nat
            BY <2>4
          <6>2. r \in Nat /\ S \in Nat
            BY <2>1
          <6>3. Size(elements[i]) \in Nat
            BY <1>2
          <6> QED
            BY <6>1, <6>2, <6>3
        <5>2. elements[i].block \in Nat \ {0} /\ Size(elements[i]) % elements[i].block = 0
          BY <1>1, <1>2
        <5>3. CutsWholeBlocks(found[i], Size(elements[i]), elements[i].block, S)
          BY <2>4
        <5>4. r \in Nat /\ S \in Nat
          BY <5>1
        <5> DEFINE x == found[i]
                   size == Size(elements[i])
                   block == elements[i].block
        <5>5. /\ x \in Nat /\ size \in Nat /\ block \in Nat \ {0} /\ size % block = 0
              /\ CutsWholeBlocks(x, size, block, S)
          BY <5>1, <5>2, <5>3
        <5> HIDE DEF x, size, block
        <5>6. LocalSize(x, size, S, r) % block = 0
          BY <5>4, <5>5, ShareIsWhole
        <5> QED
          BY <5>6 DEF x, size, block
      <4>3. p.shard_size \in Nat
        BY <2>1, <4>1
      <4>4. \A i \in 1 .. n : found[i] + Size(elements[i]) <= ranks * p.shard_size
        BY <2>4, <4>1
      <4>5. \A i \in 1 .. n, r \in 0 .. ranks - 1 :
              LocalSize(found[i], Size(elements[i]), p.shard_size, r) % elements[i].block = 0
        BY <4>1, <4>2
      <4> QED
        BY <4>3, <4>4, <4>5
    <3>2. CASE ~pad_bucket
      <4> DEFINE f == [i \in 1 .. n |-> found[i] + Size(elements[i])]
                 top == Max(Values(f, n))
      <4>1. \A i \in 1 .. n : f[i] \in Nat /\ f[i] = found[i] + Size(elements[i])
        <5>1. \A i \in 1 .. n : found[i] \in Nat
          BY <2>4
        <5>2. \A i \in 1 .. n : Size(elements[i]) \in Nat
          BY <1>2
        <5>3. \A i \in 1 .. n : f[i] = found[i] + Size(elements[i])
          OBVIOUS
        <5> HIDE DEF f
        <5> QED
          BY <5>1, <5>2, <5>3
      <4>2. {start[i] + Size(elements[i]) : i \in 1 .. n} = Values(f, n)
        BY <2>5, <4>1 DEF Values
      <4> HIDE DEF f
      <4>3. top \in Nat /\ \A i \in 1 .. n : f[i] <= top
        <5>1. n \in Nat \ {0} /\ AreNumbers(f, n)
          BY <1>1, <1>5, <4>1 DEF AreNumbers
        <5> QED
          BY <5>1, GreatestIs
      <4>4. p.shard_size = CeilDiv(top, ranks)
        BY <1>3, <2>2, <3>2, <4>2 DEF SizeOfShards
      <4> HIDE DEF top
      <4>5. CeilDiv(top, ranks) \in Nat /\ top <= ranks * CeilDiv(top, ranks)
        BY <4>3, CeilDivBounds
      <4>6. p.shard_size \in Nat /\ top <= ranks * p.shard_size /\ ranks * p.shard_size \in Nat
        BY <4>4, <4>5
      <4>7. \A i \in 1 .. n : found[i] + Size(elements[i]) <= ranks * p.shard_size
        <5> DEFINE most == ranks * p.shard_size
        <5>1. top \in Nat /\ most \in Nat /\ top <= most
          BY <4>3, <4>6
        <5> HIDE DEF most
        <5>2. \A i \in 1 .. n : f[i] <= most
          BY <4>1, <4>3, <5>1
        <5>3. \A i \in 1 .. n : found[i] + Size(elements[i]) <= most
          BY <4>1, <5>2
        <5> QED
          BY <5>3 DEF most
      <4>8. ASSUME NEW i \in 1 .. n, NEW r \in 0 .. ranks - 1
            PROVE  LocalSize(found[i], Size(elements[i]), p.shard_size, r) % elements[i].block = 0
        <5>1. elements[i].block = 1
          BY <1>2, <3>2 DEF NoLargeBlocks
        <5>2. found[i] \in Nat /\ Size(elements[i]) \in Nat /\ r \in Nat
          BY <1>2, <2>4
        <5>3. LocalSize(found[i], Size(elements[i]), p.shard_size, r) \in Int
          BY <4>6, <5>2, ShareType
        <5>4. \A x \in Int : x % 1 = 0
          OBVIOUS
        <5> QED
          BY <5>1, <5>3, <5>4
      <4> QED
        BY <4>6, <4>7, <4>8
    <3> QED
      BY <3>1, <3>2
  <2>7. p.start = found
    BY <1>3, <2>5
  <2>8. InBucket(elements, p, ranks)
    BY <1>2, <2>4, <2>6, <2>7 DEF InBucket
  <2>9. LocalUnitsAreWhole(elements, p, ranks)
    BY <1>2, <2>6, <2>7 DEF LocalUnitsAreWhole
  <2> QED
    BY <2>8, <2>9 DEF p
<1> QED
  BY <1>4, <1>5
=============================================================================
