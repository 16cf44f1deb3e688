---------------------- MODULE ParamAndGradBufferProofs ----------------------
(***************************************************************************)
(* The buffers of a model, for every model, mesh, strategy and way of      *)
(* training.  The grouping puts every parameter into one bucket, with      *)
(* parameters of its kind; the main gradients of all groups lie side by    *)
(* side in the allocation of their dtype, and fill it; what modules        *)
(* compute with is gathered from the weights of the last step, each        *)
(* element in its place; and at the step a gradient is that of every rank  *)
(* and microbatch, once.                                                   *)
(***************************************************************************)
EXTENDS ParamAndGradBuffer, DBufferLayoutProofs, FiniteSetTheorems, SequenceTheorems, TLAPS

----------------------------------------------------------------------------
(* Sorted sets (_get_parameter_groups).                                    *)

\* a strict total order of a set, as the pairs of it
Precedes(before, x, y) == <<x, y>> \in before
OrdersAll(before, S) ==
  /\ \A x \in S : ~Precedes(before, x, x)
  /\ \A x, y \in S : x # y => Precedes(before, x, y) \/ Precedes(before, y, x)
  /\ \A x, y, z \in S : Precedes(before, x, y) /\ Precedes(before, y, z) => Precedes(before, x, z)

\* a sequence of the members of a set, each once
Has(list, x) == \E i \in DOMAIN list : list[i] = x
NoneTwice(list) == \A i, j \in DOMAIN list : list[i] = list[j] => i = j
Lists(list, S) == list \in Seq(S) /\ NoneTwice(list) /\ \A x : x \in S <=> Has(list, x)

\* a sorted set has all of its members, each once
LEMMA OrderedAll ==
  ASSUME NEW S, IsFiniteSet(S), NEW before, OrdersAll(before, S)
  PROVE  Lists(InTheOrderOf(S, before), S)
<1> DEFINE Lower(r) == {q \in S : <<q, r>> \in before}
           n == Cardinality(S)
           T == 0 .. n - 1
           f == [r \in S |-> Cardinality(Lower(r))]
<1>0. \A q, r \in S : q \in Lower(r) <=> Precedes(before, q, r)
  BY DEF Precedes
<1>1. n \in Nat
  BY FS_CardinalityType
<1>2. ASSUME NEW r \in S, NEW q \in S, Precedes(before, q, r)
      PROVE  /\ Cardinality(Lower(q)) \in Nat /\ Cardinality(Lower(r)) \in Nat
             /\ Cardinality(Lower(q)) < Cardinality(Lower(r))
  <2>0. Lower(r) \subseteq S /\ Lower(q) \subseteq S
    OBVIOUS
  <2> HIDE DEF Lower
  <2>1. IsFiniteSet(Lower(r)) /\ IsFiniteSet(Lower(q))
    BY <2>0, FS_Subset
  <2>2. q \in Lower(r)
    BY <1>0, <1>2
  <2>3. Lower(q) \subseteq Lower(r) \ {q}
    BY <1>0, <1>2, <2>0 DEF OrdersAll
  <2>4. Cardinality(Lower(r)) \in Nat /\ Cardinality(Lower(q)) \in Nat
    BY <2>1, FS_CardinalityType
  <2>5. IsFiniteSet(Lower(r) \ {q}) /\ Cardinality(Lower(r)) = Cardinality(Lower(r) \ {q}) + 1
        /\ Cardinality(Lower(r) \ {q}) \in Nat
    BY <2>1, <2>2, Fewer
  <2>6. Cardinality(Lower(q)) <= Cardinality(Lower(r) \ {q})
    BY <2>3, <2>5, FS_Subset
  <2> QED
    BY <2>4, <2>5, <2>6
<1>3. ASSUME NEW r \in S PROVE Cardinality(Lower(r)) \in T
  <2>0. Lower(r) \subseteq S
    OBVIOUS
  <2> HIDE DEF Lower
  <2>1. IsFiniteSet(Lower(r)) /\ Cardinality(Lower(r)) \in Nat
    BY <2>0, FS_Subset, FS_CardinalityType
  <2>2. /\ IsFiniteSet(S \ {r}) /\ Cardinality(S) = Cardinality(S \ {r}) + 1
        /\ Cardinality(S \ {r}) \in Nat
    BY Fewer
  <2>3. Lower(r) \subseteq S \ {r}
    BY <1>0, <2>0 DEF OrdersAll
  <2>4. Cardinality(Lower(r)) <= Cardinality(S \ {r})
    BY <2>2, <2>3, FS_Subset
  <2> QED
    BY <2>1, <2>2, <2>4
<1>4. ASSUME NEW r \in S, NEW q \in S, r # q PROVE Cardinality(Lower(r)) # Cardinality(Lower(q))
  <2> HIDE DEF Lower
  <2>1. Precedes(before, r, q) \/ Precedes(before, q, r)
    BY <1>4 DEF OrdersAll
  <2>2. CASE Precedes(before, r, q)
    BY <1>2, <2>2
  <2>3. CASE Precedes(before, q, r)
    BY <1>2, <2>3
  <2> QED
    BY <2>1, <2>2, <2>3
<1>5. f \in Injection(S, T)
  <2> HIDE DEF Lower, T
  <2> QED
    BY <1>3, <1>4 DEF Injection, IsInjective
<1>6. IsFiniteSet(T) /\ Cardinality(T) = n
  BY <1>1, FS_Interval
<1>7. f \in Surjection(S, T)
  <2> HIDE DEF T, f
  <2> QED
    BY <1>5, <1>6, FS_Injection
<1>8. ASSUME NEW k \in 1 .. n PROVE \E r \in S : Cardinality(Lower(r)) = k - 1
  <2>1. k - 1 \in T
    BY <1>1
  <2> HIDE DEF T, Lower
  <2> QED
    BY <1>7, <2>1 DEF Surjection
<1> DEFINE nth(k) == CHOOSE r \in S : Cardinality(Lower(r)) = k - 1
<1>9. InTheOrderOf(S, before) = [k \in 1 .. n |-> nth(k)]
  BY DEF InTheOrderOf
<1>10. ASSUME NEW k \in 1 .. n PROVE nth(k) \in S /\ Cardinality(Lower(nth(k))) = k - 1
  <2> HIDE DEF Lower, n
  <2> QED
    BY <1>8
<1>11. ASSUME NEW r \in S PROVE \E k \in 1 .. n : nth(k) = r
  <2>1. PICK k \in 1 .. n : Cardinality(Lower(r)) = k - 1
    <3>1. PICK c \in 0 .. n - 1 : c = Cardinality(Lower(r))
      BY <1>3
    <3> HIDE DEF Lower, n
    <3>2. c + 1 \in 1 .. n /\ c = c + 1 - 1
      BY <1>1
    <3>3. Cardinality(Lower(r)) = (c + 1) - 1
      BY <3>1, <3>2
    <3> QED
      BY <3>2, <3>3
  <2>2. nth(k) \in S /\ Cardinality(Lower(nth(k))) = Cardinality(Lower(r))
    BY <1>10, <2>1
  <2> HIDE DEF nth, Lower
  <2> QED
    BY <1>4, <2>2
<1>12. \A i, k \in 1 .. n : nth(i) = nth(k) => i = k
  <2> HIDE DEF nth, Lower, n
  <2>1. ASSUME NEW i \in 1 .. n, NEW k \in 1 .. n, nth(i) = nth(k) PROVE i = k
    <3>1. i - 1 = k - 1
      BY <1>10, <2>1
    <3> QED
      BY <1>1, <3>1
  <2> QED
    BY <2>1
<1> HIDE DEF nth, n, Lower
<1>13. PICK list : list = InTheOrderOf(S, before)
  OBVIOUS
<1>14. list = [k \in 1 .. n |-> nth(k)]
  BY <1>9, <1>13
<1>15. list \in Seq(S) /\ DOMAIN list = 1 .. n /\ \A k \in 1 .. n : list[k] = nth(k)
  BY <1>1, <1>10, <1>14, IsASeq
<1>16. \A r : r \in S <=> \E k \in 1 .. n : list[k] = r
  BY ONLY <1>10, <1>11, <1>15
<1>17. Lists(list, S)
  BY ONLY <1>1, <1>12, <1>15, <1>16 DEF Lists, Has, NoneTwice
<1> QED
  BY <1>13, <1>17

\* a set of numbers in ascending order
LEMMA AscendingAll ==
  ASSUME NEW S, S \subseteq Int, IsFiniteSet(S) PROVE Lists(InAscendingOrder(S), S)
<1> DEFINE before == {pair \in S \X S : pair[1] < pair[2]}
<1>1. \A n, k \in S : Precedes(before, n, k) <=> n < k
  BY DEF Precedes
<1>2. InAscendingOrder(S) = InTheOrderOf(S, before)
  BY DEF InAscendingOrder
<1> HIDE DEF before
<1>3. OrdersAll(before, S)
  <2>1. \A n, k, m \in S : n \in Int /\ k \in Int /\ m \in Int
    OBVIOUS
  <2>2. \A x \in S : ~Precedes(before, x, x)
    BY <1>1, <2>1
  <2>3. \A x, y \in S : x # y => Precedes(before, x, y) \/ Precedes(before, y, x)
    BY <1>1, <2>1
  <2>4. \A x, y, z \in S : Precedes(before, x, y) /\ Precedes(before, y, z) => Precedes(before, x, z)
    BY <1>1, <2>1
  <2> QED
    BY <2>2, <2>3, <2>4 DEF OrdersAll
<1> QED
  BY <1>2, <1>3, OrderedAll

----------------------------------------------------------------------------
(* Buckets, and what is in them.                                           *)

\* Parameters that may share a bucket, each once, and one that needs a bucket of
\* its own alone.
IsBucket(model, strategy, bucket) ==
  /\ bucket \in Seq(DOMAIN model.params) \ {<<>>} /\ NoneTwice(bucket)
  /\ \A n, k : Has(bucket, n) /\ Has(bucket, k) =>
       /\ ParamAttrs(model, n) = ParamAttrs(model, k)
       /\ RequiresNewBucket(model, strategy, n) => n = k

\* buckets of parameters, each parameter of a set in one of them
Splits(model, strategy, bs, S) ==
  /\ bs \in Seq(Seq(DOMAIN model.params))
  /\ \A b \in 1 .. Len(bs) : IsBucket(model, strategy, bs[b])
  /\ \A b, c \in 1 .. Len(bs) : \A n : Has(bs[b], n) /\ Has(bs[c], n) => b = c
  /\ \A n : n \in S <=> \E b \in 1 .. Len(bs) : Has(bs[b], n)

LEMMA NoneSplit ==
  ASSUME NEW model, NEW strategy PROVE Splits(model, strategy, <<>>, {})
<1>1. <<>> \in Seq(Seq(DOMAIN model.params)) /\ 1 .. Len(<<>>) = {}
  OBVIOUS
<1> QED
  BY <1>1 DEF Splits

LEMMA SplitsOne ==
  ASSUME NEW model, NEW strategy, NEW bucket, IsBucket(model, strategy, bucket),
         NEW T, \A n : n \in T <=> Has(bucket, n)
  PROVE  Splits(model, strategy, <<bucket>>, T)
<1> DEFINE bs == <<bucket>>
           E == Seq(DOMAIN model.params)
<1>1. bucket \in E
  BY DEF IsBucket
<1> HIDE DEF E
<1>2. bs \in Seq(E) /\ Len(bs) = 1 /\ 1 .. 1 = {1} /\ bs[1] = bucket
  BY <1>1
<1> HIDE DEF bs
<1>3. Splits(model, strategy, bs, T)
  BY <1>2 DEF Splits, E
<1> QED
  BY <1>3 DEF bs

\* buckets of different parameters, one after the other
LEMMA SplitsBoth ==
  ASSUME NEW model, NEW strategy, NEW bs, NEW S, Splits(model, strategy, bs, S),
         NEW cs, NEW T, Splits(model, strategy, cs, T), S \cap T = {}
  PROVE  Splits(model, strategy, bs \o cs, S \cup T)
<1> DEFINE E == Seq(DOMAIN model.params)
           u == bs \o cs
           n == Len(bs)
           m == Len(cs)
<1>1. bs \in Seq(E) /\ cs \in Seq(E) /\ n \in Nat /\ m \in Nat
  BY DEF Splits
<1>2. u \in Seq(E) /\ Len(u) = n + m /\ \A i \in 1 .. n + m : u[i] = IF i <= n THEN bs[i] ELSE cs[i - n]
  BY <1>1, ConcatProperties
<1>3. /\ \A b \in 1 .. n : IsBucket(model, strategy, bs[b])
      /\ \A b, c \in 1 .. n : \A x : Has(bs[b], x) /\ Has(bs[c], x) => b = c
      /\ \A x : x \in S <=> \E b \in 1 .. n : Has(bs[b], x)
  BY DEF Splits
<1>4. /\ \A b \in 1 .. m : IsBucket(model, strategy, cs[b])
      /\ \A b, c \in 1 .. m : \A x : Has(cs[b], x) /\ Has(cs[c], x) => b = c
      /\ \A x : x \in T <=> \E b \in 1 .. m : Has(cs[b], x)
  BY DEF Splits
<1> HIDE DEF E, u, n, m
<1>5. ASSUME NEW b \in 1 .. n + m
      PROVE  \/ b \in 1 .. n /\ u[b] = bs[b]
             \/ b - n \in 1 .. m /\ u[b] = cs[b - n] /\ ~(b <= n)
  BY <1>1, <1>2
<1>6. ASSUME NEW b \in 1 .. n + m PROVE IsBucket(model, strategy, u[b])
  BY <1>3, <1>4, <1>5
<1>7. ASSUME NEW b \in 1 .. n + m, NEW c \in 1 .. n + m, NEW x, Has(u[b], x), Has(u[c], x)
      PROVE  b = c
  <2>1. CASE b \in 1 .. n /\ u[b] = bs[b] /\ c \in 1 .. n /\ u[c] = bs[c]
    BY <1>3, <1>7, <2>1
  <2>2. CASE b - n \in 1 .. m /\ u[b] = cs[b - n] /\ c - n \in 1 .. m /\ u[c] = cs[c - n]
    <3>1. b - n = c - n
      BY <1>4, <1>7, <2>2
    <3> QED
      BY <1>1, <3>1
  <2>3. CASE b \in 1 .. n /\ u[b] = bs[b] /\ c - n \in 1 .. m /\ u[c] = cs[c - n]
    <3>1. x \in S /\ x \in T
      BY <1>3, <1>4, <1>7, <2>3
    <3> QED
      BY <3>1
  <2>4. CASE b - n \in 1 .. m /\ u[b] = cs[b - n] /\ c \in 1 .. n /\ u[c] = bs[c]
    <3>1. x \in S /\ x \in T
      BY <1>3, <1>4, <1>7, <2>4
    <3> QED
      BY <3>1
  <2> QED
    BY <1>5, <2>1, <2>2, <2>3, <2>4
<1>8. ASSUME NEW x PROVE x \in S \cup T <=> \E b \in 1 .. n + m : Has(u[b], x)
  <2>1. ASSUME x \in S PROVE \E b \in 1 .. n + m : Has(u[b], x)
    <3>1. PICK b \in 1 .. n : Has(bs[b], x)
      BY <1>3, <2>1
    <3>2. b \in 1 .. n + m /\ b <= n
      BY <1>1
    <3> QED
      BY <1>2, <3>1, <3>2
  <2>2. ASSUME x \in T PROVE \E b \in 1 .. n + m : Has(u[b], x)
    <3>1. PICK b \in 1 .. m : Has(cs[b], x)
      BY <1>4, <2>2
    <3>2. b + n \in 1 .. n + m /\ ~(b + n <= n) /\ (b + n) - n = b
      BY <1>1
    <3>3. u[b + n] = cs[b]
      BY <1>2, <3>2
    <3> QED
      BY <3>1, <3>2, <3>3
  <2>3. ASSUME NEW b \in 1 .. n + m, Has(u[b], x) PROVE x \in S \cup T
    BY <1>3, <1>4, <1>5, <2>3
  <2> QED
    BY <2>1, <2>2, <2>3
<1>9. Splits(model, strategy, u, S \cup T)
  BY <1>2, <1>6, <1>7, <1>8 DEF Splits, E
<1> QED
  BY <1>9 DEF u

----------------------------------------------------------------------------
(* Step 2: a parameter is put into a bucket.                               *)

PutInto(model, strategy, filling, n) ==
  LET bucket == Append(filling.bucket, n)
  IN IF RequiresNewBucket(model, strategy, n)
     THEN [full |-> filling.full \o Closed(filling.bucket) \o << <<n>> >>, bucket |-> <<>>]
     ELSE IF IsFull(model, bucket)
     THEN [full |-> Append(filling.full, bucket), bucket |-> <<>>]
     ELSE [filling EXCEPT !.bucket = bucket]

\* some parameters are in buckets, and the others in the one that is not full
Fills(model, strategy, filling, S) ==
  \E full, bucket, T :
    /\ filling = [full |-> full, bucket |-> bucket]
    /\ T \subseteq S /\ Splits(model, strategy, full, S \ T)
    /\ Lists(bucket, T) /\ \A n \in T : ~RequiresNewBucket(model, strategy, n)

\* a bucket that is not full is one, or empty
LEMMA ClosedSplits ==
  ASSUME NEW model, NEW strategy, NEW bucket, NEW T, T \subseteq DOMAIN model.params, Lists(bucket, T),
         \A n \in T : ~RequiresNewBucket(model, strategy, n),
         \A n, k \in T : ParamAttrs(model, n) = ParamAttrs(model, k)
  PROVE  Splits(model, strategy, Closed(bucket), T)
<1>1. CASE bucket = <<>>
  <2>1. \A n : ~Has(<<>>, n)
    BY DEF Has
  <2>2. T = {}
    BY <1>1, <2>1 DEF Lists
  <2>3. Closed(bucket) = <<>>
    BY <1>1 DEF Closed
  <2> QED
    BY <2>2, <2>3, NoneSplit
<1>2. CASE bucket # <<>>
  <2>1. bucket \in Seq(DOMAIN model.params)
    BY SeqMonotonic DEF Lists
  <2>2. \A n : n \in T <=> Has(bucket, n)
    BY DEF Lists
  <2>3. NoneTwice(bucket)
    BY DEF Lists
  <2>4. IsBucket(model, strategy, bucket)
    BY <1>2, <2>1, <2>2, <2>3 DEF IsBucket
  <2>5. Closed(bucket) = <<bucket>>
    BY <1>2 DEF Closed
  <2> QED
    BY <2>2, <2>4, <2>5, SplitsOne
<1> QED
  BY <1>1, <1>2

LEMMA ListsMore ==
  ASSUME NEW list, NEW T, Lists(list, T), NEW n, n \notin T
  PROVE  Lists(Append(list, n), T \cup {n})
<1> DEFINE u == Append(list, n)
           k == Len(list)
<1>1. list \in Seq(T \cup {n}) /\ list \in Seq(T)
  BY SeqMonotonic DEF Lists
<1>2. /\ u \in Seq(T \cup {n}) /\ Len(u) = k + 1 /\ k \in Nat /\ DOMAIN u = 1 .. k + 1 /\ DOMAIN list = 1 .. k
      /\ \A i \in 1 .. k : u[i] = list[i]
      /\ u[k + 1] = n
  BY <1>1, AppendProperties, LenProperties
<1>3. \A i, j \in DOMAIN list : list[i] = list[j] => i = j
  BY DEF Lists, NoneTwice
<1>4. \A x : x \in T <=> \E i \in DOMAIN list : list[i] = x
  BY DEF Lists, Has
<1> HIDE DEF u, k
<1>5. \A i \in 1 .. k + 1 : i \in 1 .. k \/ i = k + 1
  BY <1>2
<1>6. \A i, j \in DOMAIN u : u[i] = u[j] => i = j
  BY <1>2, <1>3, <1>4, <1>5
<1>7. \A x : x \in T \cup {n} <=> \E i \in DOMAIN u : u[i] = x
  <2>1. k + 1 \in 1 .. k + 1 /\ \A i \in 1 .. k : i \in 1 .. k + 1
    BY <1>2
  <2> QED
    BY <1>2, <1>4, <1>5, <2>1
<1>8. Lists(u, T \cup {n})
  BY <1>2, <1>6, <1>7 DEF Lists, NoneTwice, Has
<1> QED
  BY <1>8 DEF u

LEMMA EmptyLists == Lists(<<>>, {})
<1>1. <<>> \in Seq({}) /\ \A x : ~Has(<<>>, x)
  BY DEF Has
<1> QED
  BY <1>1 DEF Lists, NoneTwice

LEMMA AllFull ==
  ASSUME NEW model, NEW strategy, NEW full, NEW S, Splits(model, strategy, full, S)
  PROVE  Fills(model, strategy, [full |-> full, bucket |-> <<>>], S)
<1> DEFINE T == {}
<1>1. T \subseteq S /\ S \ T = S /\ \A x \in T : ~RequiresNewBucket(model, strategy, x)
  OBVIOUS
<1>2. Lists(<<>>, T)
  BY EmptyLists
<1> HIDE DEF T
<1> QED
  BY <1>1, <1>2 DEF Fills

LEMMA FillsMore ==
  ASSUME NEW model, NEW strategy, NEW filling, NEW S, S \subseteq DOMAIN model.params,
         Fills(model, strategy, filling, S), NEW n \in DOMAIN model.params, n \notin S,
         \A x, y \in S \cup {n} : ParamAttrs(model, x) = ParamAttrs(model, y)
  PROVE  Fills(model, strategy, PutInto(model, strategy, filling, n), S \cup {n})
<1> DEFINE bucket == Append(filling.bucket, n)
           u == PutInto(model, strategy, filling, n)
           D == DOMAIN model.params
<1>1. PICK full, part, T :
        /\ filling = [full |-> full, bucket |-> part]
        /\ T \subseteq S /\ Splits(model, strategy, full, S \ T)
        /\ Lists(part, T) /\ \A x \in T : ~RequiresNewBucket(model, strategy, x)
  BY DEF Fills
<1>2. filling.full = full /\ filling.bucket = part
  BY <1>1
<1>3. CASE RequiresNewBucket(model, strategy, n)
  <2> DEFINE all == full \o Closed(part) \o << <<n>> >>
  <2>1. u = [full |-> all, bucket |-> <<>>]
    BY <1>2, <1>3 DEF PutInto
  <2> HIDE DEF u
  <2>2. Splits(model, strategy, Closed(part), T)
    BY <1>1, ClosedSplits
  <2>3. Splits(model, strategy, full \o Closed(part), S)
    <3>1. (S \ T) \cap T = {} /\ (S \ T) \cup T = S
      BY <1>1
    <3> QED
      BY <1>1, <2>2, <3>1, SplitsBoth
  <2>4. Splits(model, strategy, << <<n>> >>, {n})
    <3> DEFINE one == <<n>>
    <3>1. one \in Seq(D) /\ one # <<>> /\ DOMAIN one = {1} /\ one[1] = n
      <4>1. n \in D
        OBVIOUS
      <4> HIDE DEF D
      <4>2. one \in Seq(D)
        BY <4>1
      <4>3. one # <<>> /\ DOMAIN one = {1} /\ one[1] = n
        OBVIOUS
      <4> QED
        BY <4>2, <4>3
    <3> HIDE DEF one, D
    <3>2. NoneTwice(one) /\ \A x : x \in {n} <=> Has(one, x)
      BY <3>1 DEF NoneTwice, Has
    <3>3. IsBucket(model, strategy, one)
      BY <3>1, <3>2 DEF IsBucket, D
    <3> QED
      BY <3>2, <3>3, SplitsOne DEF one
  <2>5. Splits(model, strategy, all, S \cup {n})
    <3>1. S \cap {n} = {}
      OBVIOUS
    <3> QED
      BY <2>3, <2>4, <3>1, SplitsBoth
  <2> HIDE DEF all
    <2>6. Fills(model, strategy, u, S \cup {n})
    BY <2>1, <2>5, AllFull
  <2> QED
    BY <2>6 DEF u
<1>4. CASE ~RequiresNewBucket(model, strategy, n)
  <2>0. n \notin T /\ T \cup {n} \subseteq S \cup {n}
    BY <1>1
  <2>1. Lists(bucket, T \cup {n})
    BY <1>1, <1>2, <2>0, ListsMore
  <2>2. \A x \in T \cup {n} : ~RequiresNewBucket(model, strategy, x)
    BY <1>1, <1>4
  <2>3. CASE IsFull(model, bucket)
    <3> DEFINE all == Append(full, bucket)
    <3>1. u = [full |-> all, bucket |-> <<>>]
      BY <1>2, <1>4, <2>3 DEF PutInto
    <3>2. bucket # <<>>
      <4>1. Has(bucket, n)
        BY <2>1 DEF Lists
      <4>2. ~Has(<<>>, n)
        BY DEF Has
      <4> QED
        BY <4>1, <4>2
    <3> HIDE DEF u, bucket
    <3>3. Closed(bucket) = <<bucket>>
      BY <3>2 DEF Closed
    <3>4. Splits(model, strategy, Closed(bucket), T \cup {n})
      <4>1. T \cup {n} \subseteq D
        BY <1>1
      <4>2. \A x, y \in T \cup {n} : ParamAttrs(model, x) = ParamAttrs(model, y)
        BY <1>1
      <4> QED
        BY <2>1, <2>2, <4>1, <4>2, ClosedSplits
    <3>5. (S \ T) \cap (T \cup {n}) = {} /\ (S \ T) \cup (T \cup {n}) = S \cup {n}
      BY <1>1
    <3>6. Splits(model, strategy, full \o <<bucket>>, S \cup {n})
      <4>1. Splits(model, strategy, full \o Closed(bucket), (S \ T) \cup (T \cup {n}))
        BY <1>1, <3>4, <3>5, SplitsBoth
      <4> QED
        BY <3>3, <3>5, <4>1
    <3>7. all = full \o <<bucket>>
      <4>1. full \in Seq(Seq(D))
        BY <1>1 DEF Splits
      <4>2. bucket \in Seq(D)
        <5>1. T \cup {n} \subseteq D
          BY <1>1
        <5> QED
          BY <2>1, <5>1, SeqMonotonic DEF Lists
      <4> HIDE DEF D
      <4> QED
        BY <4>1, <4>2, AppendIsConcat
    <3> HIDE DEF all
        <3>8. Fills(model, strategy, u, S \cup {n})
      BY <3>1, <3>6, <3>7, AllFull
    <3> QED
      BY <3>8 DEF u
  <2>4. CASE ~IsFull(model, bucket)
    <3>1. u = [full |-> full, bucket |-> bucket]
      <4>1. u = [filling EXCEPT !.bucket = bucket]
        BY <1>4, <2>4 DEF PutInto
      <4> HIDE DEF u, bucket
      <4> QED
        BY <1>1, <4>1
    <3> HIDE DEF u, bucket
    <3>2. (S \cup {n}) \ (T \cup {n}) = S \ T
      OBVIOUS
    <3>3. Fills(model, strategy, u, S \cup {n})
      BY <1>1, <2>0, <2>1, <2>2, <3>1, <3>2 DEF Fills
    <3> QED
      BY <3>3 DEF u
  <2> QED
    BY <2>3, <2>4
<1> QED
  BY <1>3, <1>4

\* the fillings after the first parameters, taken from the greatest set down
FillingTable(model, strategy, group, k, g) ==
  g = [s \in SUBSET (1 .. k) |->
         IF s = {} THEN [full |-> <<>>, bucket |-> <<>>]
         ELSE PutInto(model, strategy, g[s \ {Max(s)}], group[Max(s)])]

LEMMA BucketsChosen ==
  ASSUME NEW model, NEW strategy, NEW group, NEW n \in Nat, DOMAIN group = 1 .. n
  PROVE  LET filled == (CHOOSE g : FillingTable(model, strategy, group, n, g))[1 .. n]
         IN BucketsOf(model, strategy, group) = filled.full \o Closed(filled.bucket)
<1> DEFINE base == [full |-> <<>>, bucket |-> <<>>]
           f == MapThenFoldSet(LAMBDA x, y : PutInto(model, strategy, y, x), base, LAMBDA i : group[i],
                               LAMBDA S : Max(S), DOMAIN group)
<1>1. FoldLeft(LAMBDA filling, x : PutInto(model, strategy, filling, x), base, group) = f
  BY DEF FoldLeft
<1>2. f = (CHOOSE g : g = [s \in SUBSET DOMAIN group |->
             IF s = {} THEN base ELSE PutInto(model, strategy, g[s \ {Max(s)}], group[Max(s)])])[DOMAIN group]
  BY DEF MapThenFoldSet
<1>3. f = (CHOOSE g : FillingTable(model, strategy, group, n, g))[1 .. n]
  BY <1>2 DEF FillingTable
<1>4. BucketsOf(model, strategy, group)
        = FoldLeft(LAMBDA filling, x : PutInto(model, strategy, filling, x), base, group).full
            \o Closed(FoldLeft(LAMBDA filling, x : PutInto(model, strategy, filling, x), base, group).bucket)
  BY DEF BucketsOf, PutInto
<1> HIDE DEF f
<1> QED
  BY <1>1, <1>3, <1>4

LEMMA FillingsExist ==
  ASSUME NEW model, NEW strategy, NEW group
  PROVE  \A n \in Nat : \E g : FillingTable(model, strategy, group, n, g)
<1> DEFINE base == [full |-> <<>>, bucket |-> <<>>]
           Good == {n \in Nat : \E g : FillingTable(model, strategy, group, n, g)}
<1>1. 0 \in Good
  <2>1. FillingTable(model, strategy, group, 0, [s \in SUBSET (1 .. 0) |-> base])
    <3>1. 1 .. 0 = {}
      OBVIOUS
    <3> QED
      BY <3>1 DEF FillingTable
  <2> QED
    BY <2>1
<1>2. ASSUME NEW n \in Nat, n \in Good PROVE n + 1 \in Good
  <2>1. PICK g : FillingTable(model, strategy, group, n, g)
    BY <1>2
  <2> DEFINE h == [s \in SUBSET (1 .. n + 1) |->
                     IF n + 1 \in s THEN PutInto(model, strategy, g[s \ {n + 1}], group[n + 1]) ELSE g[s]]
             rest(s) == IF s = {} THEN base
                        ELSE PutInto(model, strategy, h[s \ {Max(s)}], group[Max(s)])
  <2>2. ASSUME NEW s \in SUBSET (1 .. n + 1)
        PROVE  h[s] = rest(s)
    <3> HIDE DEF base
    <3>1. CASE n + 1 \in s
      <4>1. Max(s) = n + 1
        BY <3>1, MaxOf
      <4>2. s \ {n + 1} \in SUBSET (1 .. n + 1) /\ n + 1 \notin s \ {n + 1}
        OBVIOUS
      <4> QED
        BY <3>1, <4>1, <4>2
    <3>2. CASE n + 1 \notin s /\ s # {}
      <4>1. s \in SUBSET (1 .. n)
        <5>1. \A i \in 1 .. n + 1 : i # n + 1 => i \in 1 .. n
          OBVIOUS
        <5> QED
          BY <3>2, <5>1
      <4>2. Max(s) \in s
        BY <3>2, <4>1, MaxIn
      <4>3. g[s] = PutInto(model, strategy, g[s \ {Max(s)}], group[Max(s)])
        BY <2>1, <3>2, <4>1, <4>2 DEF FillingTable
      <4>4. h[s \ {Max(s)}] = g[s \ {Max(s)}] /\ h[s] = g[s]
        BY <3>2, <4>1, <4>2
      <4> QED
        BY <3>2, <4>3, <4>4
    <3>3. CASE s = {}
      BY <2>1, <3>3 DEF FillingTable, base
    <3> QED
      BY <3>1, <3>2, <3>3
  <2> HIDE DEF rest
  <2>3. h = [s \in SUBSET (1 .. n + 1) |-> rest(s)]
    BY <2>2
  <2> HIDE DEF h
  <2>4. FillingTable(model, strategy, group, n + 1, h)
    BY <2>3 DEF FillingTable, rest
  <2> QED
    BY <2>4
<1> HIDE DEF Good
<1>3. Nat \subseteq Good
  BY <1>1, <1>2, Induct
<1> QED
  BY <1>3 DEF Good

\* the buckets of a group have its parameters, each once
LEMMA BucketsSplit ==
  ASSUME NEW model, NEW strategy, NEW S, S \subseteq DOMAIN model.params,
         \A x, y \in S : ParamAttrs(model, x) = ParamAttrs(model, y),
         NEW group, Lists(group, S)
  PROVE  Splits(model, strategy, BucketsOf(model, strategy, group), S)
<1> DEFINE n == Len(group)
           g == CHOOSE h : FillingTable(model, strategy, group, n, h)
           First(k) == {group[i] : i \in 1 .. k}
<1>1. n \in Nat /\ DOMAIN group = 1 .. n /\ \A i \in 1 .. n : group[i] \in S
  BY LenProperties, ElementOfSeq DEF Lists
<1>2. FillingTable(model, strategy, group, n, g)
  BY <1>1, FillingsExist
<1>3. LET filled == g[1 .. n]
      IN BucketsOf(model, strategy, group) = filled.full \o Closed(filled.bucket)
  BY <1>1, BucketsChosen
<1> HIDE DEF n, g
<1>4. Fills(model, strategy, g[1 .. 0], First(0))
  <2>1. 1 .. 0 = {} /\ {} \in SUBSET (1 .. n) /\ First(0) = {}
    OBVIOUS
  <2>2. g[1 .. 0] = [full |-> <<>>, bucket |-> <<>>]
    BY <1>2, <2>1 DEF FillingTable
  <2>3. {} \ {} = {}
    OBVIOUS
  <2> QED
    BY <2>1, <2>2, <2>3, NoneSplit, EmptyLists DEF Fills
<1>5. ASSUME NEW k \in Nat, k + 1 <= n
      PROVE  g[1 .. k + 1] = PutInto(model, strategy, g[1 .. k], group[k + 1])
  <2>1. 1 .. k + 1 \in SUBSET (1 .. n) /\ k + 1 \in 1 .. k + 1
    BY <1>1, <1>5
  <2>2. Max(1 .. k + 1) = k + 1
    BY <2>1, MaxOf
  <2>3. (1 .. k + 1) \ {k + 1} = 1 .. k /\ 1 .. k + 1 # {}
    OBVIOUS
  <2> QED
    BY <1>2, <2>1, <2>2, <2>3 DEF FillingTable
<1> DEFINE Good == {k \in Nat : k <= n => Fills(model, strategy, g[1 .. k], First(k))}
<1>6. 0 \in Good
  BY <1>4
<1>7. ASSUME NEW k \in Nat, k \in Good PROVE k + 1 \in Good
  <2>1. CASE k + 1 <= n
    <3>1. Fills(model, strategy, g[1 .. k], First(k))
      BY <1>1, <1>7, <2>1
    <3>2. k + 1 \in 1 .. n /\ \A i \in 1 .. k : i \in 1 .. n /\ i # k + 1
      BY <1>1, <2>1
    <3>3. group[k + 1] \notin First(k)
      BY <1>1, <3>2 DEF Lists, NoneTwice
    <3>4. First(k) \subseteq S /\ group[k + 1] \in S
      BY <1>1, <3>2
    <3>5. First(k + 1) = First(k) \cup {group[k + 1]}
      <4>1. 1 .. k + 1 = (1 .. k) \cup {k + 1}
        OBVIOUS
      <4> QED
        BY <4>1
    <3> HIDE DEF First
    <3>6. First(k) \subseteq DOMAIN model.params /\ group[k + 1] \in DOMAIN model.params
          /\ \A x, y \in First(k) \cup {group[k + 1]} : ParamAttrs(model, x) = ParamAttrs(model, y)
      BY <3>4
    <3>7. Fills(model, strategy, PutInto(model, strategy, g[1 .. k], group[k + 1]), First(k) \cup {group[k + 1]})
      BY <3>1, <3>3, <3>6, FillsMore
    <3>8. Fills(model, strategy, g[1 .. k + 1], First(k + 1))
      BY <1>5, <2>1, <3>5, <3>7
    <3> QED
      BY <3>8
  <2>2. CASE ~(k + 1 <= n)
    BY <2>2
  <2> QED
    BY <2>1, <2>2
<1> HIDE DEF Good
<1>8. n \in Good
  BY <1>1, <1>6, <1>7, Induct
<1>9. Fills(model, strategy, g[1 .. n], First(n))
  <2> HIDE DEF First
  <2>1. n <= n
    BY ONLY <1>1
  <2> QED
    BY ONLY <1>8, <2>1 DEF Good
<1>10. First(n) = S
  <2>1. \A x : x \in S <=> \E i \in 1 .. n : group[i] = x
    BY <1>1 DEF Lists, Has
  <2> QED
    BY <2>1
<1> HIDE DEF First
<1>11. PICK full, bucket, T :
        /\ g[1 .. n] = [full |-> full, bucket |-> bucket]
        /\ T \subseteq S /\ Splits(model, strategy, full, S \ T)
        /\ Lists(bucket, T) /\ \A x \in T : ~RequiresNewBucket(model, strategy, x)
  BY <1>9, <1>10 DEF Fills
<1>12. BucketsOf(model, strategy, group) = full \o Closed(bucket)
  BY <1>3, <1>11
<1>13. Splits(model, strategy, Closed(bucket), T)
  BY <1>11, ClosedSplits
<1>14. (S \ T) \cap T = {} /\ (S \ T) \cup T = S
  BY <1>11
<1>15. Splits(model, strategy, full \o Closed(bucket), (S \ T) \cup T)
  BY <1>11, <1>13, <1>14, SplitsBoth
<1> QED
  BY <1>12, <1>14, <1>15

----------------------------------------------------------------------------
(* Step 1: the classes of parameters of equal attributes.                  *)

AlikeIn(model, n) == {k \in DOMAIN model.params : ParamAttrs(model, k) = ParamAttrs(model, n)}
FirstsIn(model) == {n \in DOMAIN model.params : \A k \in AlikeIn(model, n) : n <= k}

LEMMA ClassesAre ==
  ASSUME NEW model
  PROVE  GroupByAttributes(model)
           = [c \in DOMAIN InAscendingOrder(FirstsIn(model)) |->
                InAscendingOrder(AlikeIn(model, InAscendingOrder(FirstsIn(model))[c]))]
BY DEF GroupByAttributes, AlikeIn, FirstsIn

\* a class is listed, classes have no parameter in common, and every parameter is in one
ClassesOf(model, classes, m, firsts) ==
  /\ classes = [c \in 1 .. m |-> classes[c]]
  /\ \A c \in 1 .. m : firsts[c] \in DOMAIN model.params /\ Lists(classes[c], AlikeIn(model, firsts[c]))
  /\ \A c, e \in 1 .. m : AlikeIn(model, firsts[c]) \cap AlikeIn(model, firsts[e]) # {} => c = e
  /\ \A n \in DOMAIN model.params : \E c \in 1 .. m : n \in AlikeIn(model, firsts[c])

LEMMA Classes ==
  ASSUME NEW model, NEW N \in Nat \ {0}, DOMAIN model.params = 1 .. N
  PROVE  \E m \in Nat \ {0}, firsts \in Seq(DOMAIN model.params) :
           ClassesOf(model, GroupByAttributes(model), m, firsts)
<1> DEFINE D == DOMAIN model.params
           firsts == InAscendingOrder(FirstsIn(model))
           m == Len(firsts)
           classes == GroupByAttributes(model)
<1>1. D \subseteq Int /\ IsFiniteSet(D) /\ D \subseteq Nat
  <2>1. \A x \in 1 .. N : x \in Nat
    OBVIOUS
  <2>2. IsFiniteSet(1 .. N)
    BY FS_Interval
  <2> QED
    BY <2>1, <2>2
<1>2. ASSUME NEW n \in D
      PROVE  /\ AlikeIn(model, n) \subseteq D /\ IsFiniteSet(AlikeIn(model, n)) /\ n \in AlikeIn(model, n)
             /\ \A k \in AlikeIn(model, n) : AlikeIn(model, k) = AlikeIn(model, n)
  <2>1. AlikeIn(model, n) \subseteq D
    BY DEF AlikeIn
  <2>2. IsFiniteSet(AlikeIn(model, n))
    BY <1>1, <2>1, FS_Subset
  <2> QED
    BY <2>1, <2>2 DEF AlikeIn
<1>3. FirstsIn(model) \subseteq D /\ IsFiniteSet(FirstsIn(model)) /\ FirstsIn(model) \subseteq Int
  <2>1. FirstsIn(model) \subseteq D
    BY DEF FirstsIn
  <2> QED
    BY <1>1, <2>1, FS_Subset
<1>4. Lists(firsts, FirstsIn(model))
  BY <1>3, AscendingAll
<1> HIDE DEF firsts
<1>5. /\ firsts \in Seq(D) /\ m \in Nat /\ DOMAIN firsts = 1 .. m
      /\ \A c \in 1 .. m : firsts[c] \in FirstsIn(model) /\ firsts[c] \in D
  <2>1. firsts \in Seq(FirstsIn(model))
    BY <1>4 DEF Lists
  <2> QED
    BY <1>3, <2>1, SeqMonotonic, LenProperties, ElementOfSeq
<1>6. classes = [c \in 1 .. m |-> InAscendingOrder(AlikeIn(model, firsts[c]))]
  BY <1>5, ClassesAre DEF firsts
<1> HIDE DEF m, classes
<1>7. classes = [c \in 1 .. m |-> classes[c]]
  BY <1>6
<1>8. ASSUME NEW c \in 1 .. m PROVE Lists(classes[c], AlikeIn(model, firsts[c]))
  <2>1. AlikeIn(model, firsts[c]) \subseteq Int /\ IsFiniteSet(AlikeIn(model, firsts[c]))
    BY <1>1, <1>2, <1>5
  <2>2. Lists(InAscendingOrder(AlikeIn(model, firsts[c])), AlikeIn(model, firsts[c]))
    BY <2>1, AscendingAll
  <2> QED
    BY <1>6, <2>2
<1>9. ASSUME NEW c \in 1 .. m, NEW e \in 1 .. m, AlikeIn(model, firsts[c]) \cap AlikeIn(model, firsts[e]) # {}
      PROVE  c = e
  <2>1. AlikeIn(model, firsts[c]) = AlikeIn(model, firsts[e])
    BY <1>2, <1>5, <1>9
  <2>2. firsts[c] \in AlikeIn(model, firsts[e]) /\ firsts[e] \in AlikeIn(model, firsts[c])
    BY <1>2, <1>5, <2>1
  <2>3. firsts[c] <= firsts[e] /\ firsts[e] <= firsts[c]
    BY <1>5, <2>2 DEF FirstsIn
  <2>4. firsts[c] \in Nat /\ firsts[e] \in Nat
    BY <1>1, <1>5
  <2>5. firsts[c] = firsts[e]
    BY <2>3, <2>4
  <2> QED
    BY <1>4, <1>5, <2>5 DEF Lists, NoneTwice
<1>10. ASSUME NEW n \in D PROVE \E c \in 1 .. m : n \in AlikeIn(model, firsts[c])
  <2>1. AlikeIn(model, n) \subseteq Nat /\ AlikeIn(model, n) # {}
    BY <1>1, <1>2
  <2>2. PICK k \in AlikeIn(model, n) : \A j \in AlikeIn(model, n) : k <= j
    BY <2>1, Least
  <2>3. k \in D /\ AlikeIn(model, k) = AlikeIn(model, n)
    BY <1>2
  <2>4. k \in FirstsIn(model)
    BY <2>2, <2>3 DEF FirstsIn
  <2>5. PICK c \in 1 .. m : firsts[c] = k
    BY <1>4, <1>5, <2>4 DEF Lists, Has
  <2> QED
    BY <1>2, <2>3, <2>5
<1>11. m # 0
  <2>1. 1 \in D
    OBVIOUS
  <2>2. PICK c \in 1 .. m : 1 \in AlikeIn(model, firsts[c])
    BY <1>10, <2>1
  <2> QED
    BY <1>5
<1>12. ClassesOf(model, classes, m, firsts)
  BY <1>5, <1>7, <1>8, <1>9, <1>10 DEF ClassesOf
<1> QED
  BY <1>5, <1>11, <1>12 DEF classes

----------------------------------------------------------------------------
(* The buckets of all classes.                                             *)

Flattens(f, s, n) == f = [i \in 1 .. n |-> IF i = 1 THEN s[i] ELSE f[i - 1] \o s[i]]

LEMMA FlattenByTable ==
  ASSUME NEW n \in Nat \ {0}, NEW s, Len(s) = n
  PROVE  FlattenSeq(s) = (CHOOSE f : Flattens(f, s, n))[n]
<1>1. Len(s) # 0
  OBVIOUS
<1> QED
  BY <1>1 DEF FlattenSeq, Flattens

LEMMA FlattenTable ==
  ASSUME NEW s PROVE \A n \in Nat : \E f : Flattens(f, s, n)
<1> DEFINE Good == {n \in Nat : \E f : Flattens(f, s, n)}
<1>1. 0 \in Good
  <2>1. 1 .. 0 = {}
    OBVIOUS
  <2>2. Flattens([i \in 1 .. 0 |-> 0], s, 0)
    BY <2>1 DEF Flattens
  <2> QED
    BY <2>2
<1>2. ASSUME NEW n \in Nat, n \in Good PROVE n + 1 \in Good
  <2>1. PICK g : Flattens(g, s, n)
    BY <1>2
  <2> DEFINE last == IF n + 1 = 1 THEN s[n + 1] ELSE g[n] \o s[n + 1]
             f == [i \in 1 .. n + 1 |-> IF i = n + 1 THEN last ELSE g[i]]
             next(i) == IF i = 1 THEN s[i] ELSE f[i - 1] \o s[i]
  <2>2. ASSUME NEW i \in 1 .. n + 1 PROVE f[i] = next(i)
    <3> HIDE DEF last
    <3>1. CASE i = n + 1
      <4>1. f[i] = last
        BY <3>1
      <4>2. i # 1 => i - 1 \in 1 .. n + 1 /\ i - 1 # n + 1 /\ i - 1 = n
        BY <3>1
      <4>3. i # 1 => f[i - 1] = g[n]
        BY <4>2
      <4> QED
        BY <3>1, <4>1, <4>3 DEF last
    <3>2. CASE i # n + 1
      <4>1. i \in 1 .. n /\ (i # 1 => i - 1 \in 1 .. n + 1 /\ i - 1 # n + 1)
        BY <3>2
      <4>2. f[i] = g[i] /\ (i # 1 => f[i - 1] = g[i - 1])
        BY <3>2, <4>1
      <4>3. g[i] = IF i = 1 THEN s[i] ELSE g[i - 1] \o s[i]
        BY <2>1, <4>1 DEF Flattens
      <4> QED
        BY <4>2, <4>3
    <3> QED
      BY <3>1, <3>2
  <2> HIDE DEF next
  <2>3. f = [i \in 1 .. n + 1 |-> next(i)]
    BY <2>2
  <2> HIDE DEF f
  <2>4. Flattens(f, s, n + 1)
    BY <2>3 DEF Flattens, next
  <2> QED
    BY <2>4
<1> HIDE DEF Good
<1>3. Nat \subseteq Good
  BY <1>1, <1>2, Induct
<1> QED
  BY <1>3 DEF Good

AllOf(S, m) == UNION {S[c] : c \in 1 .. m}

LEMMA SplitsAll ==
  ASSUME NEW model, NEW strategy, NEW m \in Nat \ {0}, NEW s, Len(s) = m,
         NEW S, \A c \in 1 .. m : Splits(model, strategy, s[c], S[c]),
         \A c, e \in 1 .. m : S[c] \cap S[e] # {} => c = e
  PROVE  Splits(model, strategy, FlattenSeq(s), AllOf(S, m))
<1> DEFINE f == CHOOSE g : Flattens(g, s, m)
           U(k) == UNION {S[c] : c \in 1 .. k}
<1>1. Flattens(f, s, m)
  BY FlattenTable
<1>2. FlattenSeq(s) = f[m]
  BY FlattenByTable
<1> HIDE DEF f
<1> DEFINE Good == {k \in Nat : k + 1 <= m => Splits(model, strategy, f[k + 1], U(k + 1))}
<1>3. 0 \in Good
  <2>1. 1 \in 1 .. m /\ 0 + 1 = 1 /\ 1 .. 1 = {1}
    OBVIOUS
  <2>2. f[1] = s[1]
    BY <1>1, <2>1 DEF Flattens
  <2>3. U(1) = S[1]
    BY <2>1
  <2> HIDE DEF U
  <2>4. Splits(model, strategy, f[1], U(1))
    BY <2>1, <2>2, <2>3
  <2> QED
    BY <2>1, <2>4
<1>4. ASSUME NEW k \in Nat, k \in Good PROVE k + 1 \in Good
  <2>1. CASE (k + 1) + 1 <= m
    <3>1. k + 1 <= m /\ k + 1 \in 1 .. m /\ k + 2 \in 1 .. m /\ k + 2 # 1 /\ (k + 2) - 1 = k + 1 /\ (k + 1) + 1 = k + 2
      BY <2>1
    <3>2. Splits(model, strategy, f[k + 1], U(k + 1))
      BY <1>4, <3>1
    <3>3. f[k + 2] = f[k + 1] \o s[k + 2]
      BY <1>1, <3>1 DEF Flattens
    <3>4. U(k + 2) = U(k + 1) \cup S[k + 2]
      <4>1. 1 .. k + 2 = (1 .. k + 1) \cup {k + 2}
        OBVIOUS
      <4> QED
        BY <4>1
    <3>5. U(k + 1) \cap S[k + 2] = {}
      <4>1. \A c \in 1 .. k + 1 : c \in 1 .. m /\ c # k + 2
        BY <3>1
      <4> QED
        BY <3>1, <4>1
    <3> HIDE DEF U
    <3>6. Splits(model, strategy, f[k + 1] \o s[k + 2], U(k + 1) \cup S[k + 2])
      BY <3>1, <3>2, <3>5, SplitsBoth
    <3>7. Splits(model, strategy, f[(k + 1) + 1], U((k + 1) + 1))
      BY <3>1, <3>3, <3>4, <3>6
    <3> QED
      BY <3>7
  <2>2. CASE ~((k + 1) + 1 <= m)
    BY <2>2
  <2> QED
    BY <2>1, <2>2
<1> HIDE DEF Good
<1>5. m - 1 \in Nat /\ (m - 1) + 1 = m
  OBVIOUS
<1>6. m - 1 \in Good
  BY <1>3, <1>4, <1>5, Induct
<1>7. Splits(model, strategy, f[m], U(m))
  BY <1>5, <1>6 DEF Good
<1> QED
  BY <1>2, <1>7 DEF AllOf

----------------------------------------------------------------------------
(* Step 3: the order in a bucket, and the factor of its rows.              *)

\* parameters of one or more rows of one or more elements
IsModel(model) ==
  /\ Len(model.params) \in Nat \ {0} /\ DOMAIN model.params = 1 .. Len(model.params)
  /\ \A n \in DOMAIN model.params : model.params[n].rows \in Nat /\ model.params[n].row \in Nat \ {0}

LEMMA SortedLists ==
  ASSUME NEW model, IsModel(model), NEW bucket, NEW T, T \subseteq DOMAIN model.params, Lists(bucket, T)
  PROVE  Lists(SortedByRow(model, bucket), T)
<1> DEFINE Row(i) == model.params[bucket[i]].row
           Ahead(i, j) == Row(i) > Row(j) \/ (Row(i) = Row(j) /\ i < j)
           Item == DOMAIN bucket
           before == {pair \in Item \X Item : Ahead(pair[1], pair[2])}
           order == InTheOrderOf(Item, before)
           sorted == SortedByRow(model, bucket)
           n == Len(bucket)
<1>1. /\ n \in Nat /\ Item = 1 .. n /\ IsFiniteSet(Item)
      /\ \A i \in Item : bucket[i] \in T /\ i \in Nat /\ Row(i) \in Nat
  <2>1. n \in Nat /\ Item = 1 .. n /\ \A i \in 1 .. n : bucket[i] \in T
    BY LenProperties, ElementOfSeq DEF Lists
  <2>2. \A i \in 1 .. n : i \in Nat /\ Row(i) \in Nat
    BY <2>1 DEF IsModel
  <2> HIDE DEF Item, n, Row
  <2>3. IsFiniteSet(1 .. n)
    BY <2>1, FS_Interval
  <2> QED
    BY <2>1, <2>2, <2>3
<1>2. \A i, j \in Item : Precedes(before, i, j) <=> Ahead(i, j)
  <2> HIDE DEF Ahead, Item
  <2> QED
    BY DEF Precedes
<1>3. sorted = [i \in DOMAIN order |-> bucket[order[i]]]
  BY DEF SortedByRow
<1> HIDE DEF before, sorted
<1>4. OrdersAll(before, Item)
  <2> HIDE DEF Row, Item
  <2>1. \A x \in Item : ~Ahead(x, x)
    BY <1>1
  <2>2. \A x, y \in Item : x # y => Ahead(x, y) \/ Ahead(y, x)
    BY <1>1
  <2>3. \A x, y, z \in Item : Ahead(x, y) /\ Ahead(y, z) => Ahead(x, z)
    BY <1>1
  <2> HIDE DEF Ahead
  <2> QED
    BY <1>2, <2>1, <2>2, <2>3 DEF OrdersAll
<1>5. Lists(order, Item)
  BY <1>1, <1>4, OrderedAll
<1> HIDE DEF order
<1> DEFINE m == Len(order)
<1>6. m \in Nat /\ DOMAIN order = 1 .. m /\ \A k \in 1 .. m : order[k] \in Item
  BY <1>5, LenProperties, ElementOfSeq DEF Lists
<1> HIDE DEF m, n, Item, Row
<1>7. sorted = [k \in 1 .. m |-> bucket[order[k]]]
  BY <1>3, <1>6
<1>8. sorted \in Seq(T)
  BY <1>1, <1>6, <1>7, IsASeq
<1>9. DOMAIN sorted = 1 .. m /\ \A k \in 1 .. m : sorted[k] = bucket[order[k]]
  BY <1>7
<1>10. /\ \A i, j \in Item : bucket[i] = bucket[j] => i = j
       /\ \A x : x \in T <=> \E i \in Item : bucket[i] = x
  BY DEF Lists, NoneTwice, Has, Item
<1>11. /\ \A i, j \in 1 .. m : order[i] = order[j] => i = j
       /\ \A x : x \in Item <=> \E i \in 1 .. m : order[i] = x
  BY <1>5, <1>6 DEF Lists, NoneTwice, Has
<1>12. NoneTwice(sorted)
  BY <1>6, <1>9, <1>10, <1>11 DEF NoneTwice
<1>13. \A x : x \in T <=> Has(sorted, x)
  BY <1>6, <1>9, <1>10, <1>11 DEF Has
<1> QED
  BY <1>8, <1>12, <1>13 DEF Lists, sorted

LEMMA Divides ==
  ASSUME NEW a \in Nat \ {0}, NEW b \in Nat \ {0}, NEW c \in Nat \ {0}, a % b = 0, b % c = 0
  PROVE  a % c = 0 /\ b <= a
<1>1. a = b * (a \div b) /\ a \div b \in Nat
  <2>1. a \div b \in Nat /\ a = b * (a \div b) + (a % b)
    BY Division
  <2> DEFINE p == b * (a \div b)
  <2>2. p \in Nat /\ a = p + 0
    BY <2>1
  <2> HIDE DEF p
  <2>3. a = p
    BY <2>2
  <2> QED
    BY <2>1, <2>3 DEF p
<1>2. b = c * (b \div c) /\ b \div c \in Nat
  <2>1. b \div c \in Nat /\ b = c * (b \div c) + (b % c)
    BY Division
  <2> DEFINE p == c * (b \div c)
  <2>2. p \in Nat /\ b = p + 0
    BY <2>1
  <2> HIDE DEF p
  <2>3. b = p
    BY <2>2
  <2> QED
    BY <2>1, <2>3 DEF p
<1> DEFINE p == a \div b
           q == b \div c
<1>3. p \in Nat /\ q \in Nat /\ a = b * p /\ b = c * q
  BY <1>1, <1>2
<1> HIDE DEF p, q
<1>4. a = (q * p) * c /\ q * p \in Int
  BY ONLY <1>3, c \in Nat
<1>5. \A k \in Int : (k * c) % c = 0
  OBVIOUS
<1>6. p # 0
  BY ONLY <1>3, a \in Nat \ {0}, b \in Nat
<1>7. b <= b * p
  <2>1. \A x, y \in Nat : y # 0 => x <= x * y
    OBVIOUS
  <2> QED
    BY ONLY <1>3, <1>6, <2>1, b \in Nat
<1> QED
  BY ONLY <1>3, <1>4, <1>5, <1>7

\* the rows of a parameter divide the factor, or it is shorter
FitsFactor(model, factor, n) ==
  factor % model.params[n].row = 0 \/ NumelOf(model.params[n]) < factor

JoinRow(model, factor, n) ==
  LET p == model.params[n]
  IN IF \/ p.row = factor
        \/ factor % p.row = 0 /\ NumelOf(p) % factor = 0
        \/ NumelOf(p) < factor
     THEN factor ELSE Lcm(factor, p.row)

LEMMA RowJoined ==
  ASSUME NEW model, IsModel(model), NEW factor \in Nat \ {0}, NEW n \in DOMAIN model.params
  PROVE  /\ JoinRow(model, factor, n) \in Nat \ {0}
         /\ FitsFactor(model, JoinRow(model, factor, n), n)
         /\ \A k \in DOMAIN model.params :
              FitsFactor(model, factor, k) => FitsFactor(model, JoinRow(model, factor, n), k)
<1> DEFINE row == model.params[n].row
           numel == NumelOf(model.params[n])
           joined == JoinRow(model, factor, n)
           Kept == row = factor \/ (factor % row = 0 /\ numel % factor = 0) \/ numel < factor
<1>1. row \in Nat \ {0}
  BY DEF IsModel
<1>2. joined = IF Kept THEN factor ELSE Lcm(factor, row)
  BY DEF JoinRow
<1> HIDE DEF joined
<1>3. CASE Kept
  <2>1. joined = factor
    BY <1>2, <1>3
  <2>2. factor % factor = 0
    OBVIOUS
  <2>3. FitsFactor(model, factor, n)
    BY <1>3, <2>2 DEF FitsFactor
  <2> HIDE DEF row, numel
  <2> QED
    BY <2>1, <2>3 DEF joined
<1>4. CASE ~Kept
  <2>1. joined = Lcm(factor, row)
    BY <1>2, <1>4
  <2> HIDE DEF numel, row, Kept
  <2>2. joined \in Nat \ {0} /\ joined % factor = 0 /\ joined % row = 0
    <3>1. factor \in Positive /\ row \in Positive
      BY <1>1 DEF Positive
    <3>2. Lcm(factor, row) \in Positive /\ Lcm(factor, row) % factor = 0 /\ Lcm(factor, row) % row = 0
      BY ONLY <3>1, LcmIs
    <3> QED
      BY ONLY <2>1, <3>2 DEF Positive
  <2>3. ASSUME NEW k \in DOMAIN model.params, FitsFactor(model, factor, k)
        PROVE  FitsFactor(model, joined, k)
    <3> DEFINE r == model.params[k].row
               s == NumelOf(model.params[k])
    <3>1. r \in Nat \ {0} /\ model.params[k].rows \in Nat
      BY DEF IsModel
    <3>2. s \in Nat
      BY <3>1 DEF NumelOf
    <3>3. factor % r = 0 \/ s < factor
      BY <2>3 DEF FitsFactor
    <3>4. joined % r = 0 \/ s < joined
      <4> HIDE DEF r, s
      <4>1. CASE factor % r = 0
        BY ONLY <2>2, <3>1, <4>1, factor \in Nat \ {0}, Divides
      <4>2. CASE s < factor
        <5>1. factor % 1 = 0
          OBVIOUS
        <5>2. factor <= joined
          BY ONLY <2>2, <5>1, factor \in Nat \ {0}, 1 \in Nat \ {0}, Divides
        <5> QED
          BY ONLY <2>2, <3>2, <4>2, <5>2, factor \in Nat
      <4> QED
        BY ONLY <3>3, <4>1, <4>2
    <3> QED
      BY ONLY <3>4 DEF FitsFactor, r, s
  <2>4. FitsFactor(model, joined, n)
    BY ONLY <2>2 DEF FitsFactor, row
  <2> QED
    BY ONLY <2>2, <2>3, <2>4 DEF joined
<1> QED
  BY <1>3, <1>4

\* the factors of the first parameters, taken from the greatest set down
FactorTable(model, bucket, k, g) ==
  g = [s \in SUBSET (1 .. k) |->
         IF s = {} THEN model.params[bucket[1]].row
         ELSE JoinRow(model, g[s \ {Max(s)}], bucket[Max(s)])]

LEMMA FactorChosen ==
  ASSUME NEW model, NEW bucket, NEW n \in Nat, DOMAIN bucket = 1 .. n
  PROVE  ChunkSizeFactor(model, bucket) = (CHOOSE g : FactorTable(model, bucket, n, g))[1 .. n]
<1> DEFINE base == model.params[bucket[1]].row
           f == MapThenFoldSet(LAMBDA x, y : JoinRow(model, y, x), base, LAMBDA i : bucket[i],
                               LAMBDA S : Max(S), DOMAIN bucket)
<1>1. FoldLeft(LAMBDA factor, x : JoinRow(model, factor, x), base, bucket) = f
  BY DEF FoldLeft
<1>2. f = (CHOOSE g : g = [s \in SUBSET DOMAIN bucket |->
             IF s = {} THEN base ELSE JoinRow(model, g[s \ {Max(s)}], bucket[Max(s)])])[DOMAIN bucket]
  BY DEF MapThenFoldSet
<1>3. f = (CHOOSE g : FactorTable(model, bucket, n, g))[1 .. n]
  BY <1>2 DEF FactorTable
<1>4. ChunkSizeFactor(model, bucket)
        = FoldLeft(LAMBDA factor, x : JoinRow(model, factor, x), base, bucket)
  BY DEF ChunkSizeFactor, JoinRow
<1> HIDE DEF f
<1> QED
  BY <1>1, <1>3, <1>4

LEMMA FactorsExist ==
  ASSUME NEW model, NEW bucket
  PROVE  \A n \in Nat : \E g : FactorTable(model, bucket, n, g)
<1> DEFINE base == model.params[bucket[1]].row
           Good == {n \in Nat : \E g : FactorTable(model, bucket, n, g)}
<1>1. 0 \in Good
  <2>1. FactorTable(model, bucket, 0, [s \in SUBSET (1 .. 0) |-> base])
    <3>1. 1 .. 0 = {}
      OBVIOUS
    <3> QED
      BY <3>1 DEF FactorTable
  <2> QED
    BY <2>1
<1>2. ASSUME NEW n \in Nat, n \in Good PROVE n + 1 \in Good
  <2>1. PICK g : FactorTable(model, bucket, n, g)
    BY <1>2
  <2> DEFINE h == [s \in SUBSET (1 .. n + 1) |->
                     IF n + 1 \in s THEN JoinRow(model, g[s \ {n + 1}], bucket[n + 1]) ELSE g[s]]
             rest(s) == IF s = {} THEN base ELSE JoinRow(model, h[s \ {Max(s)}], bucket[Max(s)])
  <2>2. ASSUME NEW s \in SUBSET (1 .. n + 1)
        PROVE  h[s] = rest(s)
    <3> HIDE DEF base
    <3>1. CASE n + 1 \in s
      <4>1. Max(s) = n + 1
        BY <3>1, MaxOf
      <4>2. s \ {n + 1} \in SUBSET (1 .. n + 1) /\ n + 1 \notin s \ {n + 1}
        OBVIOUS
      <4> QED
        BY <3>1, <4>1, <4>2
    <3>2. CASE n + 1 \notin s /\ s # {}
      <4>1. s \in SUBSET (1 .. n)
        <5>1. \A i \in 1 .. n + 1 : i # n + 1 => i \in 1 .. n
          OBVIOUS
        <5> QED
          BY <3>2, <5>1
      <4>2. Max(s) \in s
        BY <3>2, <4>1, MaxIn
      <4>3. g[s] = JoinRow(model, g[s \ {Max(s)}], bucket[Max(s)])
        BY <2>1, <3>2, <4>1, <4>2 DEF FactorTable
      <4>4. h[s \ {Max(s)}] = g[s \ {Max(s)}] /\ h[s] = g[s]
        BY <3>2, <4>1, <4>2
      <4> QED
        BY <3>2, <4>3, <4>4
    <3>3. CASE s = {}
      BY <2>1, <3>3 DEF FactorTable, base
    <3> QED
      BY <3>1, <3>2, <3>3
  <2> HIDE DEF rest
  <2>3. h = [s \in SUBSET (1 .. n + 1) |-> rest(s)]
    BY <2>2
  <2> HIDE DEF h
  <2>4. FactorTable(model, bucket, n + 1, h)
    BY <2>3 DEF FactorTable, rest
  <2> QED
    BY <2>4
<1> HIDE DEF Good
<1>3. Nat \subseteq Good
  BY <1>1, <1>2, Induct
<1> QED
  BY <1>3 DEF Good

\* the factor is of the rows of every parameter of the bucket that is not shorter
LEMMA FactorFits ==
  ASSUME NEW model, IsModel(model), NEW bucket, bucket \in Seq(DOMAIN model.params) \ {<<>>}
  PROVE  \A n : Has(bucket, n) => FitsFactor(model, ChunkSizeFactor(model, bucket), n)
<1> DEFINE m == Len(bucket)
           g == CHOOSE h : FactorTable(model, bucket, m, h)
           D == DOMAIN model.params
<1>1. m \in Nat \ {0} /\ DOMAIN bucket = 1 .. m /\ \A i \in 1 .. m : bucket[i] \in D
  BY LenProperties, ElementOfSeq, EmptySeq
<1>2. FactorTable(model, bucket, m, g)
  BY <1>1, FactorsExist
<1>3. ChunkSizeFactor(model, bucket) = g[1 .. m]
  BY <1>1, FactorChosen
<1> HIDE DEF m, g
<1> DEFINE Held(k) == /\ g[1 .. k] \in Nat \ {0}
                      /\ \A i \in 1 .. k : FitsFactor(model, g[1 .. k], bucket[i])
           Good == {k \in Nat : k <= m => Held(k)}
<1>4. 0 \in Good
  <2>1. 1 .. 0 = {} /\ {} \in SUBSET (1 .. m) /\ 1 \in 1 .. m
    BY <1>1
  <2>2. g[1 .. 0] = model.params[bucket[1]].row
    BY <1>2, <2>1 DEF FactorTable
  <2>3. model.params[bucket[1]].row \in Nat \ {0}
    BY <1>1, <2>1 DEF IsModel
  <2> QED
    BY <2>1, <2>2, <2>3
<1>5. ASSUME NEW k \in Nat, k \in Good PROVE k + 1 \in Good
  <2>1. CASE k + 1 <= m
    <3>1. 1 .. k + 1 \in SUBSET (1 .. m) /\ k + 1 \in 1 .. k + 1 /\ k + 1 \in 1 .. m /\ k <= m
      BY <1>1, <2>1
    <3>2. Max(1 .. k + 1) = k + 1
      BY <3>1, MaxOf
    <3>3. (1 .. k + 1) \ {k + 1} = 1 .. k /\ 1 .. k + 1 # {}
      BY ONLY k \in Nat
    <3>4. g[1 .. k + 1] = JoinRow(model, g[1 .. k], bucket[k + 1])
      BY <1>2, <3>1, <3>2, <3>3 DEF FactorTable
    <3>5. Held(k)
      BY <1>5, <3>1
    <3>6. bucket[k + 1] \in D /\ \A i \in 1 .. k : bucket[i] \in D
      BY <1>1, <3>1
    <3> DEFINE old == g[1 .. k]
               new == g[1 .. k + 1]
    <3>7. old \in Nat \ {0} /\ \A i \in 1 .. k : FitsFactor(model, old, bucket[i])
      BY <3>5
    <3>8. new = JoinRow(model, old, bucket[k + 1])
      BY <3>4
    <3> HIDE DEF old, new, Held
    <3>9. /\ new \in Nat \ {0} /\ FitsFactor(model, new, bucket[k + 1])
          /\ \A n \in D : FitsFactor(model, old, n) => FitsFactor(model, new, n)
      BY <3>6, <3>7, <3>8, RowJoined
    <3>10. \A i \in 1 .. k + 1 : FitsFactor(model, new, bucket[i])
      <4>1. \A i \in 1 .. k + 1 : i \in 1 .. k \/ i = k + 1
        OBVIOUS
      <4> QED
        BY <3>6, <3>7, <3>9, <4>1
    <3>11. Held(k + 1)
      BY <3>9, <3>10 DEF Held, new
    <3> QED
      BY <3>11
  <2>2. CASE ~(k + 1 <= m)
    BY <2>2
  <2> QED
    BY <2>1, <2>2
<1> HIDE DEF Good
<1>6. m \in Good
  BY <1>1, <1>4, <1>5, Induct
<1>7. \A i \in 1 .. m : FitsFactor(model, g[1 .. m], bucket[i])
  BY <1>1, <1>6 DEF Good
<1> QED
  BY <1>1, <1>3, <1>7 DEF Has

----------------------------------------------------------------------------
(* The parameter groups of a model: each parameter is in one of them, with *)
(* parameters of the same attributes.                                      *)

FormedOf(model, strategy, gs) ==
  /\ Len(gs) \in Nat \ {0} /\ DOMAIN gs = 1 .. Len(gs)
  /\ \A i \in 1 .. Len(gs) :
       /\ gs[i].params \in Seq(DOMAIN model.params) \ {<<>>} /\ NoneTwice(gs[i].params)
       /\ \E n : Has(gs[i].params, n)
       /\ \A n : Has(gs[i].params, n) =>
            /\ gs[i].attrs = ParamAttrs(model, n)
            /\ FitsFactor(model, gs[i].chunk_size_factor, n)
       /\ \A n, k : Has(gs[i].params, n) /\ Has(gs[i].params, k) /\ RequiresNewBucket(model, strategy, n)
            => n = k
  /\ \A i, j \in 1 .. Len(gs) : \A n : Has(gs[i].params, n) /\ Has(gs[j].params, n) => i = j
  /\ \A n \in DOMAIN model.params : \E i \in 1 .. Len(gs) : Has(gs[i].params, n)

LEMMA GroupsFormed ==
  ASSUME NEW model, IsModel(model), NEW strategy
  PROVE  FormedOf(model, strategy, GetParameterGroups(model, strategy))
<1> DEFINE D == DOMAIN model.params
           classes == GroupByAttributes(model)
           parts == [c \in DOMAIN classes |-> BucketsOf(model, strategy, classes[c])]
           bs == FlattenSeq(parts)
           gs == GetParameterGroups(model, strategy)
<1>1. PICK m \in Nat \ {0}, firsts \in Seq(D) : ClassesOf(model, classes, m, firsts)
  <2>1. Len(model.params) \in Nat \ {0} /\ D = 1 .. Len(model.params)
    BY DEF IsModel
  <2> QED
    BY <2>1, Classes
<1> DEFINE S == [c \in 1 .. m |-> AlikeIn(model, firsts[c])]
           Made(b) == LET params == SortedByRow(model, bs[b])
                       IN [params |-> params, attrs |-> ParamAttrs(model, bs[b][1]),
                           chunk_size_factor |-> ChunkSizeFactor(model, params)]
<1>2. gs = [b \in DOMAIN bs |-> Made(b)]
  BY DEF GetParameterGroups
<1> HIDE DEF classes, gs
<1>3. DOMAIN classes = 1 .. m /\ \A c \in 1 .. m : Lists(classes[c], S[c]) /\ S[c] \subseteq D
  BY <1>1 DEF ClassesOf, AlikeIn
<1>4. \A c \in 1 .. m : \A x, y \in S[c] : ParamAttrs(model, x) = ParamAttrs(model, y)
  BY DEF AlikeIn
<1>5. AllOf(S, m) = D
  <2>1. \A n \in D : \E c \in 1 .. m : n \in S[c]
    BY <1>1 DEF ClassesOf
  <2> HIDE DEF S
  <2> QED
    BY <1>3, <2>1 DEF AllOf
<1>6. \A c, e \in 1 .. m : S[c] \cap S[e] # {} => c = e
  BY <1>1 DEF ClassesOf
<1> HIDE DEF S
<1>7. Len(parts) = m /\ \A c \in 1 .. m : Splits(model, strategy, parts[c], S[c])
  <2>1. parts = [c \in 1 .. m |-> BucketsOf(model, strategy, classes[c])]
    BY <1>3
  <2>2. Len(parts) = m
    BY <2>1
  <2>3. ASSUME NEW c \in 1 .. m PROVE Splits(model, strategy, parts[c], S[c])
    <3>1. parts[c] = BucketsOf(model, strategy, classes[c])
      BY <2>1
    <3>2. Splits(model, strategy, BucketsOf(model, strategy, classes[c]), S[c])
      BY <1>3, <1>4, BucketsSplit
    <3> QED
      BY <3>1, <3>2
  <2> QED
    BY <2>2, <2>3
<1> HIDE DEF parts
<1>8. Splits(model, strategy, bs, D)
  <2>1. Splits(model, strategy, FlattenSeq(parts), AllOf(S, m))
    BY <1>6, <1>7, SplitsAll
  <2> QED
    BY <1>5, <2>1
<1> HIDE DEF bs
<1> DEFINE n == Len(bs)
<1>9. /\ bs \in Seq(Seq(D)) /\ n \in Nat /\ DOMAIN bs = 1 .. n
      /\ \A b \in 1 .. n : IsBucket(model, strategy, bs[b])
      /\ \A b, c \in 1 .. n : \A x : Has(bs[b], x) /\ Has(bs[c], x) => b = c
      /\ \A x : x \in D <=> \E b \in 1 .. n : Has(bs[b], x)
  <2>1. bs \in Seq(Seq(D))
    BY <1>8 DEF Splits
  <2>2. n \in Nat /\ DOMAIN bs = 1 .. n
    BY <2>1, LenProperties
  <2> QED
    BY <1>8, <2>1, <2>2 DEF Splits
<1>10. Len(gs) = n /\ DOMAIN gs = 1 .. n /\ \A b \in 1 .. n : gs[b] = Made(b)
  <2>1. gs = [b \in 1 .. n |-> Made(b)]
    BY <1>2, <1>9
  <2> HIDE DEF Made, n
  <2> QED
    BY <1>9, <2>1
<1> HIDE DEF n
<1>11. ASSUME NEW b \in 1 .. n
       PROVE  /\ bs[b] \in Seq(D) \ {<<>>} /\ Has(bs[b], bs[b][1])
              /\ gs[b].params \in Seq(D) \ {<<>>} /\ NoneTwice(gs[b].params)
              /\ \A x : Has(gs[b].params, x) <=> Has(bs[b], x)
              /\ gs[b].attrs = ParamAttrs(model, bs[b][1])
              /\ gs[b].chunk_size_factor = ChunkSizeFactor(model, gs[b].params)
  <2> DEFINE bucket == bs[b]
             sorted == SortedByRow(model, bucket)
             T == {x \in D : Has(bucket, x)}
  <2>1. IsBucket(model, strategy, bucket)
    BY <1>9
  <2> HIDE DEF bucket
  <2>2. bucket \in Seq(D) /\ bucket # <<>> /\ NoneTwice(bucket)
    BY <2>1 DEF IsBucket
  <2>3. Len(bucket) \in Nat \ {0} /\ DOMAIN bucket = 1 .. Len(bucket) /\ \A i \in 1 .. Len(bucket) : bucket[i] \in D
    BY <2>2, LenProperties, ElementOfSeq, EmptySeq
  <2>4. Has(bucket, bucket[1])
    BY <2>3 DEF Has
  <2>5. \A x : x \in T <=> Has(bucket, x)
    BY <2>3 DEF Has
  <2>6. bucket \in Seq(T)
    <3>1. bucket = [i \in 1 .. Len(bucket) |-> bucket[i]]
      BY <2>2, LenProperties
    <3>2. \A i \in 1 .. Len(bucket) : bucket[i] \in T
      BY <2>3, <2>5 DEF Has
    <3> HIDE DEF T
    <3> QED
      BY <2>3, <3>1, <3>2, IsASeq
  <2>7. T \subseteq D
    OBVIOUS
  <2> HIDE DEF T
  <2>8. Lists(bucket, T)
    BY <2>2, <2>5, <2>6 DEF Lists
  <2>9. Lists(sorted, T)
    BY <2>7, <2>8, SortedLists
  <2> HIDE DEF sorted
  <2>10. sorted \in Seq(D) /\ NoneTwice(sorted) /\ \A x : Has(sorted, x) <=> Has(bucket, x)
    <3>1. sorted \in Seq(T) /\ NoneTwice(sorted) /\ \A x : x \in T <=> Has(sorted, x)
      BY <2>9 DEF Lists
    <3> QED
      BY <2>5, <2>7, <3>1, SeqMonotonic
  <2>11. sorted # <<>>
    <3>1. Has(sorted, bucket[1])
      BY <2>4, <2>10
    <3>2. ~Has(<<>>, bucket[1])
      BY DEF Has
    <3> QED
      BY <3>1, <3>2
  <2>12. gs[b] = [params |-> sorted, attrs |-> ParamAttrs(model, bucket[1]),
                 chunk_size_factor |-> ChunkSizeFactor(model, sorted)]
    BY <1>10 DEF sorted, bucket
  <2>13. gs[b].params = sorted /\ gs[b].attrs = ParamAttrs(model, bucket[1])
        /\ gs[b].chunk_size_factor = ChunkSizeFactor(model, sorted)
    BY <2>12
  <2> QED
    BY <2>2, <2>4, <2>10, <2>11, <2>13 DEF bucket
<1>12. n # 0
  <2>1. 1 \in D
    BY DEF IsModel
  <2> QED
    BY <1>9, <2>1
<1>13. ASSUME NEW b \in 1 .. n, NEW x, Has(gs[b].params, x)
       PROVE  gs[b].attrs = ParamAttrs(model, x) /\ FitsFactor(model, gs[b].chunk_size_factor, x)
  <2>1. IsBucket(model, strategy, bs[b]) /\ Has(bs[b], x) /\ Has(bs[b], bs[b][1])
    BY <1>9, <1>11, <1>13
  <2>2. ParamAttrs(model, x) = ParamAttrs(model, bs[b][1])
    BY <2>1 DEF IsBucket
  <2>3. FitsFactor(model, ChunkSizeFactor(model, gs[b].params), x)
    BY <1>11, <1>13, FactorFits
  <2> QED
    BY <1>11, <2>2, <2>3
<1>14. ASSUME NEW b \in 1 .. n, NEW x, NEW y, Has(gs[b].params, x), Has(gs[b].params, y),
              RequiresNewBucket(model, strategy, x)
       PROVE  x = y
  <2>1. IsBucket(model, strategy, bs[b]) /\ Has(bs[b], x) /\ Has(bs[b], y)
    BY <1>9, <1>11, <1>14
  <2> QED
    BY <1>14, <2>1 DEF IsBucket
<1>15. \A b, c \in 1 .. n : \A x : Has(gs[b].params, x) /\ Has(gs[c].params, x) => b = c
  BY <1>9, <1>11
<1>16. \A x \in D : \E b \in 1 .. n : Has(gs[b].params, x)
  BY <1>9, <1>11
<1>17. \A b \in 1 .. n : \E x : Has(gs[b].params, x)
  BY <1>11
<1>18. FormedOf(model, strategy, gs)
  BY ONLY <1>9, <1>10, <1>11, <1>12, <1>13, <1>14, <1>15, <1>16, <1>17 DEF FormedOf
<1> QED
  BY <1>18 DEF gs

----------------------------------------------------------------------------
(* The groups of a job's model.                                            *)

LEMMA JobsFormed ==
  ASSUME NEW j \in Jobs PROVE FormedOf(j.model, j.strategy, GetParameterGroups(j.model, j.strategy))
<1>1. IsModel(j.model)
  BY ModelsAssumption DEF IsModel
<1> QED
  BY <1>1, GroupsFormed

\* There are groups, each of parameters that have attributes in common.
GroupsOfParams ==
  \A j \in Jobs :
    LET gs == GetParameterGroups(j.model, j.strategy)
    IN /\ Len(gs) \in Nat \ {0} /\ DOMAIN gs = 1 .. Len(gs)
       /\ \A i \in 1 .. Len(gs) :
            /\ gs[i].params \in Seq(DOMAIN j.model.params) \ {<<>>}
            /\ \E n \in DOMAIN j.model.params : gs[i].attrs = ParamAttrs(j.model, n)

LEMMA ParamsGrouped == GroupsOfParams
<1>1. ASSUME NEW j \in Jobs, NEW gs, gs = GetParameterGroups(j.model, j.strategy)
      PROVE  /\ Len(gs) \in Nat \ {0} /\ DOMAIN gs = 1 .. Len(gs)
             /\ \A i \in 1 .. Len(gs) :
                  /\ gs[i].params \in Seq(DOMAIN j.model.params) \ {<<>>}
                  /\ \E n \in DOMAIN j.model.params : gs[i].attrs = ParamAttrs(j.model, n)
  <2>1. FormedOf(j.model, j.strategy, gs)
    BY <1>1, JobsFormed
  <2>2. Len(gs) \in Nat \ {0} /\ DOMAIN gs = 1 .. Len(gs)
    BY <2>1 DEF FormedOf
  <2>3. ASSUME NEW i \in 1 .. Len(gs)
        PROVE  /\ gs[i].params \in Seq(DOMAIN j.model.params) \ {<<>>}
               /\ \E n \in DOMAIN j.model.params : gs[i].attrs = ParamAttrs(j.model, n)
    <3>1. gs[i].params \in Seq(DOMAIN j.model.params) \ {<<>>}
      BY <2>1 DEF FormedOf
    <3>2. PICK n : Has(gs[i].params, n) /\ gs[i].attrs = ParamAttrs(j.model, n)
      BY <2>1 DEF FormedOf
    <3>3. n \in DOMAIN j.model.params
      BY <3>1, <3>2, LenProperties, ElementOfSeq DEF Has
    <3> QED
      BY <3>1, <3>2, <3>3
  <2> QED
    BY <2>2, <2>3
<1> QED
  BY <1>1 DEF GroupsOfParams

----------------------------------------------------------------------------
(* The plan of a parameter group, in a job.                                *)
GroupOver(j, g) ==
  IF j.mesh.hybrid /\ j.outer_strategy # "no_shard" THEN GetDpGroup(j.mesh, 0, g.attrs.expert)
  ELSE GetFsdpGroup(j.mesh, 0, g.attrs.expert)
ElementsFor(j, g) ==
  [i \in DOMAIN g.params |->
     LET p == j.model.params[g.params[i]] IN [shape |-> <<p.rows, p.row>>, block |-> 1]]
PlanFor(j, g) ==
  PlanDBufferLayout(ElementsFor(j, g), Len(GroupOver(j, g)), 1, "default",
                    j.strategy # "no_shard")

\* There are groups (GroupsOfParams), and the planner finds a size for the shards
\* of each.
GroupsArePlanned ==
  \A j \in Jobs :
    LET gs == GetParameterGroups(j.model, j.strategy)
    IN /\ Len(gs) \in Nat \ {0} /\ DOMAIN gs = 1 .. Len(gs)
       /\ \A i \in 1 .. Len(gs) :
            /\ gs[i].attrs.dtype \in DTypes
            /\ gs[i].attrs.requires_grad \in BOOLEAN /\ gs[i].attrs.expert \in BOOLEAN
            /\ PlanFor(j, gs[i]).shard_size \in Nat
            /\ j.strategy # "no_shard" => PlanFor(j, gs[i]).shard_size # 0

----------------------------------------------------------------------------
(* Sizes of buffers.                                                       *)

LEMMA GroupLength ==
  ASSUME NEW mesh, mesh.outer \in Nat, mesh.shard \in Nat, NEW r, NEW expert
  PROVE  /\ Len(GetFsdpGroup(mesh, r, expert)) \in Nat
         /\ Len(GetDpGroup(mesh, r, expert)) \in Nat
<1>1. IsFiniteSet(Ranks(mesh))
  <2>1. mesh.outer * mesh.shard - 1 \in Int
    OBVIOUS
  <2> QED
    BY <2>1, FS_Interval DEF Ranks
<1>2. ASSUME NEW S, S \subseteq Ranks(mesh) PROVE Len(InOrder(S)) \in Nat
  <2>1. Cardinality(S) \in Nat
    BY <1>1, <1>2, FS_Subset, FS_CardinalityType
  <2> DEFINE f(k) == CHOOSE q \in S : Cardinality({p \in S : p < q}) = k - 1
             n == Cardinality(S)
  <2>2. InOrder(S) = [k \in 1 .. n |-> f(k)]
    BY DEF InOrder
  <2> HIDE DEF f, n
  <2>3. [k \in 1 .. n |-> f(k)] \in Seq({f(k) : k \in 1 .. n})
    BY <2>1 DEF n
  <2> QED
    BY <2>2, <2>3, LenProperties
<1>3. Peers(mesh, r, expert) \subseteq Ranks(mesh)
  BY DEF Peers
<1>4. Len(GetFsdpGroup(mesh, r, expert)) \in Nat
  BY <1>2, <1>3 DEF GetFsdpGroup
<1> QED
  BY <1>2, <1>3, <1>4 DEF GetDpGroup

\* the group of rank 0 has rank 0
LEMMA GroupNotEmpty ==
  ASSUME NEW mesh, mesh.outer \in Nat \ {0}, mesh.shard \in Nat \ {0}, NEW expert
  PROVE  /\ Len(GetFsdpGroup(mesh, 0, expert)) \in Nat \ {0}
         /\ Len(GetDpGroup(mesh, 0, expert)) \in Nat \ {0}
<1>1. IsFiniteSet(Ranks(mesh)) /\ 0 \in Ranks(mesh)
  <2> DEFINE n == mesh.outer * mesh.shard
  <2>1. \A x, y \in Nat : x # 0 /\ y # 0 => x * y # 0 /\ x * y \in Nat
    OBVIOUS
  <2>2. n \in Nat /\ n # 0
    BY <2>1
  <2>3. Ranks(mesh) = 0 .. n - 1
    BY DEF Ranks
  <2> HIDE DEF n
  <2>4. n - 1 \in Nat /\ 0 \in 0 .. n - 1
    BY <2>2
  <2> QED
    BY <2>3, <2>4, FS_Interval
<1>2. ASSUME NEW S, S \subseteq Ranks(mesh), 0 \in S PROVE Len(InOrder(S)) \in Nat \ {0}
  <2> DEFINE f(k) == CHOOSE q \in S : Cardinality({p \in S : p < q}) = k - 1
             n == Cardinality(S)
  <2>1. n \in Nat /\ n # 0
    <3>1. IsFiniteSet(S) /\ S # {}
      BY <1>1, <1>2, FS_Subset
    <3> QED
      BY <3>1, FS_CardinalityType, FS_EmptySet
  <2>2. InOrder(S) = [k \in 1 .. n |-> f(k)]
    BY DEF InOrder
  <2> HIDE DEF f, n
  <2>3. [k \in 1 .. n |-> f(k)] \in Seq({f(k) : k \in 1 .. n})
    BY <2>1
  <2>4. Len([k \in 1 .. n |-> f(k)]) = n
    BY <2>1, <2>3, LenProperties
  <2> QED
    BY <2>1, <2>2, <2>4
<1>3. Peers(mesh, 0, expert) \subseteq Ranks(mesh) /\ 0 \in Peers(mesh, 0, expert)
  BY <1>1 DEF Peers
<1>4. Len(GetFsdpGroup(mesh, 0, expert)) \in Nat \ {0}
  <2> DEFINE S == {q \in Peers(mesh, 0, expert) : OuterRank(mesh, q) = OuterRank(mesh, 0)}
  <2>1. S \subseteq Ranks(mesh) /\ 0 \in S
    BY <1>3
  <2> HIDE DEF S
  <2>2. Len(InOrder(S)) \in Nat \ {0}
    BY <1>2, <2>1
  <2> QED
    BY <2>2 DEF GetFsdpGroup, S
<1> QED
  BY <1>2, <1>3, <1>4 DEF GetDpGroup

\* The planner's search ends for every group of parameters.
LEMMA GroupsPlanned ==
  ASSUME GroupsOfParams PROVE GroupsArePlanned
<1>1. ASSUME NEW j \in Jobs, NEW g, g.params \in Seq(DOMAIN j.model.params) \ {<<>>}
      PROVE  /\ PlanFor(j, g).shard_size \in Nat
             /\ j.strategy # "no_shard" => PlanFor(j, g).shard_size # 0
  <2> DEFINE elements == ElementsFor(j, g)
             ranks == Len(GroupOver(j, g))
             padded == j.strategy # "no_shard"
             p == PlanDBufferLayout(elements, ranks, 1, "default", padded)
             E == [shape : Seq(Nat), block : Nat]
             n == Len(g.params)
             Cell(i) == [shape |-> <<j.model.params[g.params[i]].rows, j.model.params[g.params[i]].row>>, block |-> 1]
  <2>1. /\ n \in Nat \ {0} /\ DOMAIN g.params = 1 .. n
        /\ \A i \in 1 .. n : g.params[i] \in DOMAIN j.model.params
    BY <1>1, LenProperties, ElementOfSeq, EmptySeq
  <2>2. ASSUME NEW i \in 1 .. n
        PROVE  Cell(i) \in E /\ Cell(i).block = 1 /\ Size(Cell(i)) \in Nat
    <3> DEFINE rows == j.model.params[g.params[i]].rows
               row == j.model.params[g.params[i]].row
    <3>1. rows \in Nat /\ row \in Nat
      BY <2>1, ModelsAssumption
    <3> HIDE DEF rows, row
    <3>2. <<rows, row>> \in Seq(Nat)
      BY <3>1
    <3>3. Numel(<<rows, row>>) \in Nat
      BY <3>2, NumelType
    <3> DEFINE cell == [shape |-> <<rows, row>>, block |-> 1]
    <3>4. cell \in E /\ cell.block = 1 /\ cell.shape = <<rows, row>>
      BY <3>2
    <3> HIDE DEF cell
    <3>5. Size(cell) \in Nat
      BY <3>3, <3>4 DEF Size
    <3> QED
      BY <3>4, <3>5 DEF cell, rows, row
  <2>3. elements = [i \in 1 .. n |-> Cell(i)]
    BY <2>1 DEF ElementsFor
  <2> HIDE DEF Cell, E, elements, n
  <2>4. elements \in Seq(E) /\ DOMAIN elements = 1 .. n /\ \A i \in 1 .. n : elements[i] = Cell(i)
    BY <2>1, <2>2, <2>3, IsASeq
  <2>5. ItemsAreValid(elements)
    <3>1. \A x \in Nat : x % 1 = 0
      OBVIOUS
    <3>2. \A i \in 1 .. n : elements[i].block = 1 /\ Size(elements[i]) \in Nat
      BY <2>2, <2>4
    <3> QED
      BY <2>4, <3>1, <3>2 DEF ItemsAreValid
  <2>6. NoLargeBlocks(elements, ranks, padded)
    BY <2>2, <2>4 DEF NoLargeBlocks
  <2>7. ranks \in Nat \ {0}
    BY GroupNotEmpty, JobsAssumption DEF GroupOver
  <2> HIDE DEF ranks, padded
  <2>8. padded \in BOOLEAN
    BY DEF padded
  <2>9. elements \in Seq([shape : Seq(Nat), block : Nat])
    BY <2>4 DEF E
  <2>10. InBucket(elements, p, ranks)
    BY <2>5, <2>6, <2>7, <2>8, <2>9, PlanIsSound
  <2>11. p.shard_size \in Nat
    BY <2>10 DEF InBucket
  <2>12. ASSUME padded PROVE p.shard_size # 0
    <3>1. Sized(elements, Len(elements)) /\ Listed(elements, Len(elements))
      BY <2>5, <2>9, ValidIsSized
    <3>2. Len(elements) = n
      BY <2>1, <2>4, LenProperties
    <3> DEFINE S == Algorithm1ShardSize(elements, ranks, 1)
    <3>3. S \in Nat \ {0}
      BY <2>1, <2>7, <3>1, <3>2, ShardSizeFits
    <3>4. p.shard_size = SizeOfShards(elements, n, StartsOf(elements, n, S, ranks), S, ranks, padded)
      BY <3>1, <3>2, DefaultPlan
    <3> QED
      BY <2>12, <3>3, <3>4 DEF SizeOfShards
  <2> QED
    BY <2>11, <2>12 DEF PlanFor, elements, ranks, padded
<1>2. ASSUME NEW j \in Jobs, NEW n \in DOMAIN j.model.params, NEW g, g.attrs = ParamAttrs(j.model, n)
      PROVE  g.attrs.dtype \in DTypes /\ g.attrs.requires_grad \in BOOLEAN /\ g.attrs.expert \in BOOLEAN
  BY <1>2, ModelsAssumption DEF ParamAttrs
<1> QED
  BY <1>1, <1>2 DEF GroupsArePlanned, GroupsOfParams

\* A group without gradients asks for nothing.
Needs(g) == IF HasGrads(g) THEN GradSize(g) ELSE 0

HasPlan(g) ==
  /\ g.attrs.dtype \in DTypes /\ g.attrs.requires_grad \in BOOLEAN
  /\ g.plan.shard_size \in Nat

\* What is asked for is what is handed out: the main gradients of a sharded
\* group are the inner buffer's, and a helper is counted in place of its view.
LEMMA AskedIsNeeded ==
  ASSUME JobsAssumption, job \in Jobs, NEW g, HasPlan(g)
  PROVE  Asked(g) = Needs(g) /\ Needs(g) \in Nat
<1> DEFINE n == Len(MainGroup(0, g))
           k == Len(FsdpGroup(0, g))
           s == g.plan.shard_size
<1>1. n \in Nat /\ k \in Nat
  BY GroupLength DEF JobsAssumption, MainGroup, DpGroup, FsdpGroup
<1>2. BucketSize(g) = n * s /\ s \in Nat
  BY DEF BucketSize, HasPlan
<1>3. ~Hfsdp => MainGroup(0, g) = FsdpGroup(0, g)
  BY DEF MainGroup
<1> HIDE DEF n, k, s
<1>4. n * s \in Nat
  BY <1>1, <1>2
<1>5. k > 1 => (n * s) \div k \in Nat
  <2>1. PICK p \in Nat : p = n * s
    BY <1>4
  <2>2. k > 1 => p \div k \in Nat
    BY ONLY <1>1, p \in Nat
  <2> QED
    BY ONLY <2>1, <2>2
<1>6. GradSize(g) \in Nat
  BY <1>2, <1>4, <1>5 DEF GradSize, InnerSize, GradsDistributed, k
<1>7. n = k /\ k > 1 => (n * s) \div k = s
  BY <1>1, <1>2
<1>8. ~Hfsdp => MainGradSize(g) = GradSize(g)
  BY <1>2, <1>3, <1>7 DEF MainGradSize, GradSize, InnerSize, GradsDistributed, n, k, s
<1> QED
  BY <1>6, <1>8 DEF Asked, Needs, HasPlan, HasGrads

----------------------------------------------------------------------------
(* The ledger of the allocation.                                           *)

NeedsAt(i) == Needs(groups[i])
DTypeAt(i) == MainGradDType(groups[i])

\* A ledger has what the first n groups need of each dtype, after each of them.
Ledger(b, n) ==
  /\ b \in [0 .. n -> [DTypes -> Nat]]
  /\ b[0] = [d \in DTypes |-> 0]
  /\ \A i \in 1 .. n, d \in DTypes :
       b[i][d] = b[i - 1][d] + (IF d = DTypeAt(i) THEN NeedsAt(i) ELSE 0)
  /\ \A i, k \in 0 .. n : i <= k => \A d \in DTypes : b[i][d] <= b[k][d]

\* the groups that have been counted, and those that have been given their slices
Counted == IF pc = "group" THEN 0 ELSE IF pc = "create" THEN at - 1 ELSE Len(groups)
Handed  == IF pc \in {"group", "create", "init"} THEN 0 ELSE IF pc = "alloc" THEN at - 1 ELSE Len(groups)

\* Groups with gradients have the part of the allocation that follows what the
\* groups before them need.
SlicedBy(b, n) ==
  /\ slices = [i \in 1 .. n |-> slices[i]]
  /\ \A i \in 1 .. n :
       /\ slices[i].dtype = DTypeAt(i) /\ slices[i].size = NeedsAt(i)
       /\ slices[i].start = IF HasGrads(groups[i]) THEN b[i - 1][DTypeAt(i)] ELSE 0

Steps == {"group", "create", "init", "alloc", "register", "wrap", "cycle", "forward", "backward",
          "reduce_outer", "root_post_backward", "step"}

\* The groups are as they were made, or planned.
GroupsKnown ==
  /\ job \in Jobs /\ pc \in Steps
  /\ pc = "group" => groups = <<>> /\ at = 1
  /\ pc # "group" =>
       LET gs == GetParameterGroups(job.model, job.strategy)
       IN /\ Len(groups) = Len(gs) /\ DOMAIN groups = DOMAIN gs
          /\ at \in 1 .. Len(groups)
          /\ \A i \in 1 .. Counted : HasPlan(groups[i])
          /\ \A i \in Counted + 1 .. Len(groups) : groups[i] = gs[i]

Booked ==
  \E b : /\ Ledger(b, Counted) /\ SlicedBy(b, Handed)
         /\ buffer_size = b[Counted] /\ offset = b[Handed]

Inv == GroupsKnown /\ Booked /\ raised # "AssertionError"

----------------------------------------------------------------------------
(* What steps keep of it.                                                  *)

LEMMA SameNeeds ==
  ASSUME job' = job, NEW i, groups'[i] = groups[i]
  PROVE  NeedsAt(i)' = NeedsAt(i) /\ DTypeAt(i)' = DTypeAt(i) /\ HasGrads(groups[i])' = HasGrads(groups[i])
BY DEF NeedsAt, DTypeAt, Needs, HasGrads, GradSize, InnerSize, BucketSize, MainGroup, FsdpGroup, DpGroup,
       GradsDistributed, Hfsdp, MainGradDType

LEMMA NewNeeds ==
  ASSUME job' = job, NEW i, NEW g, groups'[i] = g
  PROVE  NeedsAt(i)' = Needs(g) /\ DTypeAt(i)' = MainGradDType(g)
BY DEF NeedsAt, DTypeAt, Needs, HasGrads, GradSize, InnerSize, BucketSize, MainGroup, FsdpGroup, DpGroup,
       GradsDistributed, Hfsdp, MainGradDType

\* What a group needs, of which dtype.
LEMMA NeedsTyped ==
  ASSUME JobsAssumption, job \in Jobs, NEW i, HasPlan(groups[i])
  PROVE  NeedsAt(i) \in Nat /\ DTypeAt(i) \in DTypes
<1>1. NeedsAt(i) \in Nat
  BY AskedIsNeeded DEF NeedsAt
<1>2. job.main_grads \in {None} \cup DTypes
  BY DEF JobsAssumption
<1> QED
  BY <1>1, <1>2 DEF DTypeAt, MainGradDType, HasPlan, DTypes

LEMMA SameLength ==
  ASSUME NEW s, NEW i, NEW e, Len(s) \in Nat, DOMAIN s = 1 .. Len(s)
  PROVE  LET t == [s EXCEPT ![i] = e] IN Len(t) = Len(s) /\ DOMAIN t = DOMAIN s
<1> DEFINE t == [s EXCEPT ![i] = e]
<1>1. PICK n \in Nat : n = Len(s)
  OBVIOUS
<1>2. DOMAIN t = 1 .. n
  BY <1>1
<1>3. t = [k \in 1 .. n |-> t[k]]
  BY <1>1
<1> HIDE DEF t
<1>4. t \in Seq({t[k] : k \in 1 .. n})
  BY <1>3, IsASeq
<1>5. Len(t) = n
  BY <1>2, <1>4, LenProperties
<1> QED
  BY <1>1, <1>2, <1>5 DEF t

LEMMA Appended ==
  ASSUME NEW m \in Nat, NEW s, s = [i \in 1 .. m |-> s[i]], NEW e
  PROVE  LET t == Append(s, e)
         IN t = [i \in 1 .. m + 1 |-> t[i]] /\ t[m + 1] = e /\ \A i \in 1 .. m : t[i] = s[i]
<1> DEFINE S == {s[i] : i \in 1 .. m} \cup {e}
<1>1. s \in Seq(S)
  BY IsASeq
<1>2. Len(s) = m
  BY <1>1, LenProperties
<1> HIDE DEF S
<1>3. e \in S
  BY DEF S
<1> QED
  BY <1>1, <1>2, <1>3, AppendProperties, LenProperties

LEMMA SameLedger ==
  ASSUME UNCHANGED <<job, groups>>, NEW b, NEW n
  PROVE  Ledger(b, n) => Ledger(b, n)'
<1>1. \A i : NeedsAt(i)' = NeedsAt(i) /\ DTypeAt(i)' = DTypeAt(i)
  BY SameNeeds
<1> QED
  BY <1>1 DEF Ledger

LEMMA SameSlices ==
  ASSUME UNCHANGED <<job, groups, slices>>, NEW b, NEW n
  PROVE  SlicedBy(b, n) => SlicedBy(b, n)'
<1>1. \A i : NeedsAt(i)' = NeedsAt(i) /\ DTypeAt(i)' = DTypeAt(i) /\ HasGrads(groups[i])' = HasGrads(groups[i])
  BY SameNeeds
<1> QED
  BY <1>1 DEF SlicedBy

\* A step that neither counts nor hands out.
LEMMA BookedStays ==
  ASSUME Booked, UNCHANGED <<job, groups, buffer_size, offset, slices>>, Counted' = Counted, Handed' = Handed
  PROVE  Booked'
<1>1. PICK b : /\ Ledger(b, Counted) /\ SlicedBy(b, Handed)
               /\ buffer_size = b[Counted] /\ offset = b[Handed]
  BY DEF Booked
<1>2. PICK n, m : n = Counted /\ m = Handed
  OBVIOUS
<1>3. Ledger(b, n)' /\ SlicedBy(b, m)'
  BY <1>1, <1>2, SameLedger, SameSlices
<1>4. Ledger(b, Counted)' /\ SlicedBy(b, Handed)'
  BY <1>2, <1>3
<1> QED
  BY <1>1, <1>4 DEF Booked

LEMMA GroupsStay ==
  ASSUME GroupsKnown, UNCHANGED <<job, groups>>, pc # "group", pc' \in Steps \ {"group"}, at' \in 1 .. Len(groups),
         Counted' = Counted
  PROVE  GroupsKnown'
BY DEF GroupsKnown, HasPlan

----------------------------------------------------------------------------
(* Steps.                                                                  *)

LEMMA InvInit == JobsAssumption /\ Init => Inv
<1> SUFFICES ASSUME JobsAssumption, Init PROVE Inv
  OBVIOUS
<1>1. GroupsKnown /\ raised # "AssertionError" /\ Counted = 0 /\ Handed = 0
  BY DEF Init, GroupsKnown, Steps, None, Counted, Handed
<1> DEFINE b == [n \in 0 .. 0 |-> [d \in DTypes |-> 0]]
<1>2. Ledger(b, 0)
  <2>1. b[0] = [d \in DTypes |-> 0] /\ b \in [0 .. 0 -> [DTypes -> Nat]]
    OBVIOUS
  <2> HIDE DEF b
  <2> QED
    BY <2>1 DEF Ledger
<1>3. SlicedBy(b, 0)
  BY DEF SlicedBy, Init
<1>4. buffer_size = b[0] /\ offset = b[0]
  BY DEF Init
<1> HIDE DEF b
<1>5. Booked
  BY <1>1, <1>2, <1>3, <1>4 DEF Booked
<1> QED
  BY <1>1, <1>5 DEF Inv

LEMMA GroupParametersInv ==
  ASSUME JobsAssumption, GroupsArePlanned, Inv, GroupParameters
  PROVE  Inv'
<1>1. job \in Jobs /\ at = 1 /\ groups = <<>> /\ pc = "group" /\ job' = job
  BY DEF Inv, GroupsKnown, GroupParameters, At
<1>2. PICK b : Ledger(b, 0) /\ SlicedBy(b, 0) /\ buffer_size = b[0] /\ offset = b[0]
  BY <1>1 DEF Inv, Booked, Counted, Handed
<1>3. raised' # "AssertionError"
  BY DEF Inv, GroupParameters
<1>4. CASE pc' = "group" /\ groups' = groups
  <2>1. GroupsKnown'
    BY <1>1, <1>4 DEF GroupsKnown, GroupParameters, Steps, Inv
  <2>2. Booked'
    BY <1>1, <1>4, BookedStays DEF GroupParameters, Counted, Handed, Inv
  <2> QED
    BY <1>3, <2>1, <2>2 DEF Inv
<1>5. CASE pc' = "create" /\ groups' = GetParameterGroups(job.model, job.strategy)
  <2>1. Counted' = 0 /\ Handed' = 0 /\ at' = 1
    BY <1>1, <1>5 DEF GroupParameters, Counted, Handed
  <2>2. GroupsKnown'
    BY <1>1, <1>5, <2>1 DEF GroupsKnown, Steps, GroupsArePlanned
  <2>3. Ledger(b, 0)' /\ SlicedBy(b, 0)'
    BY <1>2 DEF Ledger, SlicedBy, GroupParameters
  <2>4. Booked'
    BY <1>2, <2>1, <2>3 DEF Booked, GroupParameters
  <2> QED
    BY <1>3, <2>2, <2>4 DEF Inv
<1> QED
  BY <1>1, <1>4, <1>5 DEF GroupParameters

\* What a planned group asks for is added to the ledger.
Grown(b, n, type, need) ==
  [k \in 0 .. n + 1 |->
     IF k = n + 1 THEN [d \in DTypes |-> b[n][d] + (IF d = type THEN need ELSE 0)] ELSE b[k]]

LEMMA LedgerGrows ==
  ASSUME job' = job, NEW n \in Nat, NEW b, Ledger(b, n), \A i \in 1 .. n : groups'[i] = groups[i],
         NEW need \in Nat, NEW type \in DTypes, need = NeedsAt(n + 1)', type = DTypeAt(n + 1)'
  PROVE  Ledger(Grown(b, n, type, need), n + 1)'
<1> DEFINE last == [d \in DTypes |-> b[n][d] + (IF d = type THEN need ELSE 0)]
<1>1. PICK c : c = Grown(b, n, type, need)
  OBVIOUS
<1>2. b \in [0 .. n -> [DTypes -> Nat]]
  BY DEF Ledger
<1>3. b[n] \in [DTypes -> Nat]
  BY <1>2
<1>4. /\ last \in [DTypes -> Nat]
      /\ \A d \in DTypes : last[d] = b[n][d] + (IF d = type THEN need ELSE 0)
  BY <1>3
<1> HIDE DEF last
<1>5. c = [k \in 0 .. n + 1 |-> IF k = n + 1 THEN last ELSE b[k]]
  BY <1>1 DEF Grown, last
<1>6. /\ c \in [0 .. n + 1 -> [DTypes -> Nat]]
      /\ c[n + 1] = last /\ \A k \in 0 .. n : c[k] = b[k]
  BY <1>2, <1>4, <1>5
<1>7. c[0] = [d \in DTypes |-> 0]
  BY <1>6 DEF Ledger
<1>8. ASSUME NEW i \in 1 .. n + 1, NEW d \in DTypes
      PROVE  c[i][d] = c[i - 1][d] + (IF d = DTypeAt(i)' THEN NeedsAt(i)' ELSE 0)
  <2>1. CASE i = n + 1
    BY <1>4, <1>6, <2>1
  <2>2. CASE i \in 1 .. n
    <3>1. NeedsAt(i)' = NeedsAt(i) /\ DTypeAt(i)' = DTypeAt(i)
      BY <2>2, SameNeeds
    <3>2. c[i] = b[i] /\ c[i - 1] = b[i - 1]
      BY <1>6, <2>2
    <3> QED
      BY <2>2, <3>1, <3>2 DEF Ledger
  <2> QED
    BY <2>1, <2>2
<1>9. ASSUME NEW i \in 0 .. n + 1, NEW k \in 0 .. n + 1, i <= k, NEW d \in DTypes
      PROVE  c[i][d] <= c[k][d]
  <2>1. \A j \in 0 .. n : b[j][d] \in Nat /\ (j <= n => b[j][d] <= b[n][d])
    BY <1>2 DEF Ledger
  <2>2. b[n][d] <= last[d] /\ last[d] \in Nat
    BY <1>4, <2>1
  <2>3. CASE i = n + 1
    BY <1>6, <1>9, <2>2, <2>3
  <2>4. CASE i \in 0 .. n /\ k = n + 1
    <3>1. b[i][d] <= b[n][d] /\ b[i][d] \in Nat /\ b[n][d] \in Nat
      BY <2>1, <2>4
    <3>2. c[i][d] = b[i][d] /\ c[k][d] = last[d]
      BY <1>6, <2>4
    <3> QED
      BY <2>2, <3>1, <3>2
  <2>5. CASE i \in 0 .. n /\ k \in 0 .. n
    BY <1>6, <1>9, <2>5 DEF Ledger
  <2> QED
    BY <1>9, <2>3, <2>4, <2>5
<1> QED
  BY <1>1, <1>6, <1>7, <1>8, <1>9 DEF Ledger

LEMMA CreateBuffersInv ==
  ASSUME JobsAssumption, GroupsArePlanned, Inv, CreateBuffers
  PROVE  Inv'
<1> DEFINE gs == GetParameterGroups(job.model, job.strategy)
<1>1. /\ job \in Jobs /\ pc = "create" /\ Len(groups) = Len(gs) /\ DOMAIN groups = DOMAIN gs
      /\ at \in 1 .. Len(groups) /\ job' = job
      /\ \A i \in 1 .. at - 1 : HasPlan(groups[i])
      /\ \A i \in at .. Len(groups) : groups[i] = gs[i]
      /\ Counted = at - 1 /\ Handed = 0
  <2>1. pc = "create" /\ job' = job /\ GroupsKnown
    BY DEF Inv, CreateBuffers, At
  <2>2. Counted = at - 1 /\ Handed = 0
    BY <2>1 DEF Counted, Handed
  <2>3. at \in Int => at - 1 + 1 = at
    OBVIOUS
  <2>4. /\ job \in Jobs /\ Len(groups) = Len(gs) /\ DOMAIN groups = DOMAIN gs
        /\ at \in 1 .. Len(groups)
        /\ \A i \in 1 .. Counted : HasPlan(groups[i])
        /\ \A i \in Counted + 1 .. Len(groups) : groups[i] = gs[i]
    BY <2>1 DEF GroupsKnown
  <2> QED
    BY <2>1, <2>2, <2>3, <2>4
<1>2. /\ Len(gs) \in Nat \ {0} /\ DOMAIN gs = 1 .. Len(gs)
      /\ \A i \in 1 .. Len(gs) :
            /\ gs[i].attrs.dtype \in DTypes /\ gs[i].attrs.requires_grad \in BOOLEAN
            /\ PlanFor(job, gs[i]).shard_size \in Nat
  BY <1>1 DEF GroupsArePlanned
<1> HIDE DEF gs
<1>3. PICK n \in Nat : n = at - 1 /\ at = n + 1
  BY <1>1, <1>2
<1>4. PICK g : g = Planned(groups[at])
  OBVIOUS
<1>5. HasPlan(g)
  <2>1. groups[at] = gs[at] /\ at \in 1 .. Len(gs)
    BY <1>1, <1>2
  <2>2. PICK h : h = gs[at]
    OBVIOUS
  <2>3. g.plan = PlanFor(job, h) /\ g.attrs = h.attrs
    BY <1>4, <2>1, <2>2 DEF Planned, PlanOf, PlanFor, ElementsFor, MainGroup, GroupOver, DpGroup, FsdpGroup, Hfsdp
  <2> QED
    BY <1>2, <2>1, <2>2, <2>3 DEF HasPlan
<1>6. groups' = [groups EXCEPT ![at] = g]
  BY <1>4 DEF CreateBuffers
<1>7. groups'[at] = g /\ \A i \in 1 .. n : groups'[i] = groups[i]
  BY <1>1, <1>2, <1>3, <1>6
<1>8. DTypeAt(n + 1)' = MainGradDType(g) /\ NeedsAt(n + 1)' = Needs(g)
  <2>1. PICK m : m = n + 1
    OBVIOUS
  <2>2. DTypeAt(m)' = MainGradDType(g) /\ NeedsAt(m)' = Needs(g)
    BY <1>1, <1>3, <1>7, <2>1, NewNeeds
  <2> QED
    BY <2>1, <2>2
<1>9. PICK need \in Nat, type \in DTypes : need = Asked(g) /\ need = Needs(g) /\ type = MainGradDType(g)
  <2>1. job.main_grads \in {None} \cup DTypes
    BY <1>1 DEF JobsAssumption
  <2>2. MainGradDType(g) \in DTypes
    BY <1>5, <2>1 DEF MainGradDType, HasPlan, DTypes
  <2> QED
    BY <1>1, <1>5, <2>2, AskedIsNeeded
<1>10. PICK b : Ledger(b, n) /\ SlicedBy(b, 0) /\ buffer_size = b[n] /\ offset = b[0]
  BY <1>1, <1>3 DEF Inv, Booked
<1>11. PICK c : c = Grown(b, n, type, need)
  OBVIOUS
<1>12. Ledger(c, n + 1)'
  BY <1>1, <1>7, <1>8, <1>9, <1>10, <1>11, LedgerGrows
<1>13. b \in [0 .. n -> [DTypes -> Nat]]
  BY <1>10 DEF Ledger
<1>14. c[0] = b[0] /\ c[n + 1] = [d \in DTypes |-> b[n][d] + (IF d = type THEN need ELSE 0)]
  BY <1>11 DEF Grown
<1>15. buffer_size' = c[n + 1]
  <2>1. buffer_size' = [buffer_size EXCEPT ![MainGradDType(g)] = @ + Asked(g)]
    BY <1>4 DEF CreateBuffers
  <2>2. b[n] \in [DTypes -> Nat]
    BY <1>13
  <2>3. PICK v \in [DTypes -> Nat] : v = b[n] /\ v = buffer_size
    BY <1>10, <2>2
  <2>4. buffer_size' = [v EXCEPT ![type] = v[type] + need]
    BY <1>9, <2>1, <2>3
  <2>5. ASSUME NEW d \in DTypes
        PROVE  [v EXCEPT ![type] = v[type] + need][d] = v[d] + (IF d = type THEN need ELSE 0)
    OBVIOUS
  <2>6. c[n + 1] = [d \in DTypes |-> v[d] + (IF d = type THEN need ELSE 0)]
    BY <1>14, <2>3
  <2> QED
    BY <2>4, <2>5, <2>6
<1>16. SlicedBy(c, 0)' /\ offset' = c[0]
  BY <1>10, <1>14 DEF SlicedBy, CreateBuffers
<1>17. Len(groups') = Len(groups) /\ DOMAIN groups' = DOMAIN groups
  BY <1>1, <1>2, <1>6, SameLength
<1>18. Counted' = n + 1 /\ Handed' = 0 /\ at' \in 1 .. Len(groups) /\ pc' \in {"create", "init"}
  BY <1>1, <1>2, <1>3, <1>17 DEF CreateBuffers, Advance, Counted, Handed
<1>19. GroupsKnown'
  <2>1. \A i \in 1 .. n + 1 : HasPlan(groups'[i])
    BY <1>1, <1>3, <1>5, <1>7
  <2>2. \A i \in n + 2 .. Len(groups) : groups'[i] = gs[i]
    BY <1>1, <1>2, <1>3, <1>6
  <2> QED
    BY <1>1, <1>17, <1>18, <2>1, <2>2 DEF GroupsKnown, Steps, HasPlan, gs
<1>20. Booked'
  BY <1>12, <1>15, <1>16, <1>18 DEF Booked
<1> QED
  BY <1>19, <1>20 DEF Inv, CreateBuffers

LEMMA InitWeightsInv ==
  ASSUME JobsAssumption, GroupsArePlanned, Inv, InitWeights
  PROVE  Inv'
<1>1. /\ job \in Jobs /\ pc = "init" /\ at \in 1 .. Len(groups) /\ Len(groups) \in Nat
      /\ Counted = Len(groups) /\ Handed = 0
  BY DEF Inv, GroupsKnown, GroupsArePlanned, InitWeights, At, Counted, Handed
<1>2. /\ at' \in 1 .. Len(groups) /\ pc' \in {"init", "alloc"}
      /\ pc' = "alloc" => at' = 1
      /\ UNCHANGED <<job, groups, buffer_size, offset, slices, raised>>
  BY <1>1 DEF InitWeights, Advance
<1>3. Counted' = Counted /\ Handed' = Handed
  <2>1. CASE pc' = "init"
    BY <1>1, <1>2, <2>1 DEF Counted, Handed
  <2>2. CASE pc' = "alloc"
    BY <1>1, <1>2, <2>2 DEF Counted, Handed
  <2> QED
    BY <1>2, <2>1, <2>2
<1>4. GroupsKnown' /\ Booked'
  BY <1>1, <1>2, <1>3, GroupsStay, BookedStays DEF Inv, Steps
<1> QED
  BY <1>2, <1>4 DEF Inv

\* A group gets the part that the ledger has for it, which is all it needs.
LEMMA AllocGradsInv ==
  ASSUME JobsAssumption, GroupsArePlanned, Inv, AllocGrads
  PROVE  Inv'
<1>1. /\ job \in Jobs /\ pc = "alloc" /\ at \in 1 .. Len(groups) /\ Len(groups) \in Nat
      /\ Counted = Len(groups) /\ Handed = at - 1
      /\ HasPlan(groups[at])
  BY DEF Inv, GroupsKnown, GroupsArePlanned, AllocGrads, At, Counted, Handed
<1> PICK n \in Nat, m \in Nat : n = Len(groups) /\ m = at - 1 /\ m + 1 = at /\ m + 1 \in 1 .. n
  BY <1>1
<1>2. PICK b : /\ n = Len(groups) /\ m = at - 1 /\ m + 1 = at /\ m + 1 \in 1 .. n
               /\ Ledger(b, n) /\ SlicedBy(b, m) /\ buffer_size = b[n] /\ offset = b[m]
  <2>1. PICK b : Ledger(b, Counted) /\ SlicedBy(b, Handed) /\ buffer_size = b[Counted] /\ offset = b[Handed]
    BY DEF Inv, Booked
  <2> QED
    BY <1>1, <2>1
<1>3. PICK g : g = groups[m + 1]
  OBVIOUS
<1>4. PICK need \in Nat, type \in DTypes :
          need = NeedsAt(m + 1) /\ type = DTypeAt(m + 1) /\ need = Needs(g) /\ type = MainGradDType(g)
  BY <1>1, <1>2, <1>3, NeedsTyped DEF NeedsAt, DTypeAt
<1>5. /\ b[m] \in [DTypes -> Nat] /\ b[m + 1] \in [DTypes -> Nat] /\ b[n] \in [DTypes -> Nat]
      /\ \A d \in DTypes : b[m + 1][d] = b[m][d] + (IF d = type THEN need ELSE 0)
      /\ \A d \in DTypes : b[m + 1][d] <= b[n][d]
  <2>1. b \in [0 .. n -> [DTypes -> Nat]] /\ m \in 0 .. n /\ m + 1 \in 0 .. n /\ n \in 0 .. n /\ m + 1 - 1 = m
    BY <1>2 DEF Ledger
  <2> QED
    <3>1. b[m] \in [DTypes -> Nat] /\ b[m + 1] \in [DTypes -> Nat] /\ b[n] \in [DTypes -> Nat]
      BY <2>1
    <3>2. \A i \in 1 .. n, d \in DTypes :
            b[i][d] = b[i - 1][d] + (IF d = DTypeAt(i) THEN NeedsAt(i) ELSE 0)
      BY <1>2 DEF Ledger
    <3>3. \A d \in DTypes : b[m + 1][d] = b[m][d] + (IF d = type THEN need ELSE 0)
      BY <1>2, <1>4, <2>1, <3>2
    <3>4. \A d \in DTypes : b[m + 1][d] <= b[n][d]
      <4>1. m + 1 <= n
        BY <2>1
      <4>2. \A i, k \in 0 .. n : i <= k => \A d \in DTypes : b[i][d] <= b[k][d]
        BY <1>2 DEF Ledger
      <4> QED
        BY <2>1, <4>1, <4>2
    <3> QED
      BY <3>1, <3>3, <3>4
<1>6. HasGrads(g) => Smaller(GradSize(g), buffer_size[type] - offset[type]) = GradSize(g)
  <2> SUFFICES ASSUME HasGrads(g) PROVE Smaller(GradSize(g), buffer_size[type] - offset[type]) = GradSize(g)
    OBVIOUS
  <2>1. GradSize(g) = need
    BY <1>4 DEF Needs
  <2>2. need <= b[n][type] - b[m][type] /\ b[n][type] \in Nat /\ b[m][type] \in Nat
    BY <1>5
  <2> QED
    BY <1>2, <2>1, <2>2 DEF Smaller
<1>7. /\ UNCHANGED <<job, groups, buffer_size, raised>>
      /\ Advance("register")
      /\ slices' = Append(slices, [dtype |-> type, start |-> IF HasGrads(g) THEN offset[type] ELSE 0, size |-> need])
      /\ offset' = IF HasGrads(g) THEN [offset EXCEPT ![type] = @ + need] ELSE offset
  BY <1>1, <1>2, <1>3, <1>4, <1>6 DEF AllocGrads, Needs
<1>8. offset' = b[m + 1]
  <2>1. PICK v \in [DTypes -> Nat] : v = b[m] /\ v = offset
    BY <1>2, <1>5
  <2>2. CASE HasGrads(g)
    <3>1. offset' = [v EXCEPT ![type] = v[type] + need]
      BY <1>7, <2>1, <2>2
    <3>2. ASSUME NEW d \in DTypes
          PROVE  [v EXCEPT ![type] = v[type] + need][d] = b[m + 1][d]
      <4>1. b[m + 1][d] = v[d] + (IF d = type THEN need ELSE 0)
        BY <1>5, <2>1
      <4>2. v[d] \in Nat
        OBVIOUS
      <4> QED
        BY <4>1, <4>2
    <3>3. [v EXCEPT ![type] = v[type] + need] = [d \in DTypes |-> [v EXCEPT ![type] = v[type] + need][d]]
      OBVIOUS
    <3>4. b[m + 1] = [d \in DTypes |-> b[m + 1][d]]
      BY <1>5
    <3> QED
      BY <3>1, <3>2, <3>3, <3>4
  <2>3. CASE ~HasGrads(g)
    <3>1. need = 0
      BY <1>4, <2>3 DEF Needs
    <3>2. \A d \in DTypes : v[d] = b[m + 1][d]
      BY <1>5, <2>1, <3>1
    <3> QED
      BY <1>5, <1>7, <2>1, <2>3, <3>2
  <2> QED
    BY <2>2, <2>3
<1>9. Counted' = n /\ Handed' = m + 1 /\ at' \in 1 .. Len(groups) /\ pc' \in {"alloc", "register"}
  BY <1>1, <1>2, <1>7 DEF Advance, Counted, Handed
<1>10. SlicedBy(b, m + 1)'
  <2>1. PICK e : e = [dtype |-> type, start |-> IF HasGrads(g) THEN b[m][type] ELSE 0, size |-> need]
    OBVIOUS
  <2>2. slices' = Append(slices, e)
    BY <1>2, <1>7, <2>1
  <2>3. slices = [i \in 1 .. m |-> slices[i]]
    BY <1>2 DEF SlicedBy
  <2>4. /\ slices' = [i \in 1 .. m + 1 |-> slices'[i]]
        /\ slices'[m + 1] = e /\ \A i \in 1 .. m : slices'[i] = slices[i]
    BY <2>2, <2>3, Appended
  <2>5. \A i : NeedsAt(i)' = NeedsAt(i) /\ DTypeAt(i)' = DTypeAt(i) /\ HasGrads(groups[i])' = HasGrads(groups[i])
    BY <1>7, SameNeeds
  <2>6. ASSUME NEW i \in 1 .. m + 1
        PROVE  /\ slices'[i].dtype = DTypeAt(i) /\ slices'[i].size = NeedsAt(i)
               /\ slices'[i].start = IF HasGrads(groups[i]) THEN b[i - 1][DTypeAt(i)] ELSE 0
    <3>1. CASE i = m + 1
      <4>1. i - 1 = m
        BY <3>1
      <4>2. slices'[i] = e /\ groups[i] = g /\ DTypeAt(i) = type /\ NeedsAt(i) = need
        BY <1>3, <1>4, <2>4, <3>1
      <4> QED
        BY <2>1, <4>1, <4>2
    <3>2. CASE i \in 1 .. m
      BY <1>2, <2>4, <3>2 DEF SlicedBy
    <3> QED
      BY <3>1, <3>2
  <2> QED
    BY <2>4, <2>5, <2>6 DEF SlicedBy
<1>11. Ledger(b, n)'
  BY <1>2, <1>7, SameLedger
<1>12. Booked'
  BY <1>2, <1>7, <1>8, <1>9, <1>10, <1>11 DEF Booked
<1>13. GroupsKnown'
  BY <1>1, <1>2, <1>7, <1>9, GroupsStay DEF Inv, Steps
<1> QED
  BY <1>7, <1>12, <1>13 DEF Inv

\* Once the buffers are there, nothing is counted or handed out.
DoneSteps == {"register", "wrap", "cycle", "forward", "backward", "reduce_outer", "root_post_backward", "step"}

LEMMA DoneInv ==
  ASSUME JobsAssumption, GroupsArePlanned, Inv, pc \in DoneSteps, pc' \in DoneSteps,
         UNCHANGED <<job, groups, buffer_size, offset, slices>>,
         at' \in {1, at, at + 1}, at' = at + 1 => at < Len(groups), raised' # "AssertionError"
  PROVE  Inv'
<1>1. /\ job \in Jobs /\ pc # "group" /\ at \in 1 .. Len(groups) /\ Len(groups) \in Nat
      /\ Counted = Len(groups) /\ Handed = Len(groups)
  BY DEF Inv, GroupsKnown, GroupsArePlanned, DoneSteps, Counted, Handed
<1>2. Counted' = Counted /\ Handed' = Handed /\ pc' \in Steps \ {"group"}
  BY <1>1 DEF DoneSteps, Counted, Handed, Steps
<1>3. at' \in 1 .. Len(groups)
  BY <1>1
<1>4. GroupsKnown' /\ Booked'
  BY <1>1, <1>2, <1>3, GroupsStay, BookedStays DEF Inv
<1> QED
  BY <1>4 DEF Inv

LEMMA InvNext ==
  ASSUME JobsAssumption, GroupsArePlanned, Inv, [Next]_vars
  PROVE  Inv'
<1>1. CASE UNCHANGED vars
  <2>1. UNCHANGED <<job, pc, at, raised, groups, buffer_size, offset, slices>>
    BY <1>1 DEF vars, built
  <2>2. Counted' = Counted /\ Handed' = Handed
    BY <2>1 DEF Counted, Handed
  <2>3. GroupsKnown' /\ Booked'
    BY <2>1, <2>2, BookedStays DEF Inv, GroupsKnown, HasPlan
  <2> QED
    BY <2>1, <2>3 DEF Inv
<1>2. CASE GroupParameters
  BY <1>2, GroupParametersInv
<1>3. CASE CreateBuffers
  BY <1>3, CreateBuffersInv
<1>4. CASE InitWeights
  BY <1>4, InitWeightsInv
<1>5. CASE AllocGrads
  BY <1>5, AllocGradsInv
<1>6. CASE InitDistributedParams
  <2>1. pc = "register" /\ UNCHANGED <<job, groups, buffer_size, offset, slices>>
    BY <1>6 DEF InitDistributedParams, At
  <2>2. at \in 1 .. Len(groups) /\ Len(groups) \in Nat
    BY <2>1 DEF Inv, GroupsKnown, GroupsArePlanned
  <2>3. \/ raised' = "invalid chunk" /\ UNCHANGED <<pc, at>>
        \/ Advance("wrap") /\ UNCHANGED raised
    BY <1>6 DEF InitDistributedParams
  <2>4. /\ pc \in DoneSteps /\ pc' \in DoneSteps
        /\ at' \in {1, at, at + 1} /\ (at' = at + 1 => at < Len(groups))
    <3>1. CASE UNCHANGED <<pc, at>>
      BY <2>1, <2>2, <3>1 DEF DoneSteps
    <3>2. CASE Advance("wrap")
      BY <2>1, <2>2, <3>2 DEF Advance, DoneSteps
    <3> QED
      BY <2>3, <3>1, <3>2
  <2>5. raised' # "AssertionError"
    BY <2>3 DEF Inv
  <2> QED
    BY <2>1, <2>4, <2>5, DoneInv
<1>7. CASE StateDict
  <2>1. /\ pc = "cycle" /\ UNCHANGED <<job, pc, at, groups, buffer_size, offset, slices>>
        /\ raised' \in {"hangs", raised}
    BY <1>7 DEF StateDict, At
  <2>2. at' = at + 1 => at < Len(groups)
    BY <2>1 DEF Inv, GroupsKnown, GroupsArePlanned
  <2> QED
    BY <2>1, <2>2, DoneInv DEF Inv, DoneSteps
<1>8. CASE \/ FullyShardOptimizer \/ BeginCycle \/ Forward \/ Backward \/ OuterReduction
           \/ RootPostBackward \/ OptimizerStep
  <2>1. /\ pc \in DoneSteps /\ pc' \in DoneSteps
        /\ UNCHANGED <<job, at, raised, groups, buffer_size, offset, slices>>
    <3>1. CASE FullyShardOptimizer
      BY <3>1 DEF FullyShardOptimizer, At, DoneSteps
    <3>2. CASE BeginCycle
      BY <3>2 DEF BeginCycle, At, DoneSteps, built
    <3>3. CASE Forward
      BY <3>3 DEF Forward, At, DoneSteps, built
    <3>4. CASE Backward
      BY <3>4 DEF Backward, At, DoneSteps, built
    <3>5. CASE OuterReduction
      BY <3>5 DEF OuterReduction, At, DoneSteps, built
    <3>6. CASE RootPostBackward
      BY <3>6 DEF RootPostBackward, At, DoneSteps, built
    <3>7. CASE OptimizerStep
      BY <3>7 DEF OptimizerStep, At, DoneSteps, built
    <3> QED
      BY <1>8, <3>1, <3>2, <3>3, <3>4, <3>5, <3>6, <3>7
  <2>2. at' = at + 1 => at < Len(groups)
    BY <2>1 DEF Inv, GroupsKnown, GroupsArePlanned, DoneSteps
  <2> QED
    BY <2>1, <2>2, DoneInv DEF Inv
<1> QED
  BY <1>1, <1>2, <1>3, <1>4, <1>5, <1>6, <1>7, <1>8 DEF Next

----------------------------------------------------------------------------
(* What the ledger says of the slices.                                     *)

LEMMA SlicesInOrder ==
  ASSUME JobsAssumption, GroupsArePlanned, Inv
  PROVE  GradSlices
<1> SUFFICES ASSUME pc \in {"cycle", "forward", "backward"}
             PROVE  /\ offset = buffer_size
                    /\ \A i, j \in Group :
                         i < j /\ slices[i].dtype = slices[j].dtype /\ slices[j].size > 0
                           => slices[i].start + slices[i].size <= slices[j].start
                    /\ \A i \in Group : slices[i].start + slices[i].size <= buffer_size[slices[i].dtype]
  BY DEF GradSlices, Inv
<1> PICK n \in Nat : n = Len(groups)
  BY DEF Inv, GroupsKnown, GroupsArePlanned
<1>1. /\ job \in Jobs /\ Counted = n /\ Handed = n /\ Group = 1 .. n
      /\ \A i \in 1 .. n : HasPlan(groups[i])
  BY DEF Inv, GroupsKnown, GroupsArePlanned, Counted, Handed, Group
<1>2. PICK b : Ledger(b, n) /\ SlicedBy(b, n) /\ buffer_size = b[n] /\ offset = b[n]
  BY <1>1 DEF Inv, Booked
<1>3. \A i \in 0 .. n, d \in DTypes : b[i][d] \in Nat /\ b[i][d] <= b[n][d]
  BY <1>2 DEF Ledger
<1>4. ASSUME NEW i \in 1 .. n
      PROVE  /\ slices[i].dtype \in DTypes /\ slices[i].start \in Nat /\ slices[i].size \in Nat
             /\ slices[i].start + slices[i].size <= b[i][slices[i].dtype]
             /\ slices[i].size > 0 => slices[i].start = b[i - 1][slices[i].dtype]
  <2>1. PICK d \in DTypes, need \in Nat : d = DTypeAt(i) /\ need = NeedsAt(i)
    BY <1>1, NeedsTyped
  <2>2. /\ slices[i].dtype = d /\ slices[i].size = need
        /\ slices[i].start = IF HasGrads(groups[i]) THEN b[i - 1][d] ELSE 0
    BY <1>2, <2>1 DEF SlicedBy
  <2>3. b[i][d] = b[i - 1][d] + need
    BY <1>2, <2>1 DEF Ledger
  <2>4. i - 1 \in 0 .. n /\ i \in 0 .. n
    OBVIOUS
  <2>5. b[i - 1][d] \in Nat /\ b[i][d] \in Nat
    BY <1>3, <2>4
  <2>6. ~HasGrads(groups[i]) => need = 0
    BY <2>1 DEF NeedsAt, Needs
  <2> QED
    BY <2>2, <2>3, <2>5, <2>6
<1>5. ASSUME NEW i \in 1 .. n, NEW j \in 1 .. n, i < j, slices[i].dtype = slices[j].dtype, slices[j].size > 0
      PROVE  slices[i].start + slices[i].size <= slices[j].start
  <2>1. PICK d \in DTypes : d = slices[i].dtype
    BY <1>4
  <2>2. i \in 0 .. n /\ j - 1 \in 0 .. n /\ i <= j - 1
    BY <1>5
  <2>3. b[i][d] <= b[j - 1][d] /\ b[i][d] \in Nat /\ b[j - 1][d] \in Nat
    BY <1>2, <1>3, <2>2 DEF Ledger
  <2>4. slices[i].start + slices[i].size <= b[i][d] /\ slices[i].start \in Nat /\ slices[i].size \in Nat
    BY <1>4, <2>1
  <2>5. slices[j].start = b[j - 1][d]
    BY <1>4, <1>5, <2>1
  <2> QED
    BY <2>3, <2>4, <2>5
<1>6. ASSUME NEW i \in 1 .. n
      PROVE  slices[i].start + slices[i].size <= buffer_size[slices[i].dtype]
  <2>1. PICK d \in DTypes : d = slices[i].dtype
    BY <1>4
  <2>2. slices[i].start + slices[i].size <= b[i][d] /\ slices[i].start \in Nat /\ slices[i].size \in Nat
    BY <1>4, <2>1
  <2>3. b[i][d] <= b[n][d] /\ b[i][d] \in Nat /\ b[n][d] \in Nat
    BY <1>3
  <2> QED
    BY <1>2, <2>1, <2>2, <2>3
<1> QED
  BY <1>1, <1>2, <1>5, <1>6

\* _init_each_parameter_group_buffers: the main gradients of all groups lie side
\* by side in the allocation of their dtype and fill it, for every model, mesh,
\* strategy and way of training.  What is asked for while buffers are counted is
\* what is handed out later, although the one is counted for the main buffer and
\* the other is taken by the inner one, or by a helper the main buffer is a view of.
THEOREM GradientsSideBySide == Spec => []GradSlices
<1>0. GroupsArePlanned
  BY ParamsGrouped, GroupsPlanned
<1>1. Init => Inv
  BY InvInit, JobsAssumption
<1>2. Inv /\ [Next]_vars => Inv'
  BY <1>0, InvNext, JobsAssumption
<1>3. Inv => GradSlices
  BY <1>0, SlicesInOrder, JobsAssumption
<1> QED
  BY <1>1, <1>2, <1>3, PTL DEF Spec

----------------------------------------------------------------------------
(* Groups, as they are made.                                               *)

LEMMA InRange == ASSUME NEW list, NEW x PROVE x \in Range(list) <=> Has(list, x)
BY DEF Range, Has

LEMMA GroupsAreSound ==
  ASSUME Inv PROVE GroupsSound
<1> DEFINE gs == GetParameterGroups(job.model, job.strategy)
           N == Len(gs)
<1>1. SUFFICES ASSUME pc = "create", at = 1
      PROVE  /\ \A n \in Param : Cardinality({i \in Group : n \in Range(groups[i].params)}) = 1
             /\ \A i \in Group : IsInjective(groups[i].params)
             /\ \A i \in Group, n, k \in Param :
                  n \in Range(groups[i].params) /\ k \in Range(groups[i].params) =>
                    /\ ParamAttrs(job.model, n) = groups[i].attrs
                    /\ job.model.params[n].requires_grad = job.model.params[k].requires_grad
                    /\ FsdpUnitId(job.model, n) = FsdpUnitId(job.model, k)
                    /\ job.model.params[n].shared_embedding /\ HasWeights => n = k
                    /\ \/ groups[i].chunk_size_factor % job.model.params[n].row = 0
                       \/ NumelOf(job.model.params[n]) < groups[i].chunk_size_factor
             /\ \A i, j \in Group :
                  j \in BucketToBucketGroup(groups, i)
                    => BucketToBucketGroup(groups, j) = BucketToBucketGroup(groups, i)
  BY DEF GroupsSound
<1>2. /\ job \in Jobs /\ Len(groups) = N /\ DOMAIN groups = DOMAIN gs
      /\ \A i \in 1 .. Len(groups) : groups[i] = gs[i]
  BY <1>1 DEF Inv, GroupsKnown, Counted
<1>3. FormedOf(job.model, job.strategy, gs)
  BY <1>2, JobsFormed
<1> HIDE DEF gs
<1>4. Group = 1 .. N /\ N \in Nat /\ \A i \in 1 .. N : groups[i] = gs[i]
  BY <1>2, <1>3 DEF FormedOf, Group
<1> HIDE DEF N
<1>5. /\ \A i \in Group : NoneTwice(groups[i].params)
      /\ \A i \in Group : \A n : Has(groups[i].params, n) =>
           /\ groups[i].attrs = ParamAttrs(job.model, n)
           /\ FitsFactor(job.model, groups[i].chunk_size_factor, n)
      /\ \A i \in Group : \A n, k :
           Has(groups[i].params, n) /\ Has(groups[i].params, k) /\ RequiresNewBucket(job.model, job.strategy, n)
             => n = k
      /\ \A i, j \in Group : \A n : Has(groups[i].params, n) /\ Has(groups[j].params, n) => i = j
      /\ \A n \in Param : \E i \in Group : Has(groups[i].params, n)
  <2>1. /\ \A i \in 1 .. N : NoneTwice(gs[i].params)
        /\ \A i \in 1 .. N : \A n : Has(gs[i].params, n) =>
             /\ gs[i].attrs = ParamAttrs(job.model, n)
             /\ FitsFactor(job.model, gs[i].chunk_size_factor, n)
        /\ \A i \in 1 .. N : \A n, k :
             Has(gs[i].params, n) /\ Has(gs[i].params, k) /\ RequiresNewBucket(job.model, job.strategy, n)
               => n = k
        /\ \A i, j \in 1 .. N : \A n : Has(gs[i].params, n) /\ Has(gs[j].params, n) => i = j
        /\ \A n \in Param : \E i \in 1 .. N : Has(gs[i].params, n)
    BY <1>3 DEF FormedOf, Param, N
  <2> QED
    BY <1>4, <2>1
<1>6. ASSUME NEW n \in Param PROVE Cardinality({i \in Group : n \in Range(groups[i].params)}) = 1
  <2>1. PICK i \in Group : Has(groups[i].params, n)
    BY <1>5
  <2>2. {j \in Group : n \in Range(groups[j].params)} = {i}
    BY <1>5, <2>1, InRange
  <2> QED
    BY <2>2, FS_Singleton
<1>7. \A i \in Group : IsInjective(groups[i].params)
  BY <1>5 DEF IsInjective, NoneTwice
<1>8. ASSUME NEW i \in Group, NEW n \in Param, NEW k \in Param,
             n \in Range(groups[i].params), k \in Range(groups[i].params)
      PROVE  /\ ParamAttrs(job.model, n) = groups[i].attrs
             /\ job.model.params[n].requires_grad = job.model.params[k].requires_grad
             /\ FsdpUnitId(job.model, n) = FsdpUnitId(job.model, k)
             /\ job.model.params[n].shared_embedding /\ HasWeights => n = k
             /\ \/ groups[i].chunk_size_factor % job.model.params[n].row = 0
                \/ NumelOf(job.model.params[n]) < groups[i].chunk_size_factor
  <2>1. Has(groups[i].params, n) /\ Has(groups[i].params, k)
    BY <1>8, InRange
  <2>2. groups[i].attrs = ParamAttrs(job.model, n) /\ groups[i].attrs = ParamAttrs(job.model, k)
    BY <1>5, <2>1
  <2>3. \A x : /\ ParamAttrs(job.model, x).requires_grad = job.model.params[x].requires_grad
               /\ ParamAttrs(job.model, x).fsdp_unit_id = FsdpUnitId(job.model, x)
    BY DEF ParamAttrs
  <2>4. job.model.params[n].shared_embedding /\ HasWeights => RequiresNewBucket(job.model, job.strategy, n)
    BY DEF HasWeights, RequiresNewBucket
  <2>5. FitsFactor(job.model, groups[i].chunk_size_factor, n)
    BY <1>5, <2>1
  <2>6. job.model.params[n].shared_embedding /\ HasWeights => n = k
    BY <1>5, <2>1, <2>4
  <2>7. /\ job.model.params[n].requires_grad = job.model.params[k].requires_grad
        /\ FsdpUnitId(job.model, n) = FsdpUnitId(job.model, k)
    BY <2>2, <2>3
  <2> QED
    BY <2>2, <2>5, <2>6, <2>7 DEF FitsFactor
<1>9. ASSUME NEW i \in Group, NEW j \in Group, j \in BucketToBucketGroup(groups, i)
      PROVE  BucketToBucketGroup(groups, j) = BucketToBucketGroup(groups, i)
  BY <1>9 DEF BucketToBucketGroup
<1> QED
  BY <1>6, <1>7, <1>8, <1>9

\* _get_parameter_groups: every parameter is in one bucket, once, with parameters
\* of its dtype, unit, expertness and requires_grad only; a shared embedding is
\* alone; and every row divides the chunk factor or is of a tensor shorter than it:
\* for every model.
THEOREM GroupingSound == Spec => []GroupsSound
<1>0. GroupsArePlanned
  BY ParamsGrouped, GroupsPlanned
<1>1. Init => Inv
  BY InvInit, JobsAssumption
<1>2. Inv /\ [Next]_vars => Inv'
  BY <1>0, InvNext, JobsAssumption
<1>3. Inv => GroupsSound
  BY GroupsAreSound
<1> QED
  BY <1>1, <1>2, <1>3, PTL DEF Spec

----------------------------------------------------------------------------
(* The process groups of a mesh: in ascending order, the numbers of the    *)
(* ranks of a group are equally far apart.                                 *)

LEMMA CountedUp ==
  ASSUME NEW n \in Nat, NEW f, \A i \in 0 .. n - 1 : f[i] \in Int,
         \A i, j \in 0 .. n - 1 : i < j => f[i] < f[j]
  PROVE  LET S == {f[i] : i \in 0 .. n - 1} IN IsFiniteSet(S) /\ Cardinality(S) = n
<1> DEFINE S == {f[i] : i \in 0 .. n - 1}
           g == [k \in 1 .. n |-> f[k - 1]]
<1>1. \A k \in 1 .. n : k - 1 \in 0 .. n - 1
  OBVIOUS
<1>2. g \in [1 .. n -> S]
  BY <1>1
<1>3. \A x \in S : \E k \in 1 .. n : g[k] = x
  <2>1. ASSUME NEW i \in 0 .. n - 1 PROVE i + 1 \in 1 .. n /\ g[i + 1] = f[i]
    OBVIOUS
  <2> QED
    BY <2>1
<1>4. \A k, l \in 1 .. n : g[k] = g[l] => k = l
  <2>1. ASSUME NEW k \in 1 .. n, NEW l \in 1 .. n, k < l PROVE g[k] # g[l]
    <3>1. k - 1 \in 0 .. n - 1 /\ l - 1 \in 0 .. n - 1 /\ k - 1 < l - 1
      BY <2>1
    <3>2. f[k - 1] < f[l - 1] /\ f[k - 1] \in Int /\ f[l - 1] \in Int
      BY <3>1
    <3> QED
      BY <3>2
  <2>2. \A k, l \in 1 .. n : k = l \/ k < l \/ l < k
    OBVIOUS
  <2> HIDE DEF g
  <2> QED
    BY <2>1, <2>2
<1> HIDE DEF g, S
<1>5. ExistsBijection(1 .. n, S)
  BY <1>2, <1>3, <1>4 DEF ExistsBijection, Bijection, Injection, Surjection, IsInjective
<1>6. IsFiniteSet(S) /\ Cardinality(S) = n
  BY <1>5, FS_NatBijection, FS_CountingElements
<1> QED
  BY <1>6 DEF S

LEMMA Ascending ==
  ASSUME NEW n \in Nat, NEW f, \A i \in 0 .. n - 1 : f[i] \in Int,
         \A i, j \in 0 .. n - 1 : i < j => f[i] < f[j]
  PROVE  InOrder({f[i] : i \in 0 .. n - 1}) = [k \in 1 .. n |-> f[k - 1]]
<1> DEFINE S == {f[i] : i \in 0 .. n - 1}
           Lower(r) == {q \in S : q < r}
<1>1. Cardinality(S) = n
  BY CountedUp
<1>2. ASSUME NEW i \in 0 .. n - 1 PROVE Cardinality(Lower(f[i])) = i
  <2>1. i \in Nat /\ \A j \in 0 .. i - 1 : j \in 0 .. n - 1
    OBVIOUS
  <2>2. Cardinality({f[j] : j \in 0 .. i - 1}) = i
    BY <2>1, CountedUp
  <2>3. ASSUME NEW j \in 0 .. n - 1 PROVE f[j] < f[i] <=> j \in 0 .. i - 1
    <3>1. f[j] \in Int /\ f[i] \in Int /\ (j < i => f[j] < f[i]) /\ (i < j => f[i] < f[j])
      OBVIOUS
    <3>2. CASE j < i
      BY <3>1, <3>2
    <3>3. CASE j = i
      BY <3>1, <3>3
    <3>4. CASE i < j
      BY <3>1, <3>4
    <3> QED
      BY <3>2, <3>3, <3>4
  <2>4. Lower(f[i]) = {f[j] : j \in 0 .. i - 1}
    BY <2>1, <2>3
  <2> QED
    BY <2>2, <2>4
<1> HIDE DEF Lower
<1>3. ASSUME NEW k \in 1 .. n
      PROVE  (CHOOSE r \in S : Cardinality(Lower(r)) = k - 1) = f[k - 1]
  <2>1. k - 1 \in 0 .. n - 1
    OBVIOUS
  <2>2. f[k - 1] \in S /\ Cardinality(Lower(f[k - 1])) = k - 1
    BY <1>2, <2>1
  <2>3. ASSUME NEW r \in S, Cardinality(Lower(r)) = k - 1 PROVE r = f[k - 1]
    <3>1. PICK i \in 0 .. n - 1 : r = f[i]
      OBVIOUS
    <3>2. i = k - 1
      BY <1>2, <2>3, <3>1
    <3> QED
      BY <3>1, <3>2
  <2> QED
    BY <2>2, <2>3
<1> HIDE DEF S
<1>4. InOrder(S) = [k \in 1 .. n |-> f[k - 1]]
  BY <1>1, <1>3 DEF InOrder, Lower
<1> QED
  BY <1>4 DEF S

\* as far apart as a number of ranks
Spaced(a, b, n) == {a + i * b : i \in 0 .. n - 1}

LEMMA Strided ==
  ASSUME NEW n \in Nat, NEW a \in Nat, NEW b \in Nat \ {0}
  PROVE  InOrder(Spaced(a, b, n)) = [k \in 1 .. n |-> a + (k - 1) * b]
<1> DEFINE f == [i \in 0 .. n - 1 |-> a + i * b]
<1>1. \A i \in 0 .. n - 1 : f[i] \in Int /\ f[i] = a + i * b
  OBVIOUS
<1>2. ASSUME NEW i \in 0 .. n - 1, NEW j \in 0 .. n - 1, i < j PROVE f[i] < f[j]
  <2>1. (i + 1) * b <= j * b
    BY <1>2, Monotone
  <2>2. (i + 1) * b = i * b + b /\ i * b \in Nat /\ j * b \in Nat
    OBVIOUS
  <2> QED
    BY <1>1, <2>1, <2>2
<1> HIDE DEF f
<1>3. InOrder({f[i] : i \in 0 .. n - 1}) = [k \in 1 .. n |-> f[k - 1]]
  BY <1>1, <1>2, Ascending
<1>4. Spaced(a, b, n) = {f[i] : i \in 0 .. n - 1}
  BY <1>1 DEF Spaced
<1>5. \A k \in 1 .. n : f[k - 1] = a + (k - 1) * b
  BY <1>1
<1> QED
  BY <1>3, <1>4, <1>5

LEMMA DigitOf ==
  ASSUME NEW d \in Nat \ {0}, NEW k \in Nat, NEW e \in 0 .. d - 1, NEW q, q = k * d + e
  PROVE  q \in Nat /\ q \div d = k /\ q % d = e
<1>1. PICK x \in Nat : x = k * d
  OBVIOUS
<1>2. q \in Nat /\ x <= q /\ q < x + d
  BY <1>1
<1>3. (k + 1) * d = x + d
  BY <1>1
<1>4. k <= q \div d /\ q \div d < k + 1 /\ q \div d \in Nat
  BY <1>1, <1>2, <1>3, QuotientBounds, Quotient
<1>5. q \div d = k
  BY <1>4
<1>6. q = d * k + (q % d) /\ q % d \in Int
  <2>1. q \in Nat /\ d \in Nat \ {0}
    BY <1>2
  <2>2. q = d * (q \div d) + (q % d) /\ q % d \in 0 .. d - 1
    BY <2>1, Division
  <2>3. q = d * k + (q % d)
    BY ONLY <1>5, <2>2, Zenon
  <2>4. q % d \in Int
    BY ONLY <2>1, <2>2
  <2> QED
    BY <2>3, <2>4
<1>7. d * k = x
  BY <1>1
<1> QED
  BY <1>1, <1>2, <1>5, <1>6, <1>7

\* The digits of a rank: outer, inner, and among the experts.
LEMMA Digits ==
  ASSUME NEW d \in Nat \ {0}, NEW n \in Nat \ {0}, NEW o \in Nat, NEW i \in 0 .. n - 1, NEW e \in 0 .. d - 1,
         NEW q, q = o * (n * d) + (i * d + e)
  PROVE  /\ q \in Nat /\ q \div (n * d) = o /\ q % (n * d) = i * d + e
         /\ q % d = e /\ q \div d = o * n + i /\ (i * d + e) \div d = i
         /\ i * d + e \in 0 .. n * d - 1 /\ n * d \in Nat \ {0}
<1> DEFINE s == n * d
           m == i * d + e
<1>1. s \in Nat \ {0} /\ m \in Nat /\ m < s
  <2>1. (i + 1) * d <= n * d
    BY Monotone
  <2>2. (i + 1) * d = i * d + d /\ i * d \in Nat /\ s \in Nat
    OBVIOUS
  <2>3. 1 * d <= n * d
    BY Monotone
  <2> QED
    BY <2>1, <2>2, <2>3
<1>2. m \div d = i
  BY DigitOf
<1>3. q = o * s + m
  OBVIOUS
<1> HIDE DEF s, m
<1>4. m \in 0 .. s - 1
  BY <1>1
<1>5. q \in Nat /\ q \div s = o /\ q % s = m
  BY <1>1, <1>3, <1>4, DigitOf
<1>6. q = (o * n + i) * d + e
  <2>1. o * (n * d) = (o * n) * d
    OBVIOUS
  <2>2. (o * n + i) * d = (o * n) * d + i * d
    OBVIOUS
  <2>3. o * (n * d) \in Nat /\ i * d \in Nat
    OBVIOUS
  <2> QED
    BY <2>1, <2>2, <2>3
<1>7. o * n + i \in Nat
  OBVIOUS
<1>8. q % d = e /\ q \div d = o * n + i
  <2>1. PICK k \in Nat : k = o * n + i
    BY <1>7
  <2>2. q = k * d + e
    BY <1>6, <2>1
  <2>3. q % d = e /\ q \div d = k
    BY ONLY <2>2, DigitOf, k \in Nat, d \in Nat \ {0}, e \in 0 .. d - 1
  <2> QED
    BY <2>1, <2>3
<1> QED
  BY <1>1, <1>2, <1>4, <1>5, <1>8 DEF s, m

\* and every number has them
LEMMA HasDigits ==
  ASSUME NEW d \in Nat \ {0}, NEW n \in Nat \ {0}, NEW q \in Nat
  PROVE  \E o \in Nat, i \in 0 .. n - 1, e \in 0 .. d - 1 : q = o * (n * d) + (i * d + e)
<1>1. PICK k \in Nat, e \in 0 .. d - 1 : q = d * k + e
  BY Division
<1>2. PICK o \in Nat, i \in 0 .. n - 1 : k = n * o + i
  BY Division
<1>3. d * k = o * (n * d) + i * d
  <2>1. d * (n * o + i) = d * (n * o) + d * i
    OBVIOUS
  <2>2. d * (n * o) = o * (n * d) /\ d * i = i * d
    OBVIOUS
  <2> QED
    BY <1>2, <2>1, <2>2
<1>4. o * (n * d) \in Nat /\ i * d \in Nat
  OBVIOUS
<1> QED
  BY <1>1, <1>3, <1>4

IsMesh(mesh) ==
  {mesh.outer, mesh.shard, mesh.ep} \subseteq Nat \ {0} /\ mesh.shard % mesh.ep = 0

\* how far the ranks of an inner group are apart, and how many they are
Stride(mesh, expert) == IF expert THEN mesh.ep ELSE 1
Inners(mesh, expert) == mesh.shard \div Stride(mesh, expert)
InnerOf(mesh, r, expert) == (r % mesh.shard) \div Stride(mesh, expert)

LEMMA MeshSizes ==
  ASSUME NEW mesh, IsMesh(mesh), NEW expert \in BOOLEAN
  PROVE  \E o \in Nat \ {0}, n \in Nat \ {0}, d \in Nat \ {0} :
           /\ o = mesh.outer /\ n = Inners(mesh, expert) /\ d = Stride(mesh, expert)
           /\ mesh.shard = n * d
<1>1. PICK o \in Nat \ {0}, s \in Nat \ {0}, d \in Nat \ {0} :
        o = mesh.outer /\ s = mesh.shard /\ d = Stride(mesh, expert)
  BY DEF IsMesh, Stride
<1>2. s % d = 0
  <2>1. CASE expert
    BY <1>1, <2>1 DEF IsMesh, Stride
  <2>2. CASE ~expert
    <3>1. d = 1 /\ s % 1 = 0
      BY <1>1, <2>2 DEF Stride
    <3> QED
      BY <3>1
  <2> QED
    BY <2>1, <2>2
<1>3. PICK n \in Nat, m \in 0 .. d - 1 : n = s \div d /\ m = s % d /\ s = d * n + m
  BY Division
<1>4. s = n * d
  <2>1. d * n = n * d /\ n * d \in Nat
    OBVIOUS
  <2> QED
    BY <1>2, <1>3, <2>1
<1>5. n # 0
  <2>1. n = 0 => n * d = 0
    OBVIOUS
  <2> QED
    BY <1>4, <2>1
<1> QED
  BY <1>1, <1>3, <1>4, <1>5 DEF Inners

LEMMA RankRange ==
  ASSUME NEW t \in Nat \ {0}, NEW s \in Nat \ {0}, NEW o \in Nat, NEW m \in 0 .. s - 1
  PROVE  o * s + m \in 0 .. t * s - 1 <=> o \in 0 .. t - 1
<1>1. PICK x \in Nat, y \in Nat : x = o * s /\ y = t * s
  OBVIOUS
<1>2. CASE o < t
  <2>1. (o + 1) * s <= t * s /\ (o + 1) * s = o * s + s
    BY <1>2, Monotone
  <2> QED
    BY <1>1, <1>2, <2>1
<1>3. CASE t <= o
  <2>1. t * s <= o * s
    BY <1>3, Monotone
  <2> QED
    BY <1>1, <1>3, <2>1
<1> QED
  BY <1>2, <1>3

\* the rank with these digits
RankAt(n, d, p, j, u) == p * (n * d) + (j * d + u)
Product(s, n, d) == s = n * d
DigitsAre(t, n, d, s, p, j, u, q) ==
  /\ s \in Nat \ {0} /\ q \in 0 .. t * s - 1 /\ q \div s = p /\ q % d = u
  /\ (q % s) \div d = j /\ q % s = RankAt(n, d, 0, j, u) /\ q % s \in 0 .. s - 1

LEMMA AtDigits ==
  ASSUME NEW t \in Nat \ {0}, NEW n \in Nat \ {0}, NEW d \in Nat \ {0}, NEW s, Product(s, n, d),
         NEW p \in 0 .. t - 1, NEW j \in 0 .. n - 1, NEW u \in 0 .. d - 1, NEW q, q = RankAt(n, d, p, j, u)
  PROVE  DigitsAre(t, n, d, s, p, j, u, q)
<1> DEFINE v == n * d
           m == j * d + u
<1>0. q = p * v + m
  BY DEF RankAt
<1>9. q = p * (n * d) + (j * d + u)
  BY <1>0
<1>1. /\ q \in Nat /\ q \div v = p /\ q % v = m /\ q % d = u
      /\ m \div d = j /\ m \in 0 .. v - 1 /\ v \in Nat \ {0}
  <2>1. q \in Nat
    BY ONLY <1>9, Digits, d \in Nat \ {0}, n \in Nat \ {0}, p \in Nat, j \in 0 .. n - 1, u \in 0 .. d - 1
  <2>2. q \div (n * d) = p
    BY ONLY <1>9, Digits, d \in Nat \ {0}, n \in Nat \ {0}, p \in Nat, j \in 0 .. n - 1, u \in 0 .. d - 1
  <2>4. q % d = u
    BY ONLY <1>9, Digits, d \in Nat \ {0}, n \in Nat \ {0}, p \in Nat, j \in 0 .. n - 1, u \in 0 .. d - 1
  <2>5. (j * d + u) \div d = j
    BY ONLY <1>9, Digits, d \in Nat \ {0}, n \in Nat \ {0}, p \in Nat, j \in 0 .. n - 1, u \in 0 .. d - 1
  <2>6. j * d + u \in 0 .. n * d - 1
    BY ONLY <1>9, Digits, d \in Nat \ {0}, n \in Nat \ {0}, p \in Nat, j \in 0 .. n - 1, u \in 0 .. d - 1
  <2>7. n * d \in Nat \ {0}
    BY ONLY <1>9, Digits, d \in Nat \ {0}, n \in Nat \ {0}, p \in Nat, j \in 0 .. n - 1, u \in 0 .. d - 1
  <2>3. q % (n * d) = j * d + u
    <3>1. PICK w \in Nat \ {0}, x \in Nat : w = n * d /\ x = j * d + u /\ x \in 0 .. w - 1
      BY <2>6, <2>7
    <3>4. x \in 0 .. w - 1
      BY <3>1
    <3>2. q = p * w + x
      BY <1>9, <3>1
    <3>3. q % w = x
      BY ONLY <3>4, w \in Nat \ {0}, <3>2, DigitOf, p \in Nat
    <3> QED
      BY <3>1, <3>3
  <2> QED
    BY <2>1, <2>2, <2>3, <2>4, <2>5, <2>6, <2>7
<1>2. s = v /\ RankAt(n, d, 0, j, u) = m
  <2>1. 0 * v = 0 /\ m \in Nat
    OBVIOUS
  <2>2. RankAt(n, d, 0, j, u) = 0 * v + m
    BY DEF RankAt
  <2> HIDE DEF m, v
  <2>3. RankAt(n, d, 0, j, u) = m
    BY ONLY <2>1, <2>2
  <2> QED
    BY <2>3 DEF Product, v
<1> HIDE DEF v, m
<1>3. p \in Nat
  OBVIOUS
<1>4. q \in 0 .. t * v - 1
  <2>1. p * v + m \in 0 .. t * v - 1 <=> p \in 0 .. t - 1
    BY ONLY <1>1, <1>3, t \in Nat \ {0}, RankRange
  <2> QED
    BY <1>0, <2>1
<1>5. s \in Nat \ {0} /\ q \in 0 .. t * s - 1 /\ q \div s = p /\ q % d = u
  BY ONLY <1>1, <1>2, <1>4
<1>6. (q % s) \div d = j /\ q % s = m /\ q % s \in 0 .. s - 1
  BY ONLY <1>1, <1>2
<1> QED
  BY ONLY <1>2, <1>5, <1>6 DEF DigitsAre

LEMMA AtEvery ==
  ASSUME NEW t \in Nat \ {0}, NEW n \in Nat \ {0}, NEW d \in Nat \ {0}, NEW s, Product(s, n, d),
         NEW q \in 0 .. t * s - 1
  PROVE  \E p \in 0 .. t - 1, j \in 0 .. n - 1, u \in 0 .. d - 1 : q = RankAt(n, d, p, j, u)
<1>1. n * d \in Nat \ {0}
  <2>1. 1 * d <= n * d
    BY Monotone
  <2> QED
    BY <2>1
<1>2. PICK v \in Nat \ {0} : v = n * d
  BY <1>1
<1>3. q \in Nat /\ q \in 0 .. t * v - 1
  BY <1>2 DEF Product
<1>4. PICK p \in Nat, j \in 0 .. n - 1, u \in 0 .. d - 1 : q = p * (n * d) + (j * d + u)
  BY <1>3, HasDigits
<1>5. j * d + u \in 0 .. n * d - 1
  BY ONLY <1>4, Digits, d \in Nat \ {0}, n \in Nat \ {0}, p \in Nat, j \in 0 .. n - 1, u \in 0 .. d - 1
<1>6. PICK m \in 0 .. v - 1 : m = j * d + u
  BY <1>2, <1>5
<1>7. q = p * v + m
  BY <1>2, <1>4, <1>6
<1>8. p * v + m \in 0 .. t * v - 1 <=> p \in 0 .. t - 1
  BY ONLY t \in Nat \ {0}, v \in Nat \ {0}, p \in Nat, m \in 0 .. v - 1, RankRange
<1>9. p \in 0 .. t - 1
  BY <1>3, <1>7, <1>8
<1> QED
  BY <1>4, <1>9 DEF RankAt

LEMMA AtSteps ==
  ASSUME NEW t \in Nat \ {0}, NEW n \in Nat \ {0}, NEW d \in Nat \ {0}, NEW s, Product(s, n, d),
         NEW p \in 0 .. t - 1, NEW j \in 0 .. n - 1, NEW u \in 0 .. d - 1
  PROVE  /\ RankAt(n, d, p, j, u) = RankAt(n, d, p, 0, u) + j * d
         /\ RankAt(n, d, p, j, u) = RankAt(n, d, 0, j, u) + p * s
         /\ RankAt(n, d, p, j, u) = u + (p * n + j) * d
         /\ p * n + j \in 0 .. t * n - 1
         /\ RankAt(n, d, p, j, u) \in Nat
<1>1. PICK x \in Nat, y \in Nat : x = p * (n * d) /\ y = j * d
  OBVIOUS
<1>2. RankAt(n, d, p, j, u) = x + (y + u)
  BY <1>1 DEF RankAt
<1>3. RankAt(n, d, p, 0, u) = x + u
  <2>1. 0 * d = 0
    OBVIOUS
  <2> QED
    BY <1>1, <2>1 DEF RankAt
<1>4. RankAt(n, d, 0, j, u) = y + u /\ p * s = x
  <2>1. 0 * (n * d) = 0
    OBVIOUS
  <2>2. p * s = x
    BY <1>1 DEF Product
  <2> QED
    BY <1>1, <2>1, <2>2 DEF RankAt
<1>5. (p * n + j) * d = x + y
  <2>1. (p * n + j) * d = (p * n) * d + j * d
    OBVIOUS
  <2>2. (p * n) * d = p * (n * d)
    OBVIOUS
  <2> QED
    BY <1>1, <2>1, <2>2
<1>6. p * n + j \in 0 .. t * n - 1
  BY RankRange
<1> QED
  BY ONLY <1>1, <1>2, <1>3, <1>4, <1>5, <1>6, u \in 0 .. d - 1, d \in Nat

\* the ranks of a group in ascending order
InnerList(n, d, o, e) == [k \in 1 .. n |-> RankAt(n, d, o, k - 1, e)]
OuterList(t, n, d, i, e) == [k \in 1 .. t |-> RankAt(n, d, k - 1, i, e)]
FlatList(w, d, e) == [k \in 1 .. w |-> e + (k - 1) * d]

LEMMA InnerListIs ==
  ASSUME NEW n \in Nat, NEW d, NEW o, NEW e, NEW f, f = InnerList(n, d, o, e)
  PROVE  Len(f) = n /\ DOMAIN f = 1 .. n /\ \A k \in 1 .. n : f[k] = RankAt(n, d, o, k - 1, e)
<1>1. f = [k \in 1 .. n |-> f[k]] /\ \A k \in 1 .. n : f[k] = RankAt(n, d, o, k - 1, e)
  BY DEF InnerList
<1>2. Len(f) = n /\ DOMAIN f = 1 .. n
  <2>1. [k \in 1 .. n |-> f[k]] \in Seq({f[k] : k \in 1 .. n})
    BY IsASeq
  <2>2. f \in Seq({f[k] : k \in 1 .. n})
    BY <1>1, <2>1
  <2> QED
    BY <1>1, <2>2, LenProperties
<1> QED
  BY <1>1, <1>2

LEMMA OuterListIs ==
  ASSUME NEW t \in Nat, NEW n, NEW d, NEW i, NEW e, NEW f, f = OuterList(t, n, d, i, e)
  PROVE  Len(f) = t /\ DOMAIN f = 1 .. t /\ \A k \in 1 .. t : f[k] = RankAt(n, d, k - 1, i, e)
<1>1. f = [k \in 1 .. t |-> f[k]] /\ \A k \in 1 .. t : f[k] = RankAt(n, d, k - 1, i, e)
  BY DEF OuterList
<1>2. Len(f) = t /\ DOMAIN f = 1 .. t
  <2>1. [k \in 1 .. t |-> f[k]] \in Seq({f[k] : k \in 1 .. t})
    BY IsASeq
  <2>2. f \in Seq({f[k] : k \in 1 .. t})
    BY <1>1, <2>1
  <2> QED
    BY <1>1, <2>2, LenProperties
<1> QED
  BY <1>1, <1>2

LEMMA FlatListIs ==
  ASSUME NEW w \in Nat, NEW d, NEW e, NEW f, f = FlatList(w, d, e)
  PROVE  Len(f) = w /\ DOMAIN f = 1 .. w /\ \A k \in 1 .. w : f[k] = e + (k - 1) * d
<1>1. f = [k \in 1 .. w |-> f[k]] /\ \A k \in 1 .. w : f[k] = e + (k - 1) * d
  BY DEF FlatList
<1>2. Len(f) = w /\ DOMAIN f = 1 .. w
  <2>1. [k \in 1 .. w |-> f[k]] \in Seq({f[k] : k \in 1 .. w})
    BY IsASeq
  <2>2. f \in Seq({f[k] : k \in 1 .. w})
    BY <1>1, <2>1
  <2> QED
    BY <1>1, <2>2, LenProperties
<1> QED
  BY <1>1, <1>2

\* the groups of the rank with these digits
LEMMA GroupsAt ==
  ASSUME NEW mesh, NEW expert \in BOOLEAN,
         NEW t \in Nat \ {0}, NEW n \in Nat \ {0}, NEW d \in Nat \ {0}, NEW s,
         t = mesh.outer, d = Stride(mesh, expert), mesh.shard = s, Product(s, n, d),
         NEW o \in 0 .. t - 1, NEW i \in 0 .. n - 1, NEW e \in 0 .. d - 1,
         NEW r, r = RankAt(n, d, o, i, e)
  PROVE  /\ r \in Ranks(mesh) /\ OuterRank(mesh, r) = o /\ InnerOf(mesh, r, expert) = i
         /\ expert => EpRank(mesh, r) = e
         /\ GetFsdpGroup(mesh, r, expert) = InnerList(n, d, o, e)
         /\ GetOuterFsdpGroup(mesh, r, expert) = OuterList(t, n, d, i, e)
         /\ InOrder(Peers(mesh, r, expert)) = FlatList(t * n, d, e)
<1>2. Ranks(mesh) = 0 .. t * s - 1
  BY DEF Ranks
<1>3. ASSUME NEW p \in 0 .. t - 1, NEW j \in 0 .. n - 1, NEW u \in 0 .. d - 1
      PROVE  LET q == RankAt(n, d, p, j, u)
             IN /\ q \in Ranks(mesh) /\ q \div s = p /\ q % d = u /\ (q % s) \div d = j
                /\ q % s = RankAt(n, d, 0, j, u) /\ s \in Nat \ {0}
  <2>1. PICK q : q = RankAt(n, d, p, j, u)
    OBVIOUS
  <2>2. DigitsAre(t, n, d, s, p, j, u, q)
    BY ONLY <2>1, AtDigits, Product(s, n, d), t \in Nat \ {0}, n \in Nat \ {0}, d \in Nat \ {0},
            p \in 0 .. t - 1, j \in 0 .. n - 1, u \in 0 .. d - 1
  <2> QED
    BY ONLY <1>2, <2>1, <2>2 DEF DigitsAre
<1>4. ASSUME NEW q \in Ranks(mesh)
      PROVE  \E p \in 0 .. t - 1, j \in 0 .. n - 1, u \in 0 .. d - 1 : q = RankAt(n, d, p, j, u)
  <2>1. q \in 0 .. t * s - 1
    BY <1>2
  <2> QED
    BY <2>1, AtEvery
<1>5. Peers(mesh, r, expert) = {q \in Ranks(mesh) : q % d = e}
  <2>1. CASE expert
    <3>1. r % d = e /\ d = mesh.ep
      BY <1>3, <2>1 DEF Stride
    <3> QED
      BY <2>1, <3>1 DEF Peers, EpRank
  <2>2. CASE ~expert
    <3>1. d = 1 /\ e = 0
      BY <2>2 DEF Stride
    <3>2. ASSUME NEW q \in Ranks(mesh) PROVE q % d = e
      BY <1>3, <1>4, <3>1
    <3> QED
      BY <2>2, <3>2 DEF Peers
  <2> QED
    BY <2>1, <2>2
<1>6. /\ r \in Ranks(mesh) /\ r \div s = o /\ r % s = RankAt(n, d, 0, i, e) /\ (r % s) \div d = i /\ r % d = e
  BY <1>3
<1>7. OuterRank(mesh, r) = o /\ InnerOf(mesh, r, expert) = i /\ (expert => EpRank(mesh, r) = e)
  BY <1>6 DEF OuterRank, InnerOf, EpRank, Stride
<1>71. 0 \in 0 .. n - 1 /\ 0 \in 0 .. t - 1 /\ e \in Nat /\ s \in Nat \ {0}
  BY <1>3
<1>8. GetFsdpGroup(mesh, r, expert) = InnerList(n, d, o, e)
  <2> DEFINE S == {q \in Peers(mesh, r, expert) : OuterRank(mesh, q) = OuterRank(mesh, r)}
  <2>1. PICK a \in Nat : a = RankAt(n, d, o, 0, e)
    BY <1>71, AtSteps
  <2>2. ASSUME NEW j \in 0 .. n - 1 PROVE RankAt(n, d, o, j, e) = a + j * d
    <3>1. RankAt(n, d, o, j, e) = RankAt(n, d, o, 0, e) + j * d
      BY ONLY AtSteps, t \in Nat \ {0}, n \in Nat \ {0}, d \in Nat \ {0}, Product(s, n, d), o \in 0 .. t - 1, j \in 0 .. n - 1, e \in 0 .. d - 1
    <3> QED
      BY <2>1, <3>1
  <2>3. ASSUME NEW q \in S PROVE \E j \in 0 .. n - 1 : q = RankAt(n, d, o, j, e)
    <3>1. q \in Ranks(mesh) /\ q % d = e /\ q \div s = o
      BY <1>5, <1>7 DEF OuterRank
    <3>2. PICK p \in 0 .. t - 1, j \in 0 .. n - 1, u \in 0 .. d - 1 : q = RankAt(n, d, p, j, u)
      BY <1>4, <3>1
    <3>3. p = o /\ u = e
      BY <1>3, <3>1, <3>2
    <3> QED
      BY <3>2, <3>3
  <2>4. ASSUME NEW j \in 0 .. n - 1 PROVE RankAt(n, d, o, j, e) \in S
    <3>1. PICK q : q = RankAt(n, d, o, j, e)
      OBVIOUS
    <3>2. q \in Ranks(mesh) /\ q % d = e /\ q \div s = o
      BY <1>3, <3>1
    <3>3. q \in S
      BY <1>5, <1>7, <3>2 DEF OuterRank
    <3> QED
      BY <3>1, <3>3
  <2> HIDE DEF S
  <2>5. S = Spaced(a, d, n)
    BY <2>2, <2>3, <2>4 DEF Spaced
  <2>6. InOrder(S) = [k \in 1 .. n |-> a + (k - 1) * d]
    BY ONLY <2>1, <2>5, n \in Nat \ {0}, d \in Nat \ {0}, Strided
  <2>7. ASSUME NEW k \in 1 .. n PROVE a + (k - 1) * d = RankAt(n, d, o, k - 1, e)
    <3>1. k - 1 \in 0 .. n - 1
      OBVIOUS
    <3> QED
      BY <2>2, <3>1
  <2> QED
    BY <2>6, <2>7 DEF GetFsdpGroup, S, InnerList
<1>9. GetOuterFsdpGroup(mesh, r, expert) = OuterList(t, n, d, i, e)
  <2> DEFINE S == {q \in Peers(mesh, r, expert) : InnerRank(mesh, q) = InnerRank(mesh, r)}
  <2>1. PICK a \in Nat : a = RankAt(n, d, 0, i, e)
    BY <1>71, AtSteps
  <2>2. ASSUME NEW p \in 0 .. t - 1 PROVE RankAt(n, d, p, i, e) = a + p * s
    <3>1. RankAt(n, d, p, i, e) = RankAt(n, d, 0, i, e) + p * s
      BY ONLY AtSteps, t \in Nat \ {0}, n \in Nat \ {0}, d \in Nat \ {0}, Product(s, n, d), p \in 0 .. t - 1, i \in 0 .. n - 1, e \in 0 .. d - 1
    <3> QED
      BY <2>1, <3>1
  <2>3. ASSUME NEW q \in S PROVE \E p \in 0 .. t - 1 : q = RankAt(n, d, p, i, e)
    <3>1. q \in Ranks(mesh) /\ q % d = e /\ q % s = r % s
      BY <1>5 DEF InnerRank
    <3>2. PICK p \in 0 .. t - 1, j \in 0 .. n - 1, u \in 0 .. d - 1 : q = RankAt(n, d, p, j, u)
      BY <1>4, <3>1
    <3>3. (q % s) \div d = j /\ q % d = u
      BY <1>3, <3>2
    <3>4. j = i /\ u = e
      BY <1>6, <3>1, <3>3
    <3> QED
      BY <3>2, <3>4
  <2>4. ASSUME NEW p \in 0 .. t - 1 PROVE RankAt(n, d, p, i, e) \in S
    <3>1. PICK q : q = RankAt(n, d, p, i, e)
      OBVIOUS
    <3>2. q \in Ranks(mesh) /\ q % d = e /\ q % s = RankAt(n, d, 0, i, e)
      BY <1>3, <3>1
    <3>3. q \in S
      BY <1>5, <1>6, <3>2 DEF InnerRank
    <3> QED
      BY <3>1, <3>3
  <2> HIDE DEF S
  <2>5. S = Spaced(a, s, t)
    BY <2>2, <2>3, <2>4 DEF Spaced
  <2>6. InOrder(S) = [k \in 1 .. t |-> a + (k - 1) * s]
    BY ONLY <1>71, <2>1, <2>5, t \in Nat \ {0}, Strided
  <2>7. ASSUME NEW k \in 1 .. t PROVE a + (k - 1) * s = RankAt(n, d, k - 1, i, e)
    <3>1. k - 1 \in 0 .. t - 1
      OBVIOUS
    <3> QED
      BY <2>2, <3>1
  <2> QED
    BY <2>6, <2>7 DEF GetOuterFsdpGroup, S, OuterList
<1>10. InOrder(Peers(mesh, r, expert)) = FlatList(t * n, d, e)
  <2> DEFINE S == Peers(mesh, r, expert)
  <2>1. PICK w \in Nat : w = t * n
    OBVIOUS
  <2>2. ASSUME NEW p \in 0 .. t - 1, NEW j \in 0 .. n - 1
        PROVE  p * n + j \in 0 .. w - 1 /\ RankAt(n, d, p, j, e) = e + (p * n + j) * d
    <3>1. p * n + j \in 0 .. t * n - 1 /\ RankAt(n, d, p, j, e) = e + (p * n + j) * d
      BY ONLY AtSteps, t \in Nat \ {0}, n \in Nat \ {0}, d \in Nat \ {0}, Product(s, n, d), p \in 0 .. t - 1, j \in 0 .. n - 1, e \in 0 .. d - 1
    <3> QED
      BY <2>1, <3>1
  <2>3. ASSUME NEW q \in S PROVE \E k \in 0 .. w - 1 : q = e + k * d
    <3>1. PICK p \in 0 .. t - 1, j \in 0 .. n - 1, u \in 0 .. d - 1 : q = RankAt(n, d, p, j, u)
      BY <1>4, <1>5
    <3>2. u = e
      BY <1>3, <1>5, <3>1
    <3>3. p * n + j \in 0 .. w - 1 /\ q = e + (p * n + j) * d
      BY <2>2, <3>1, <3>2
    <3> QED
      BY ONLY <3>3
  <2>4. ASSUME NEW k \in 0 .. w - 1 PROVE e + k * d \in S
    <3>1. k \in Nat
      OBVIOUS
    <3>2. PICK p \in Nat, j \in 0 .. n - 1 : k = n * p + j
      BY ONLY <3>1, n \in Nat \ {0}, Division
    <3>3. k = p * n + j
      BY <3>2
    <3>4. p \in 0 .. t - 1
      <4>1. p * n + j \in 0 .. t * n - 1
        BY <2>1, <3>3
      <4> QED
        BY ONLY <4>1, RankRange, t \in Nat \ {0}, n \in Nat \ {0}, p \in Nat, j \in 0 .. n - 1
    <3>5. RankAt(n, d, p, j, e) = e + k * d
      BY <2>2, <3>3, <3>4
    <3>6. RankAt(n, d, p, j, e) \in S
      <4>1. PICK q : q = RankAt(n, d, p, j, e)
        OBVIOUS
      <4>2. q \in Ranks(mesh) /\ q % d = e
        BY <1>3, <3>4, <4>1
      <4> QED
        BY <1>5, <4>1, <4>2
    <3> QED
      BY <3>5, <3>6
  <2> HIDE DEF S
  <2>5. S = Spaced(e, d, w)
    BY <2>3, <2>4 DEF Spaced
  <2>6. InOrder(S) = FlatList(w, d, e)
    BY ONLY <1>71, <2>1, <2>5, d \in Nat \ {0}, Strided DEF FlatList
  <2> QED
    BY <2>1, <2>6 DEF S
<1> QED
  BY <1>6, <1>7, <1>8, <1>9, <1>10

\* Every rank has digits.
LEMMA Place ==
  ASSUME NEW mesh, IsMesh(mesh), NEW expert \in BOOLEAN, NEW r \in Ranks(mesh)
  PROVE  \E t \in Nat \ {0}, n \in Nat \ {0}, d \in Nat \ {0} : \E s :
           /\ t = mesh.outer /\ d = Stride(mesh, expert) /\ mesh.shard = s /\ Product(s, n, d)
           /\ n = Inners(mesh, expert)
           /\ \E o \in 0 .. t - 1, i \in 0 .. n - 1, e \in 0 .. d - 1 : r = RankAt(n, d, o, i, e)
<1>1. PICK t \in Nat \ {0}, n \in Nat \ {0}, d \in Nat \ {0} :
        t = mesh.outer /\ n = Inners(mesh, expert) /\ d = Stride(mesh, expert) /\ mesh.shard = n * d
  BY MeshSizes
<1>2. PICK s : s = mesh.shard
  OBVIOUS
<1>3. Product(s, n, d)
  BY <1>1, <1>2 DEF Product
<1>4. r \in 0 .. t * s - 1
  BY <1>1, <1>2 DEF Ranks
<1>5. \E o \in 0 .. t - 1, i \in 0 .. n - 1, e \in 0 .. d - 1 : r = RankAt(n, d, o, i, e)
  BY ONLY <1>3, <1>4, AtEvery, t \in Nat \ {0}, n \in Nat \ {0}, d \in Nat \ {0}
<1> QED
  BY ONLY <1>1, <1>2, <1>3, <1>5, t \in Nat \ {0}, n \in Nat \ {0}, d \in Nat \ {0}

LEMMA InnerGroup ==
  ASSUME NEW mesh, IsMesh(mesh), NEW expert \in BOOLEAN, NEW r \in Ranks(mesh)
  PROVE  LET group == GetFsdpGroup(mesh, r, expert)
             n == Inners(mesh, expert)
             i == InnerOf(mesh, r, expert)
         IN /\ n \in Nat \ {0} /\ i \in 0 .. n - 1
            /\ Len(group) = n /\ DOMAIN group = 1 .. n /\ GroupRank(group, r) = i
            /\ \A k \in 1 .. n :
                 /\ group[k] \in Ranks(mesh) /\ GetFsdpGroup(mesh, group[k], expert) = group
                 /\ InnerOf(mesh, group[k], expert) = k - 1 /\ OuterRank(mesh, group[k]) = OuterRank(mesh, r)
                 /\ expert => EpRank(mesh, group[k]) = EpRank(mesh, r)
<1>1. PICK t \in Nat \ {0}, n \in Nat \ {0}, d \in Nat \ {0} : \E s :
           /\ t = mesh.outer /\ d = Stride(mesh, expert) /\ mesh.shard = s /\ Product(s, n, d)
           /\ n = Inners(mesh, expert)
           /\ \E o \in 0 .. t - 1, i \in 0 .. n - 1, e \in 0 .. d - 1 : r = RankAt(n, d, o, i, e)
  BY Place
<1>11. PICK s :
           /\ t = mesh.outer /\ d = Stride(mesh, expert) /\ mesh.shard = s /\ Product(s, n, d)
           /\ n = Inners(mesh, expert)
           /\ \E o \in 0 .. t - 1, i \in 0 .. n - 1, e \in 0 .. d - 1 : r = RankAt(n, d, o, i, e)
  BY <1>1
<1>12. PICK o \in 0 .. t - 1, i \in 0 .. n - 1, e \in 0 .. d - 1 : r = RankAt(n, d, o, i, e)
  BY <1>11
<1>2. /\ t = mesh.outer /\ d = Stride(mesh, expert) /\ mesh.shard = s /\ Product(s, n, d)
      /\ n = Inners(mesh, expert) /\ r = RankAt(n, d, o, i, e)
  BY <1>11, <1>12
<1>3. PICK group : group = GetFsdpGroup(mesh, r, expert)
  OBVIOUS
<1>4. /\ OuterRank(mesh, r) = o /\ InnerOf(mesh, r, expert) = i /\ (expert => EpRank(mesh, r) = e)
      /\ group = InnerList(n, d, o, e)
  BY ONLY <1>2, <1>3, GroupsAt, t \in Nat \ {0}, n \in Nat \ {0}, d \in Nat \ {0},
          o \in 0 .. t - 1, i \in 0 .. n - 1, e \in 0 .. d - 1, expert \in BOOLEAN
<1>5. Len(group) = n /\ DOMAIN group = 1 .. n
  BY <1>4, InnerListIs
<1>6. ASSUME NEW k \in 1 .. n
      PROVE  /\ group[k] \in Ranks(mesh) /\ GetFsdpGroup(mesh, group[k], expert) = group
             /\ InnerOf(mesh, group[k], expert) = k - 1 /\ OuterRank(mesh, group[k]) = o
             /\ expert => EpRank(mesh, group[k]) = e
  <2>1. k - 1 \in 0 .. n - 1
    OBVIOUS
  <2>2. group[k] = RankAt(n, d, o, k - 1, e)
    BY <1>4, InnerListIs
  <2>3. PICK q : q = RankAt(n, d, o, k - 1, e)
    OBVIOUS
  <2>4. /\ q \in Ranks(mesh) /\ OuterRank(mesh, q) = o /\ InnerOf(mesh, q, expert) = k - 1
        /\ expert => EpRank(mesh, q) = e
        /\ GetFsdpGroup(mesh, q, expert) = InnerList(n, d, o, e)
    BY ONLY <1>2, <2>1, <2>3, GroupsAt, t \in Nat \ {0}, n \in Nat \ {0}, d \in Nat \ {0},
            o \in 0 .. t - 1, i \in 0 .. n - 1, e \in 0 .. d - 1, expert \in BOOLEAN
  <2> QED
    BY <1>4, <2>2, <2>3, <2>4
<1>7. GroupRank(group, r) = i
  <2>1. i + 1 \in 1 .. n /\ i + 1 - 1 = i
    OBVIOUS
  <2>2. group[i + 1] = r
    BY <1>2, <1>4, <2>1, InnerListIs
  <2>3. \A k \in 1 .. n : group[k] = r => k = i + 1
    BY <1>4, <1>6
  <2> QED
    BY <1>5, <2>1, <2>2, <2>3 DEF GroupRank
<1> QED
  BY <1>2, <1>3, <1>4, <1>5, <1>6, <1>7

\* The same of its outer group.
LEMMA OuterGroupOf ==
  ASSUME NEW mesh, IsMesh(mesh), NEW expert \in BOOLEAN, NEW r \in Ranks(mesh)
  PROVE  LET group == GetOuterFsdpGroup(mesh, r, expert)
             t == mesh.outer
             o == OuterRank(mesh, r)
         IN /\ t \in Nat \ {0} /\ o \in 0 .. t - 1
            /\ Len(group) = t /\ DOMAIN group = 1 .. t /\ GroupRank(group, r) = o
            /\ \A k \in 1 .. t :
                 /\ group[k] \in Ranks(mesh) /\ GetOuterFsdpGroup(mesh, group[k], expert) = group
                 /\ OuterRank(mesh, group[k]) = k - 1
                 /\ InnerOf(mesh, group[k], expert) = InnerOf(mesh, r, expert)
                 /\ expert => EpRank(mesh, group[k]) = EpRank(mesh, r)
<1>1. PICK t \in Nat \ {0}, n \in Nat \ {0}, d \in Nat \ {0} : \E s :
           /\ t = mesh.outer /\ d = Stride(mesh, expert) /\ mesh.shard = s /\ Product(s, n, d)
           /\ n = Inners(mesh, expert)
           /\ \E o \in 0 .. t - 1, i \in 0 .. n - 1, e \in 0 .. d - 1 : r = RankAt(n, d, o, i, e)
  BY Place
<1>11. PICK s :
           /\ t = mesh.outer /\ d = Stride(mesh, expert) /\ mesh.shard = s /\ Product(s, n, d)
           /\ n = Inners(mesh, expert)
           /\ \E o \in 0 .. t - 1, i \in 0 .. n - 1, e \in 0 .. d - 1 : r = RankAt(n, d, o, i, e)
  BY <1>1
<1>12. PICK o \in 0 .. t - 1, i \in 0 .. n - 1, e \in 0 .. d - 1 : r = RankAt(n, d, o, i, e)
  BY <1>11
<1>2. /\ t = mesh.outer /\ d = Stride(mesh, expert) /\ mesh.shard = s /\ Product(s, n, d)
      /\ n = Inners(mesh, expert) /\ r = RankAt(n, d, o, i, e)
  BY <1>11, <1>12
<1>3. PICK group : group = GetOuterFsdpGroup(mesh, r, expert)
  OBVIOUS
<1>4. /\ OuterRank(mesh, r) = o /\ InnerOf(mesh, r, expert) = i /\ (expert => EpRank(mesh, r) = e)
      /\ group = OuterList(t, n, d, i, e)
  BY ONLY <1>2, <1>3, GroupsAt, t \in Nat \ {0}, n \in Nat \ {0}, d \in Nat \ {0},
          o \in 0 .. t - 1, i \in 0 .. n - 1, e \in 0 .. d - 1, expert \in BOOLEAN
<1>5. Len(group) = t /\ DOMAIN group = 1 .. t
  BY <1>4, OuterListIs
<1>6. ASSUME NEW k \in 1 .. t
      PROVE  /\ group[k] \in Ranks(mesh) /\ GetOuterFsdpGroup(mesh, group[k], expert) = group
             /\ InnerOf(mesh, group[k], expert) = i /\ OuterRank(mesh, group[k]) = k - 1
             /\ expert => EpRank(mesh, group[k]) = e
  <2>1. k - 1 \in 0 .. t - 1
    OBVIOUS
  <2>2. group[k] = RankAt(n, d, k - 1, i, e)
    BY <1>4, OuterListIs
  <2>3. PICK q : q = RankAt(n, d, k - 1, i, e)
    OBVIOUS
  <2>4. /\ q \in Ranks(mesh) /\ OuterRank(mesh, q) = k - 1 /\ InnerOf(mesh, q, expert) = i
        /\ expert => EpRank(mesh, q) = e
        /\ GetOuterFsdpGroup(mesh, q, expert) = OuterList(t, n, d, i, e)
    BY ONLY <1>2, <2>1, <2>3, GroupsAt, t \in Nat \ {0}, n \in Nat \ {0}, d \in Nat \ {0},
            o \in 0 .. t - 1, i \in 0 .. n - 1, e \in 0 .. d - 1, expert \in BOOLEAN
  <2> QED
    BY <1>4, <2>2, <2>3, <2>4
<1>7. GroupRank(group, r) = o
  <2>1. o + 1 \in 1 .. t /\ o + 1 - 1 = o
    OBVIOUS
  <2>2. group[o + 1] = r
    BY <1>2, <1>4, <2>1, OuterListIs
  <2>3. \A k \in 1 .. t : group[k] = r => k = o + 1
    BY <1>4, <1>6
  <2> QED
    BY <1>5, <2>1, <2>2, <2>3 DEF GroupRank
<1> QED
  BY <1>2, <1>3, <1>4, <1>5, <1>6, <1>7

\* All who share a parameter, counted row by row; and a rank's place as if the
\* inner group were the first to shard over.
LEMMA FlatGroup ==
  ASSUME NEW mesh, IsMesh(mesh), NEW expert \in BOOLEAN, NEW r \in Ranks(mesh)
  PROVE  LET group == InOrder(Peers(mesh, r, expert))
             n == Inners(mesh, expert)
         IN /\ Len(group) = mesh.outer * n /\ DOMAIN group = 1 .. mesh.outer * n
            /\ GroupRank(group, r) = OuterRank(mesh, r) * n + InnerOf(mesh, r, expert)
            /\ mesh.hybrid => GetLogicalHybridFsdpRank(mesh, r, expert)
                                = InnerOf(mesh, r, expert) * mesh.outer + OuterRank(mesh, r)
<1>1. PICK t \in Nat \ {0}, n \in Nat \ {0}, d \in Nat \ {0} : \E s :
           /\ t = mesh.outer /\ d = Stride(mesh, expert) /\ mesh.shard = s /\ Product(s, n, d)
           /\ n = Inners(mesh, expert)
           /\ \E o \in 0 .. t - 1, i \in 0 .. n - 1, e \in 0 .. d - 1 : r = RankAt(n, d, o, i, e)
  BY Place
<1>11. PICK s :
           /\ t = mesh.outer /\ d = Stride(mesh, expert) /\ mesh.shard = s /\ Product(s, n, d)
           /\ n = Inners(mesh, expert)
           /\ \E o \in 0 .. t - 1, i \in 0 .. n - 1, e \in 0 .. d - 1 : r = RankAt(n, d, o, i, e)
  BY <1>1
<1>12. PICK o \in 0 .. t - 1, i \in 0 .. n - 1, e \in 0 .. d - 1 : r = RankAt(n, d, o, i, e)
  BY <1>11
<1>2. /\ t = mesh.outer /\ d = Stride(mesh, expert) /\ mesh.shard = s /\ Product(s, n, d)
      /\ n = Inners(mesh, expert) /\ r = RankAt(n, d, o, i, e)
  BY <1>11, <1>12
<1>3. PICK group : group = InOrder(Peers(mesh, r, expert))
  OBVIOUS
<1>4. PICK w \in Nat : w = t * n
  OBVIOUS
<1>5. /\ OuterRank(mesh, r) = o /\ InnerOf(mesh, r, expert) = i
      /\ group = FlatList(w, d, e)
  BY ONLY <1>2, <1>3, <1>4, GroupsAt, t \in Nat \ {0}, n \in Nat \ {0}, d \in Nat \ {0},
          o \in 0 .. t - 1, i \in 0 .. n - 1, e \in 0 .. d - 1, expert \in BOOLEAN
<1>6. Len(group) = w /\ DOMAIN group = 1 .. w
  BY <1>5, FlatListIs
<1>7. PICK f \in 0 .. w - 1 : f = o * n + i /\ r = e + f * d
  <2>3. Product(s, n, d)
    BY <1>2
  <2>1. o * n + i \in 0 .. t * n - 1 /\ RankAt(n, d, o, i, e) = e + (o * n + i) * d
    BY ONLY <2>3, AtSteps, t \in Nat \ {0}, n \in Nat \ {0}, d \in Nat \ {0}, o \in 0 .. t - 1,
            i \in 0 .. n - 1, e \in 0 .. d - 1
  <2> QED
    BY <1>2, <1>4, <2>1
<1>8. GroupRank(group, r) = f
  <2>1. f + 1 \in 1 .. w /\ f + 1 - 1 = f
    OBVIOUS
  <2>2. group[f + 1] = r
    BY <1>5, <1>7, <2>1, FlatListIs
  <2>3. ASSUME NEW k \in 1 .. w, group[k] = r PROVE k = f + 1
    <3>1. PICK l \in Nat : l = k - 1
      OBVIOUS
    <3>2. r = e + l * d
      BY <1>5, <2>3, <3>1, FlatListIs
    <3>3. l * d = f * d
      <4>1. l * d \in Nat /\ f * d \in Nat /\ e \in Nat
        OBVIOUS
      <4> QED
        BY <1>7, <3>2, <4>1
    <3>4. (l * d) \div d = l /\ (f * d) \div d = f
      <4>1. 0 \in 0 .. d - 1 /\ l * d = l * d + 0 /\ f * d = f * d + 0
        OBVIOUS
      <4>2. f \in Nat
        OBVIOUS
      <4> QED
        BY ONLY <4>1, <4>2, DigitOf, l \in Nat, d \in Nat \ {0}
    <3> QED
      BY <3>1, <3>3, <3>4
  <2> QED
    BY <1>6, <2>1, <2>2, <2>3 DEF GroupRank
<1>9. f \div n = o /\ f % n = i
  BY <1>7, DigitOf
<1>10. mesh.hybrid => GetLogicalHybridFsdpRank(mesh, r, expert) = i * t + o
  <2>1. SUFFICES ASSUME mesh.hybrid PROVE GetLogicalHybridFsdpRank(mesh, r, expert) = i * t + o
    OBVIOUS
  <2>2. GetDpGroup(mesh, r, expert) = group
    BY <1>3, <2>1 DEF GetDpGroup
  <2>3. Len(GetFsdpGroup(mesh, r, expert)) = n
    BY <1>2, InnerGroup
  <2>4. Len(GetOuterFsdpGroup(mesh, r, expert)) = t
    BY <1>2, OuterGroupOf
  <2> QED
    BY <1>8, <1>9, <2>2, <2>3, <2>4 DEF GetLogicalHybridFsdpRank
<1> QED
  BY <1>2, <1>3, <1>4, <1>5, <1>6, <1>7, <1>8, <1>10

----------------------------------------------------------------------------
(* Slices of buffers, and buffers end to end.                              *)

Array(s, n) == s = [k \in 1 .. n |-> s[k]]

LEMMA LengthOf ==
  ASSUME NEW n \in Nat, NEW s, Array(s, n) PROVE Len(s) = n /\ DOMAIN s = 1 .. n
<1>1. [k \in 1 .. n |-> s[k]] \in Seq({s[k] : k \in 1 .. n})
  BY IsASeq
<1>2. s \in Seq({s[k] : k \in 1 .. n})
  BY <1>1 DEF Array
<1> QED
  BY <1>2, LenProperties DEF Array

LEMMA SameArray ==
  ASSUME NEW n, NEW s, NEW t, Array(s, n), Array(t, n), \A k \in 1 .. n : s[k] = t[k] PROVE s = t
BY DEF Array

LEMMA EmptyArray ==
  ASSUME NEW n \in Nat, NEW s, Array(s, n) PROVE s = <<>> <=> n = 0
<1>1. CASE n = 0
  <2>1. 1 .. n = {}
    BY <1>1
  <2> QED
    BY <1>1, <2>1 DEF Array
<1>2. CASE n # 0
  <2>1. Len(s) = n /\ Len(<<>>) = 0
    BY LengthOf
  <2> QED
    BY <1>2, <2>1
<1> QED
  BY <1>1, <1>2

IsPart(p, s, start, size) ==
  /\ Array(p, size)
  /\ \A k \in 1 .. size : p[k] = s[start + k]

LEMMA PartIs ==
  ASSUME NEW n \in Nat, NEW s, Array(s, n), NEW start \in Nat, NEW size \in Nat, start + size <= n
  PROVE  IsPart(Part(s, start, size), s, start, size)
<1> DEFINE cells == {s[k] : k \in 1 .. n}
           t == SubSeq(s, start + 1, start + size)
<1>1. \A k \in start + 1 .. start + size : s[k] \in cells
  OBVIOUS
<1> HIDE DEF cells
<1>2. PICK m \in Int, hi \in Int : m = start + 1 /\ hi = start + size
  OBVIOUS
<1>3. /\ SubSeq(s, m, hi) \in Seq(cells)
      /\ Len(SubSeq(s, m, hi)) = IF m <= hi THEN hi - m + 1 ELSE 0
      /\ \A k \in 1 .. hi - m + 1 : SubSeq(s, m, hi)[k] = s[m + k - 1]
  <2>1. \A k \in m .. hi : s[k] \in cells
    BY <1>1, <1>2
  <2> QED
    BY <2>1, SubSeqProperties
<1>4. t \in Seq(cells) /\ Len(t) = size
  <2>1. t = SubSeq(s, m, hi)
    BY <1>2
  <2>2. (IF m <= hi THEN hi - m + 1 ELSE 0) = size
    BY <1>2
  <2> QED
    BY <1>3, <2>1, <2>2
<1>5. ASSUME NEW k \in 1 .. size PROVE t[k] = s[start + k]
  <2>1. k \in 1 .. hi - m + 1 /\ m + k - 1 = start + k /\ t = SubSeq(s, m, hi)
    BY <1>2
  <2> QED
    BY <1>3, <2>1
<1> HIDE DEF t
<1>6. t = [k \in 1 .. size |-> t[k]]
  BY <1>4, LenProperties
<1> QED
  BY <1>5, <1>6 DEF Array, Part, IsPart, t

LEMMA PasteIs ==
  ASSUME NEW n \in Nat, NEW s, Array(s, n), NEW size \in Nat, NEW p, Array(p, size), NEW start
  PROVE  /\ Array(Paste(s, start, p), n)
         /\ \A k \in 1 .. n : Paste(s, start, p)[k] =
                                IF k > start /\ k <= start + size THEN p[k - start] ELSE s[k]
<1>1. DOMAIN s = 1 .. n /\ Len(p) = size
  BY LengthOf
<1> QED
  BY <1>1 DEF Paste, Array

IsJoined(r, s, n, t, m) ==
  /\ Array(r, n + m)
  /\ \A k \in 1 .. n : r[k] = s[k]
  /\ \A k \in 1 .. m : r[n + k] = t[k]

LEMMA Joined ==
  ASSUME NEW n \in Nat, NEW s, Array(s, n), NEW m \in Nat, NEW t, Array(t, m)
  PROVE  IsJoined(s \o t, s, n, t, m)
<1> DEFINE cells == {s[k] : k \in 1 .. n} \cup {t[k] : k \in 1 .. m}
<1>1. [k \in 1 .. n |-> s[k]] \in Seq(cells) /\ [k \in 1 .. m |-> t[k]] \in Seq(cells)
  BY IsASeq
<1> HIDE DEF cells
<1>2. s \in Seq(cells) /\ t \in Seq(cells)
  BY <1>1 DEF Array
<1>3. Len(s) = n /\ Len(t) = m
  BY LengthOf
<1>4. /\ s \o t \in Seq(cells) /\ Len(s \o t) = n + m
      /\ \A k \in 1 .. n + m : (s \o t)[k] = IF k <= n THEN s[k] ELSE t[k - n]
  BY <1>2, <1>3, ConcatProperties
<1>5. Array(s \o t, n + m)
  BY <1>4, LenProperties DEF Array
<1>6. ASSUME NEW k \in 1 .. m PROVE (s \o t)[n + k] = t[k]
  <2>1. n + k \in 1 .. n + m /\ ~(n + k <= n) /\ n + k - n = k
    OBVIOUS
  <2> QED
    BY <1>4, <2>1
<1>7. \A k \in 1 .. n : (s \o t)[k] = s[k]
  BY <1>4
<1> QED
  BY <1>5, <1>6, <1>7 DEF IsJoined

\* Pieces of the same size end to end.
Laid(s, w, i) == [k \in 1 .. i * w |-> s[((k - 1) \div w) + 1][((k - 1) % w) + 1]]

LEMMA FlattenChosen ==
  ASSUME NEW n \in Nat \ {0}, NEW s, Array(s, n)
  PROVE  FlattenSeq(s) = (CHOOSE f : Flattens(f, s, n))[n]
<1>1. Len(s) = n
  BY LengthOf
<1> QED
  BY <1>1, FlattenByTable

LEMMA LaidFirst ==
  ASSUME NEW w \in Nat \ {0}, NEW s, Array(s[1], w) PROVE Laid(s, w, 1) = s[1]
<1>1. 1 * w = w
  OBVIOUS
<1>2. ASSUME NEW k \in 1 .. w PROVE (k - 1) \div w = 0 /\ (k - 1) % w = k - 1
  <2>1. PICK e \in Nat : e = k - 1 /\ e \in 0 .. w - 1
    OBVIOUS
  <2>2. PICK z \in Nat : z = 0 /\ e = z * w + e
    <3>1. 0 * w = 0
      OBVIOUS
    <3> QED
      BY <3>1
  <2>3. e \in 0 .. w - 1 /\ e = z * w + e
    BY <2>1, <2>2
  <2>4. e \div w = z /\ e % w = e
    BY ONLY <2>3, DigitOf, w \in Nat \ {0}, z \in Nat
  <2> QED
    BY <2>1, <2>2, <2>4
<1>3. Laid(s, w, 1) = [k \in 1 .. w |-> s[1][k]]
  <2>1. \A k \in 1 .. w : s[((k - 1) \div w) + 1][((k - 1) % w) + 1] = s[1][k]
    BY <1>2
  <2> QED
    BY <1>1, <2>1 DEF Laid
<1> QED
  BY <1>3 DEF Array

LEMMA LaidAt ==
  ASSUME NEW w \in Nat \ {0}, NEW s, NEW i \in Nat, NEW a \in 1 .. i, NEW j \in 1 .. w
  PROVE  (a - 1) * w + j \in 1 .. i * w /\ Laid(s, w, i)[(a - 1) * w + j] = s[a][j]
<1>1. PICK p \in Nat, e \in Nat : p = a - 1 /\ e = j - 1 /\ e \in 0 .. w - 1
  OBVIOUS
<1>2. PICK x \in Nat : x = p * w
  OBVIOUS
<1>3. (x + e) \div w = p /\ (x + e) % w = e
  <2>1. PICK q : q = x + e
    OBVIOUS
  <2>2. q = p * w + e /\ e \in 0 .. w - 1
    BY <1>1, <1>2, <2>1
  <2>3. q \div w = p /\ q % w = e
    BY ONLY <2>2, DigitOf, w \in Nat \ {0}, p \in Nat
  <2> QED
    BY <2>1, <2>3
<1>4. x + j \in 1 .. i * w
  <2>1. (p + 1) * w <= i * w
    BY <1>1, Monotone
  <2>2. (p + 1) * w = x + w
    BY <1>2
  <2>3. i * w \in Nat
    OBVIOUS
  <2> QED
    BY <2>1, <2>2, <2>3
<1>5. (a - 1) * w + j = x + j
  BY <1>1, <1>2
<1>6. PICK k \in 1 .. i * w : k = x + j
  BY <1>4
<1>7. Laid(s, w, i)[k] = s[((k - 1) \div w) + 1][((k - 1) % w) + 1]
  BY DEF Laid
<1>8. (k - 1) \div w = p /\ (k - 1) % w = e /\ p + 1 = a /\ e + 1 = j
  <2>1. k - 1 = x + e /\ p + 1 = a /\ e + 1 = j
    BY <1>1, <1>6
  <2> QED
    BY <1>3, <2>1
<1>9. Laid(s, w, i)[k] = s[a][j]
  BY <1>7, <1>8
<1> QED
  BY <1>4, <1>5, <1>6, <1>9

LEMMA LaidNext ==
  ASSUME NEW w \in Nat \ {0}, NEW s, NEW i \in Nat \ {0}, Array(s[i + 1], w)
  PROVE  Laid(s, w, i) \o s[i + 1] = Laid(s, w, i + 1)
<1>1. PICK y \in Nat : y = i * w /\ (i + 1) * w = y + w
  OBVIOUS
<1> DEFINE u == Laid(s, w, i)
           v == Laid(s, w, i + 1)
<1>2. Array(u, y) /\ Array(v, y + w)
  BY <1>1 DEF Laid, Array
<1>3. \A k \in 1 .. y : u[k] = v[k]
  BY <1>1 DEF Laid
<1>4. ASSUME NEW j \in 1 .. w PROVE v[y + j] = s[i + 1][j]
  <2>1. i + 1 \in 1 .. i + 1 /\ i + 1 - 1 = i /\ i + 1 \in Nat
    OBVIOUS
  <2>2. Laid(s, w, i + 1)[(i + 1 - 1) * w + j] = s[i + 1][j]
    BY <2>1, LaidAt
  <2> QED
    BY <1>1, <2>1, <2>2
<1> HIDE DEF u, v
<1>5. PICK t, r : t = s[i + 1] /\ Array(t, w) /\ r = u \o t
  BY <1>1
<1>6. Array(r, y + w) /\ (\A k \in 1 .. y : r[k] = u[k]) /\ \A k \in 1 .. w : r[y + k] = t[k]
  <2>1. Array(u, y) /\ Array(t, w) /\ y \in Nat /\ w \in Nat /\ r = u \o t
    BY <1>2, <1>5
  <2>2. IsJoined(u \o t, u, y, t, w)
    BY <2>1, Joined
  <2> QED
    BY <2>1, <2>2 DEF IsJoined
<1>7. ASSUME NEW k \in 1 .. y + w PROVE r[k] = v[k]
  <2>1. CASE k <= y
    <3>1. k \in 1 .. y
      BY <2>1
    <3> QED
      BY <1>3, <1>6, <3>1
  <2>2. CASE ~(k <= y)
    <3>1. PICK j \in 1 .. w : k = y + j
      <4>1. k - y \in 1 .. w /\ k = y + (k - y)
        BY <2>2
      <4> QED
        BY <4>1
    <3> QED
      BY <1>4, <1>5, <1>6, <3>1
  <2> QED
    BY <2>1, <2>2
<1>8. r = v
  BY <1>2, <1>6, <1>7, SameArray
<1> QED
  BY <1>5, <1>8 DEF u, v

IsFlat(f, s, n, w) ==
  /\ Array(f, n * w)
  /\ \A i \in 1 .. n, j \in 1 .. w : f[(i - 1) * w + j] = s[i][j]

LEMMA FlattenIs ==
  ASSUME NEW n \in Nat \ {0}, NEW w \in Nat \ {0}, NEW s, Array(s, n), \A i \in 1 .. n : Array(s[i], w)
  PROVE  IsFlat(FlattenSeq(s), s, n, w)
<1> DEFINE g == [i \in 1 .. n |-> Laid(s, w, i)]
           f == CHOOSE f : Flattens(f, s, n)
<1>1. Flattens(g, s, n)
  <2>1. ASSUME NEW i \in 1 .. n PROVE Laid(s, w, i) = IF i = 1 THEN s[i] ELSE g[i - 1] \o s[i]
    <3>1. CASE i = 1
      BY <3>1, LaidFirst
    <3>2. CASE i # 1
      <4>1. PICK p \in Nat \ {0} : p = i - 1 /\ i = p + 1 /\ p \in 1 .. n
        BY <3>2
      <4>2. Laid(s, w, p) \o s[p + 1] = Laid(s, w, p + 1)
        BY <4>1, LaidNext
      <4> QED
        BY <3>2, <4>1, <4>2
    <3> QED
      BY <3>1, <3>2
  <2> QED
    BY <2>1 DEF Flattens
<1> HIDE DEF g
<1>2. Flattens(f, s, n)
  BY <1>1
<1> HIDE DEF f
<1>3. FlattenSeq(s) = f[n]
  BY FlattenChosen DEF f
<1>4. f[n] = g[n]
  <2> DEFINE S == {k \in Nat : k + 1 \in 1 .. n => f[k + 1] = g[k + 1]}
  <2>1. 0 \in S
    <3>1. f[1] = s[1] /\ g[1] = s[1]
      BY <1>1, <1>2 DEF Flattens
    <3> QED
      BY <3>1
  <2>2. ASSUME NEW k \in Nat, k \in S PROVE k + 1 \in S
    <3>1. SUFFICES ASSUME k + 1 + 1 \in 1 .. n PROVE f[k + 1 + 1] = g[k + 1 + 1]
      OBVIOUS
    <3>2. k + 1 \in 1 .. n /\ k + 1 + 1 # 1 /\ k + 1 + 1 - 1 = k + 1
      BY <3>1
    <3>3. f[k + 1] = g[k + 1]
      BY <2>2, <3>2
    <3>4. PICK i : i = k + 1 + 1 /\ i \in 1 .. n /\ i # 1 /\ i - 1 = k + 1
      BY <3>1, <3>2
    <3>5. f[i] = f[i - 1] \o s[i] /\ g[i] = g[i - 1] \o s[i]
      BY <1>1, <1>2, <3>4 DEF Flattens
    <3> QED
      BY <3>3, <3>4, <3>5
  <2> HIDE DEF S
  <2>3. Nat \subseteq S
    BY <2>1, <2>2, Induct
  <2>4. n - 1 \in Nat /\ n - 1 + 1 = n
    OBVIOUS
  <2> QED
    BY <2>3, <2>4 DEF S
<1>5. FlattenSeq(s) = Laid(s, w, n)
  BY <1>3, <1>4 DEF g
<1>6. Array(Laid(s, w, n), n * w)
  BY DEF Laid, Array
<1>7. \A i \in 1 .. n, j \in 1 .. w : Laid(s, w, n)[(i - 1) * w + j] = s[i][j]
  BY LaidAt
<1> QED
  BY <1>5, <1>6, <1>7 DEF IsFlat

----------------------------------------------------------------------------
(* Where a rank's weights are.                                             *)

Full == job.strategy = "optim_grads_params"

\* a group with a layout
Shaped(g) ==
  /\ g.attrs.expert \in BOOLEAN /\ g.attrs.requires_grad \in BOOLEAN
  /\ g.plan.shard_size \in Nat \ {0}
  /\ Len(g.params) \in Nat \ {0} /\ DOMAIN g.params = 1 .. Len(g.params)
  /\ \A i \in DOMAIN g.params : g.params[i] \in Param

\* The bucket is n inner buffers of w elements, the i-th of which is the rank's;
\* the s elements after the first lo of it are the rank's own.
Lay(r, g, n, w, s, i, lo) ==
  /\ n \in Nat \ {0} /\ w \in Nat \ {0} /\ s \in Nat \ {0} /\ i \in 0 .. n - 1 /\ lo \in Nat
  /\ lo + s <= w /\ i * w \in Nat /\ i * w + w <= n * w /\ n * w \in Nat \ {0}
  /\ BucketSize(g) = n * w /\ WeightSize(g) = w /\ ShardSize(g) = s
  /\ InnerStart(r, g, w) = i * w /\ ViewStart(r, g, w) = lo /\ ShardStart(r, g) = i * w + lo
  /\ ~Hfsdp => lo = 0 /\ s = w

LEMMA MeshOfJob ==
  ASSUME job \in Jobs PROVE IsMesh(job.mesh) /\ 0 \in Rank
<1>1. IsMesh(job.mesh)
  BY JobsAssumption DEF IsMesh
<1>2. PICK x \in Nat \ {0}, y \in Nat \ {0} : x = job.mesh.outer /\ y = job.mesh.shard
  BY <1>1 DEF IsMesh
<1>3. PICK z \in Nat \ {0} : z = x * y
  <2>1. 1 * y <= x * y
    BY Monotone
  <2> QED
    BY <2>1
<1>4. 0 \in 0 .. z - 1
  OBVIOUS
<1> QED
  BY <1>1, <1>2, <1>3, <1>4 DEF Rank, Ranks

\* buffers of the inner group fill the bucket
LEMMA InnerBuffers ==
  ASSUME NEW n \in Nat \ {0}, NEW w \in Nat \ {0}, NEW i \in 0 .. n - 1, NEW g, NEW r, Full,
         BucketSize(g) = n * w, Len(FsdpGroup(0, g)) = n, GroupRank(FsdpGroup(r, g), r) = i
  PROVE  /\ i * w \in Nat /\ i * w + w <= n * w /\ n * w \in Nat \ {0}
         /\ WeightSize(g) = w /\ InnerStart(r, g, w) = i * w
<1>1. PICK x \in Nat, y \in Nat : x = i * w /\ y = n * w /\ (i + 1) * w = x + w
  <2>1. i \in Nat /\ (i + 1) * w = i * w + w
    OBVIOUS
  <2> QED
    BY <2>1
<1>2. x + w <= y
  <2>1. i \in Nat /\ i + 1 \in Nat /\ i + 1 <= n
    OBVIOUS
  <2>2. (i + 1) * w <= n * w
    BY <2>1, Monotone
  <2> QED
    BY <1>1, <2>2
<1>3. y \div n = w
  <2>1. y = w * n + 0 /\ 0 \in 0 .. n - 1 /\ w \in Nat
    <3>1. n * w = w * n
      OBVIOUS
    <3> QED
      BY <1>1, <3>1
  <2> QED
    BY ONLY <2>1, DigitOf, n \in Nat \ {0}
<1>4. WeightSize(g) = w
  <2>1. CASE n > 1
    BY <1>1, <1>3, <2>1 DEF WeightSize, InnerSize, WeightsDistributed, Full
  <2>2. CASE n = 1
    <3>1. y = w
      BY <1>1, <2>2
    <3>2. BucketSize(g) = w
      BY <1>1, <3>1
    <3>3. ~(Len(FsdpGroup(0, g)) > 1)
      <4>1. Len(FsdpGroup(0, g)) = 1
        BY <2>2
      <4>2. \A k : k = 1 => ~(k > 1)
        OBVIOUS
      <4> QED
        BY ONLY <4>1, <4>2
    <3> QED
      BY ONLY <3>2, <3>3, Zenon DEF WeightSize, InnerSize, WeightsDistributed
  <2> QED
    BY <2>1, <2>2
<1>5. InnerStart(r, g, w) = i * w
  <2>1. CASE w = y
    <3>1. x = 0
      BY <1>1, <1>2, <2>1
    <3> QED
      BY <1>1, <2>1, <3>1 DEF InnerStart
  <2>2. CASE w # y
    BY <1>1, <2>2 DEF InnerStart
  <2> QED
    BY <2>1, <2>2
<1> QED
  BY <1>1, <1>2, <1>4, <1>5

LEMMA Geometry ==
  ASSUME job \in Jobs, Full, NEW g, Shaped(g), NEW r \in Rank
  PROVE  LET n == Inners(job.mesh, g.attrs.expert)
             s == g.plan.shard_size
             t == IF Hfsdp THEN job.mesh.outer ELSE 1
             o == IF Hfsdp THEN OuterRank(job.mesh, r) ELSE 0
         IN /\ Lay(r, g, n, t * s, s, InnerOf(job.mesh, r, g.attrs.expert), o * s)
            /\ Len(FsdpGroup(0, g)) = n
<1>1. IsMesh(job.mesh) /\ 0 \in Ranks(job.mesh) /\ r \in Ranks(job.mesh)
  BY MeshOfJob DEF Rank
<1>2. PICK x \in BOOLEAN : x = g.attrs.expert
  BY DEF Shaped
<1>3. PICK s \in Nat \ {0} : s = g.plan.shard_size
  BY DEF Shaped
<1>4. PICK n \in Nat \ {0}, i \in Nat : /\ n = Inners(job.mesh, x) /\ i = InnerOf(job.mesh, r, x) /\ i \in 0 .. n - 1
        /\ Len(FsdpGroup(0, g)) = n /\ Len(FsdpGroup(r, g)) = n /\ GroupRank(FsdpGroup(r, g), r) = i
  BY <1>1, <1>2, InnerGroup DEF FsdpGroup
<1>5. PICK t \in Nat \ {0}, o \in Nat : /\ t = job.mesh.outer /\ o = OuterRank(job.mesh, r) /\ o \in 0 .. t - 1
        /\ GroupRank(OuterGroup(r, g), r) = o
  BY <1>1, <1>2, OuterGroupOf DEF OuterGroup
<1>6. CASE Hfsdp
  <2>1. PICK w \in Nat \ {0}, lo \in Nat : w = t * s /\ lo = o * s /\ lo + s <= w
    <3>1. (o + 1) * s = o * s + s /\ t * s \in Nat /\ o * s \in Nat /\ o + 1 \in Nat
      OBVIOUS
    <3>2. o + 1 <= t
      BY <1>5
    <3>3. (o + 1) * s <= t * s
      BY ONLY <3>1, <3>2, Monotone, t \in Nat \ {0}, s \in Nat \ {0}
    <3>4. PICK w \in Nat, lo \in Nat : w = t * s /\ lo = o * s
      BY <3>1
    <3>5. lo + s <= w /\ w # 0
      BY <3>1, <3>3, <3>4
    <3> QED
      BY <3>4, <3>5
  <2>2. job.mesh.hybrid /\ Hfsdp
    BY <1>6 DEF Hfsdp
  <2>3. /\ Len(InOrder(Peers(job.mesh, 0, x))) = t * n
        /\ GetLogicalHybridFsdpRank(job.mesh, r, x) = i * t + o
    BY <1>1, <1>4, <1>5, <2>2, FlatGroup
  <2>4. BucketSize(g) = t * n * s
    BY <1>2, <1>3, <2>2, <2>3 DEF BucketSize, MainGroup, DpGroup, GetDpGroup
  <2>5. ShardStart(r, g) = (i * t + o) * s /\ ShardSize(g) = s
    BY <1>2, <1>3, <2>2, <2>3 DEF ShardStart, ShardSize, MainRank, HasWeights, Full
  <2>6. ViewStart(r, g, w) = lo
    BY <1>3, <1>5, <2>1, <2>2 DEF ViewStart
  <2>7. t * n * s = n * w /\ (i * t + o) * s = i * w + lo
    <3>1. t * n * s = n * (t * s) /\ (i * t + o) * s = i * (t * s) + o * s
      OBVIOUS
    <3> QED
      BY <2>1, <3>1
  <2>8. /\ i * w \in Nat /\ i * w + w <= n * w /\ n * w \in Nat \ {0}
        /\ WeightSize(g) = w /\ InnerStart(r, g, w) = i * w
    <3>1. i \in 0 .. n - 1 /\ BucketSize(g) = n * w
      BY <1>4, <2>4, <2>7
    <3>2. Len(FsdpGroup(0, g)) = n /\ GroupRank(FsdpGroup(r, g), r) = i
      BY <1>4
    <3> QED
      BY ONLY <3>1, <3>2, Full, n \in Nat \ {0}, w \in Nat \ {0}, InnerBuffers
  <2>9. Lay(r, g, n, w, s, i, lo)
    BY <1>4, <2>1, <2>2, <2>4, <2>5, <2>6, <2>7, <2>8 DEF Lay
  <2> QED
    BY <1>2, <1>3, <1>4, <1>5, <2>1, <2>2, <2>9
<1>7. CASE ~Hfsdp
  <2>1. MainGroup(0, g) = FsdpGroup(0, g) /\ MainRank(r, g) = i
    BY <1>4, <1>7 DEF MainGroup, MainRank
  <2>2. BucketSize(g) = n * s /\ ShardStart(r, g) = i * s /\ ShardSize(g) = s
    BY <1>3, <1>4, <2>1 DEF BucketSize, ShardStart, ShardSize, HasWeights, Full
  <2>3. /\ i * s \in Nat /\ i * s + s <= n * s /\ n * s \in Nat \ {0}
        /\ WeightSize(g) = s /\ InnerStart(r, g, s) = i * s
    <3>1. i \in 0 .. n - 1 /\ BucketSize(g) = n * s
      BY <1>4, <2>2
    <3>2. Len(FsdpGroup(0, g)) = n /\ GroupRank(FsdpGroup(r, g), r) = i
      BY <1>4
    <3> QED
      BY ONLY <3>1, <3>2, Full, n \in Nat \ {0}, s \in Nat \ {0}, InnerBuffers
  <2>4. ViewStart(r, g, s) = 0
    BY <1>7, <2>2, <2>3 DEF ViewStart
  <2>5. Lay(r, g, n, s, s, i, 0)
    <3>1. PICK y \in Nat : y = i * s
      BY <2>3
    <3>2. y + 0 = y /\ 0 + s <= s /\ 0 \in Nat
      OBVIOUS
    <3> QED
      BY <1>4, <2>2, <2>3, <2>4, <3>1, <3>2 DEF Lay
  <2>6. 1 * s = s /\ 0 * s = 0
    OBVIOUS
  <2> QED
    BY <1>2, <1>3, <1>4, <1>7, <2>5, <2>6
<1> QED
  BY <1>6, <1>7

----------------------------------------------------------------------------
(* Cells that are what they should be.                                     *)

Initial == IF job.meta THEN 1 ELSE 0

Right(cell, r, g, k, step) ==
  ElementAt(g, k) # NoElement => cell = Weight(r, g, k, Initial, step)

\* the part of an inner buffer that is the rank's own, the buffer, and the bucket
ViewHolds(c, r, g, step) ==
  \A k \in 1 .. ShardSize(g) :
    Right(c[ViewStart(r, g, WeightSize(g)) + k], r, g, ShardStart(r, g) + k, step)
InnerHolds(c, r, g, step) ==
  \A k \in 1 .. WeightSize(g) : Right(c[k], r, g, InnerStart(r, g, WeightSize(g)) + k, step)
BucketHolds(b, r, g, step) ==
  \A k \in 1 .. BucketSize(g) : Right(b[k], r, g, k, step)

LEMMA SameOwner ==
  ASSUME NEW c, NEW r, NEW q, NEW g, NEW k, NEW step, Right(c, q, g, k, step),
         g.attrs.expert => EpRank(job.mesh, q) = EpRank(job.mesh, r)
  PROVE  Right(c, r, g, k, step)
<1>1. Owner(q, g) = Owner(r, g)
  BY DEF Owner
<1> QED
  BY <1>1 DEF Right, Weight

LEMMA LaidOut ==
  ASSUME job \in Jobs, Full, NEW g, Shaped(g), NEW r \in Rank
  PROVE  \E n \in Nat \ {0}, w \in Nat \ {0}, s \in Nat \ {0}, i \in Nat, lo \in Nat : Lay(r, g, n, w, s, i, lo)
<1> DEFINE n == Inners(job.mesh, g.attrs.expert)
           s == g.plan.shard_size
           t == IF Hfsdp THEN job.mesh.outer ELSE 1
           o == IF Hfsdp THEN OuterRank(job.mesh, r) ELSE 0
           w == t * s
           lo == o * s
           i == InnerOf(job.mesh, r, g.attrs.expert)
<1>1. Lay(r, g, n, w, s, i, lo)
  BY Geometry
<1> HIDE DEF n, s, w, lo, i
<1>2. n \in Nat \ {0} /\ w \in Nat \ {0} /\ s \in Nat \ {0} /\ i \in Nat /\ lo \in Nat
  BY <1>1 DEF Lay
<1> QED
  BY <1>1, <1>2

LEMMA InnerHasView ==
  ASSUME job \in Jobs, Full, NEW g, Shaped(g), NEW r \in Rank, NEW c, NEW step, InnerHolds(c, r, g, step)
  PROVE  ViewHolds(c, r, g, step)
<1>1. PICK n \in Nat \ {0}, w \in Nat \ {0}, s \in Nat \ {0}, i \in Nat, lo \in Nat : Lay(r, g, n, w, s, i, lo)
  BY LaidOut
<1>2. PICK x \in Nat : /\ x = InnerStart(r, g, w) /\ ShardStart(r, g) = x + lo
                       /\ lo + s <= w /\ WeightSize(g) = w /\ ShardSize(g) = s /\ ViewStart(r, g, w) = lo
  BY <1>1 DEF Lay
<1>3. ASSUME NEW k \in 1 .. s PROVE Right(c[lo + k], r, g, ShardStart(r, g) + k, step)
  <2>1. lo + k \in 1 .. w /\ x + (lo + k) = x + lo + k
    BY <1>2
  <2>2. Right(c[lo + k], r, g, x + (lo + k), step)
    BY <1>2, <2>1 DEF InnerHolds
  <2> QED
    BY <1>2, <2>1, <2>2
<1> QED
  BY <1>2, <1>3 DEF ViewHolds

LEMMA ViewIsInner ==
  ASSUME job \in Jobs, Full, ~Hfsdp, NEW g, Shaped(g), NEW r \in Rank, NEW c, NEW step, ViewHolds(c, r, g, step)
  PROVE  InnerHolds(c, r, g, step)
<1>1. PICK n \in Nat \ {0}, w \in Nat \ {0}, s \in Nat \ {0}, i \in Nat, lo \in Nat : Lay(r, g, n, w, s, i, lo)
  BY LaidOut
<1>2. PICK x \in Nat : /\ x = InnerStart(r, g, w) /\ ShardStart(r, g) = x + lo /\ lo = 0 /\ s = w
                       /\ WeightSize(g) = w /\ ShardSize(g) = s /\ ViewStart(r, g, w) = lo
  BY <1>1 DEF Lay
<1>3. ASSUME NEW k \in 1 .. w PROVE Right(c[k], r, g, x + k, step)
  <2>1. lo + k = k /\ x + lo + k = x + k /\ k \in 1 .. s
    BY <1>2
  <2>2. Right(c[lo + k], r, g, x + lo + k, step)
    BY <1>2, <2>1 DEF ViewHolds
  <2> QED
    BY <2>1, <2>2
<1> QED
  BY <1>2, <1>3 DEF InnerHolds

\* place k is the j-th of the a-th of n parts of w elements
Placed(n, w, k) == \E a \in 1 .. n, j \in 1 .. w : k = (a - 1) * w + j

LEMMA EveryPlace ==
  ASSUME NEW n \in Nat \ {0}, NEW w \in Nat \ {0}, NEW k \in 1 .. n * w
  PROVE  Placed(n, w, k)
<1>1. k - 1 \in Nat /\ n * w \in Nat
  OBVIOUS
<1>2. PICK p \in Nat, e \in 0 .. w - 1 : k - 1 = w * p + e
  BY <1>1, Division
<1>3. p + 1 \in 1 .. n /\ p + 1 - 1 = p
  <2>1. p * w + e \in 0 .. n * w - 1
    BY <1>1, <1>2
  <2>2. p \in 0 .. n - 1
    BY <2>1, RankRange
  <2> QED
    BY <2>2
<1>4. e + 1 \in 1 .. w /\ k = p * w + (e + 1)
  BY <1>1, <1>2
<1>5. PICK a \in 1 .. n, j \in 1 .. w : a - 1 = p /\ j = e + 1
  BY <1>3, <1>4
<1>6. \E b \in 1 .. n, i \in 1 .. w : k = (b - 1) * w + i
  BY ONLY <1>4, <1>5
<1> QED
  BY <1>6 DEF Placed

\* Inner buffers that are right are gathered to buckets that are.
LEMMA GatheredHolds ==
  ASSUME job \in Jobs, Full, NEW g, Shaped(g), NEW r \in Rank, NEW step, NEW f,
         \A q \in Rank : Array(f[q], WeightSize(g)) /\ InnerHolds(f[q], q, g, step),
         NEW group, group = FsdpGroup(r, g)
  PROVE  LET b == IF WeightsDistributed(g) THEN FlattenSeq([i \in DOMAIN group |-> f[group[i]]]) ELSE f[r]
         IN b # <<>> /\ BucketHolds(b, r, g, step)
<1> DEFINE n == Inners(job.mesh, g.attrs.expert)
           w == (IF Hfsdp THEN job.mesh.outer ELSE 1) * g.plan.shard_size
           s == [a \in 1 .. n |-> f[group[a]]]
<1>1. IsMesh(job.mesh) /\ r \in Ranks(job.mesh) /\ g.attrs.expert \in BOOLEAN
  BY MeshOfJob DEF Rank, Shaped
<1>2. /\ n \in Nat \ {0} /\ DOMAIN group = 1 .. n
      /\ \A a \in 1 .. n : /\ group[a] \in Rank /\ InnerOf(job.mesh, group[a], g.attrs.expert) = a - 1
                           /\ g.attrs.expert => EpRank(job.mesh, group[a]) = EpRank(job.mesh, r)
  BY <1>1, InnerGroup DEF FsdpGroup, Rank
<1>3. ASSUME NEW a \in 1 .. n
      PROVE  /\ w \in Nat \ {0} /\ WeightSize(g) = w /\ BucketSize(g) = n * w
             /\ InnerStart(group[a], g, w) = (a - 1) * w
  <2>1. group[a] \in Rank /\ InnerOf(job.mesh, group[a], g.attrs.expert) = a - 1
    BY <1>2
  <2> QED
    BY <2>1, Geometry DEF Lay
<1>4. w \in Nat \ {0} /\ WeightSize(g) = w /\ BucketSize(g) = n * w
  <2>1. 1 \in 1 .. n
    BY <1>2
  <2> QED
    BY <1>3, <2>1
<1>5. Len(FsdpGroup(0, g)) = n
  BY Geometry
<1> HIDE DEF n, w
<1>6. Array(s, n) /\ \A a \in 1 .. n : s[a] = f[group[a]] /\ Array(s[a], w)
  BY <1>2, <1>4 DEF Array
<1> HIDE DEF s
<1>7. ASSUME NEW a \in 1 .. n, NEW j \in 1 .. w, NEW k, k = (a - 1) * w + j
      PROVE  Right(f[group[a]][j], r, g, k, step)
  <2>1. group[a] \in Rank /\ (g.attrs.expert => EpRank(job.mesh, group[a]) = EpRank(job.mesh, r))
    BY <1>2
  <2>2. InnerHolds(f[group[a]], group[a], g, step)
    BY <2>1
  <2>3. Right(f[group[a]][j], group[a], g, k, step)
    BY <1>3, <1>4, <1>7, <2>2 DEF InnerHolds
  <2> QED
    BY <2>1, <2>3, SameOwner
<1>8. CASE WeightsDistributed(g)
  <2>1. [i \in DOMAIN group |-> f[group[i]]] = s
    BY <1>2 DEF s
  <2>2. PICK b : b = FlattenSeq(s)
    OBVIOUS
  <2>3. Array(b, n * w) /\ \A a \in 1 .. n, j \in 1 .. w : b[(a - 1) * w + j] = s[a][j]
    <3>1. IsFlat(FlattenSeq(s), s, n, w)
      BY <1>2, <1>4, <1>6, FlattenIs
    <3> QED
      BY <2>2, <3>1 DEF IsFlat
  <2>4. b # <<>>
    <3>1. n * w \in Nat /\ n * w # 0
      <4>1. \A x, y \in Nat : x # 0 /\ y # 0 => x * y # 0 /\ x * y \in Nat
        OBVIOUS
      <4> QED
        BY <1>2, <1>4, <4>1
    <3> QED
      BY <2>3, <3>1, EmptyArray
  <2>5. ASSUME NEW k \in 1 .. n * w PROVE Right(b[k], r, g, k, step)
    <3>1. PICK a \in 1 .. n, j \in 1 .. w : k = (a - 1) * w + j
      BY <1>2, <1>4, EveryPlace DEF Placed
    <3>2. b[k] = f[group[a]][j]
      BY <1>6, <2>3, <3>1
    <3> QED
      BY <1>7, <3>1, <3>2
  <2>6. BucketHolds(b, r, g, step)
    BY <1>4, <2>5 DEF BucketHolds
  <2> QED
    BY <1>8, <2>1, <2>2, <2>4, <2>6
<1>9. CASE ~WeightsDistributed(g)
  <2>1. n = 1
    <3>1. ~(n > 1)
      BY <1>5, <1>9 DEF WeightsDistributed, Full
    <3> QED
      BY <1>2, <3>1
  <2>2. n * w = w /\ (1 - 1) * w = 0
    BY <1>4, <2>1
  <2>3. f[r] # <<>>
    BY <1>4, EmptyArray
  <2>4. InnerHolds(f[r], r, g, step) /\ InnerStart(r, g, w) = 0
    BY <1>4, <2>2 DEF InnerStart
  <2>5. \A k \in 1 .. w : 0 + k = k
    OBVIOUS
  <2>6. BucketHolds(f[r], r, g, step)
    BY <1>4, <2>2, <2>4, <2>5 DEF InnerHolds, BucketHolds
  <2> QED
    BY <1>9, <2>3, <2>6
<1> QED
  BY <1>8, <1>9

\* Views that are right are gathered over the outer group to an inner buffer that is.
LEMMA OuterHolds ==
  ASSUME job \in Jobs, Full, Hfsdp, NEW g, Shaped(g), NEW r \in Rank, NEW step, NEW f,
         \A q \in Rank : Array(f[q], WeightSize(g)) /\ ViewHolds(f[q], q, g, step),
         NEW group, group = OuterGroup(r, g), NEW size, size = Len(f[r]) \div Len(group)
  PROVE  LET c == FlattenSeq([i \in DOMAIN group |-> Part(f[group[i]], (i - 1) * size, size)])
         IN Array(c, WeightSize(g)) /\ InnerHolds(c, r, g, step)
<1> DEFINE t == job.mesh.outer
           s == g.plan.shard_size
           w == t * s
           x == InnerStart(r, g, w)
           p == [a \in 1 .. t |-> Part(f[group[a]], (a - 1) * s, s)]
<1>1. IsMesh(job.mesh) /\ r \in Ranks(job.mesh) /\ g.attrs.expert \in BOOLEAN
  BY MeshOfJob DEF Rank, Shaped
<1>2. /\ t \in Nat \ {0} /\ DOMAIN group = 1 .. t /\ Len(group) = t
      /\ \A a \in 1 .. t : /\ group[a] \in Rank /\ OuterRank(job.mesh, group[a]) = a - 1
                           /\ InnerOf(job.mesh, group[a], g.attrs.expert) = InnerOf(job.mesh, r, g.attrs.expert)
                           /\ g.attrs.expert => EpRank(job.mesh, group[a]) = EpRank(job.mesh, r)
  BY <1>1, OuterGroupOf DEF OuterGroup, Rank
<1>3. /\ s \in Nat \ {0} /\ w \in Nat \ {0} /\ WeightSize(g) = w /\ x \in Nat /\ ShardSize(g) = s
      /\ x = InnerOf(job.mesh, r, g.attrs.expert) * w
  BY Geometry DEF Lay
<1>4. ASSUME NEW a \in 1 .. t
      PROVE  /\ ViewStart(group[a], g, w) = (a - 1) * s /\ (a - 1) * s \in Nat /\ (a - 1) * s + s <= w
             /\ ShardStart(group[a], g) = x + (a - 1) * s
  <2>1. group[a] \in Rank /\ OuterRank(job.mesh, group[a]) = a - 1
        /\ InnerOf(job.mesh, group[a], g.attrs.expert) = InnerOf(job.mesh, r, g.attrs.expert)
    BY <1>2
  <2> QED
    BY <1>3, <2>1, Geometry DEF Lay
<1>5. size = s
  <2>1. Len(f[r]) = w
    BY <1>3, LengthOf
  <2>2. PICK v \in Nat, z \in Nat : v = w /\ z = 0
    BY <1>3
  <2>3. v = s * t + z /\ z \in 0 .. t - 1 /\ s \in Nat /\ t \in Nat \ {0}
    BY <1>2, <1>3, <2>2
  <2>4. v \div t = s
    BY ONLY <2>3, DigitOf
  <2> QED
    BY <1>2, <2>1, <2>2, <2>4
<1> HIDE DEF t, s, x
<1>6. PICK y \in Nat \ {0} : y = w
  BY <1>3
<1> HIDE DEF w
<1>7. ASSUME NEW a \in 1 .. t
      PROVE  /\ p[a] = Part(f[group[a]], (a - 1) * s, s) /\ Array(p[a], s)
             /\ \A j \in 1 .. s : p[a][j] = f[group[a]][(a - 1) * s + j]
  <2>1. PICK lo \in Nat : lo = (a - 1) * s /\ lo + s <= y
    BY <1>4, <1>6
  <2>2. Array(f[group[a]], y)
    BY <1>2, <1>3, <1>6
  <2> HIDE DEF p
  <2>3. PICK z : z = Part(f[group[a]], lo, s)
    OBVIOUS
  <2>4. Array(z, s) /\ \A j \in 1 .. s : z[j] = f[group[a]][lo + j]
    <3>1. s \in Nat
      BY <1>3
    <3>2. IsPart(z, f[group[a]], lo, s)
      BY ONLY <2>1, <2>2, <2>3, <3>1, PartIs, y \in Nat, lo \in Nat
    <3> QED
      BY <3>2 DEF IsPart
  <2> QED
    BY <2>1, <2>3, <2>4 DEF p
<1>8. Array(p, t)
  BY DEF Array
<1> HIDE DEF p
<1>9. PICK c : c = FlattenSeq(p)
  OBVIOUS
<1>10. Array(c, t * s) /\ \A a \in 1 .. t, j \in 1 .. s : c[(a - 1) * s + j] = p[a][j]
  <2>1. IsFlat(FlattenSeq(p), p, t, s)
    BY <1>2, <1>3, <1>7, <1>8, FlattenIs
  <2> QED
    BY <1>9, <2>1 DEF IsFlat
<1>11. ASSUME NEW k \in 1 .. w PROVE Right(c[k], r, g, x + k, step)
  <2>1. PICK a \in 1 .. t, j \in 1 .. s : k = (a - 1) * s + j
    <3>1. k \in 1 .. t * s /\ t \in Nat \ {0} /\ s \in Nat \ {0}
      BY <1>2, <1>3 DEF w
    <3>2. Placed(t, s, k)
      BY ONLY <3>1, EveryPlace
    <3> QED
      BY ONLY <3>2 DEF Placed
  <2>2. PICK lo \in Nat : lo = (a - 1) * s /\ k = lo + j
    BY <1>4, <2>1
  <2>3. c[k] = f[group[a]][lo + j]
    BY <1>7, <1>10, <2>1, <2>2
  <2>4. group[a] \in Rank /\ (g.attrs.expert => EpRank(job.mesh, group[a]) = EpRank(job.mesh, r))
    BY <1>2
  <2>5. Right(f[group[a]][lo + j], group[a], g, x + lo + j, step)
    BY <1>3, <1>4, <2>2, <2>4 DEF ViewHolds
  <2>6. x + lo + j = x + k
    BY <1>3, <2>2
  <2> QED
    BY <2>3, <2>4, <2>5, <2>6, SameOwner
<1>12. InnerHolds(c, r, g, step)
  BY <1>3, <1>11 DEF InnerHolds, x
<1>13. [i \in DOMAIN group |-> Part(f[group[i]], (i - 1) * size, size)] = p
  BY <1>2, <1>5 DEF p
<1> QED
  BY <1>3, <1>9, <1>10, <1>12, <1>13 DEF w

----------------------------------------------------------------------------
(* The weights in every state.                                             *)

\* the groups that have their weights, and the steps these have taken
Filled == IF pc \in {"group", "create"} THEN 0 ELSE IF pc = "init" THEN at - 1 ELSE Len(groups)
Moved(g) == IF HasGrads(g) THEN steps ELSE 0

\* the inner buffer is of the last step, not just the rank's own part of it
Fresh(r, n) == ~Hfsdp \/ gathered[r][n] # <<>> \/ (~job.auto_sync /\ used # <<>>)

CellsKnown(r, n) ==
  /\ Array(weights[r][n], WeightSize(groups[n]))
  /\ ViewHolds(weights[r][n], r, groups[n], Moved(groups[n]))
  /\ Fresh(r, n) => InnerHolds(weights[r][n], r, groups[n], Moved(groups[n]))
  /\ gathered[r][n] # <<>> => BucketHolds(gathered[r][n], r, groups[n], Moved(groups[n]))
  /\ gathered[r][n] = <<>> <=> gathered[0][n] = <<>>

WeightsKnown ==
  /\ \A i \in 1 .. Counted : Shaped(groups[i])
  /\ DOMAIN value = Param /\ \A n \in Param : value[n] \in IF job.meta THEN {Meta, 1} ELSE {0}
  /\ \A r \in Rank : Array(weights[r], Filled) /\ Array(gathered[r], Filled)
  /\ \A r \in Rank, n \in 1 .. Filled : CellsKnown(r, n)

NothingGathered == \A r \in Rank, n \in 1 .. Filled : gathered[r][n] = <<>>

Building  == {"group", "create", "init", "alloc", "register", "wrap"}
Computing == {"backward", "reduce_outer", "root_post_backward"}

\* How a cycle of microbatches goes.
Rhythm ==
  /\ pc \in Building => steps = 0
  /\ Len(used) \in Nat /\ Array(used, Len(used))
  /\ pc \notin {"forward"} \cup Computing => microbatch = 0 /\ NothingGathered
  /\ pc \notin {"forward", "step"} \cup Computing => used = <<>>
  /\ pc = "forward" => microbatch = IF job.auto_sync THEN 0 ELSE Len(used)
  /\ pc \in Computing => used # <<>> /\ microbatch = IF job.auto_sync THEN 0 ELSE Len(used) - 1
  /\ pc = "forward" /\ (job.auto_sync \/ used = <<>>) /\ Hfsdp => NothingGathered
  /\ pc = "backward" =>
       \A r \in Rank, n \in Group : Range(groups[n].params) \cap used[Len(used)] # {} => gathered[r][n] # <<>>

WInv == Full => WeightsKnown /\ Rhythm

LEMMA SameSizes ==
  ASSUME job' = job, NEW g, NEW r, NEW size
  PROVE  /\ WeightSize(g)' = WeightSize(g) /\ BucketSize(g)' = BucketSize(g) /\ ShardSize(g)' = ShardSize(g)
         /\ InnerStart(r, g, size)' = InnerStart(r, g, size) /\ ShardStart(r, g)' = ShardStart(r, g)
         /\ ViewStart(r, g, size)' = ViewStart(r, g, size) /\ HasGrads(g)' = HasGrads(g)
         /\ Hfsdp' = Hfsdp /\ Rank' = Rank /\ Param' = Param /\ Full' = Full
<1>1. /\ Hfsdp' = Hfsdp /\ Rank' = Rank /\ Param' = Param /\ Full' = Full /\ HasGrads(g)' = HasGrads(g)
      /\ HasWeights' = HasWeights
  BY DEF Hfsdp, Rank, Param, Full, HasGrads, HasWeights
<1>2. \A q : /\ FsdpGroup(q, g)' = FsdpGroup(q, g) /\ OuterGroup(q, g)' = OuterGroup(q, g)
             /\ DpGroup(q, g)' = DpGroup(q, g)
  BY DEF FsdpGroup, OuterGroup, DpGroup
<1>3. \A q : MainGroup(q, g)' = MainGroup(q, g) /\ MainRank(q, g)' = MainRank(q, g)
  BY <1>1, <1>2 DEF MainGroup, MainRank
<1>4. BucketSize(g)' = BucketSize(g) /\ WeightsDistributed(g)' = WeightsDistributed(g)
  BY <1>2, <1>3 DEF BucketSize, WeightsDistributed
<1>5. WeightSize(g)' = WeightSize(g) /\ InnerStart(r, g, size)' = InnerStart(r, g, size)
  BY <1>2, <1>4 DEF WeightSize, InnerSize, InnerStart
<1>6. ShardSize(g)' = ShardSize(g) /\ ShardStart(r, g)' = ShardStart(r, g)
  BY <1>1, <1>3, <1>4 DEF ShardSize, ShardStart
<1>7. ViewStart(r, g, size)' = ViewStart(r, g, size)
  BY <1>1, <1>2, <1>5, <1>6 DEF ViewStart
<1> QED
  BY <1>1, <1>4, <1>5, <1>6, <1>7

LEMMA SameCells ==
  ASSUME job' = job, NEW g, NEW r, NEW k, NEW step, NEW c
  PROVE  ElementAt(g, k)' = ElementAt(g, k) /\ Right(c, r, g, k, step)' = Right(c, r, g, k, step)
<1>1. ElementAt(g, k)' = ElementAt(g, k)
  BY DEF ElementAt
<1>2. Initial' = Initial /\ Owner(r, g)' = Owner(r, g)
  BY DEF Initial, Owner
<1> QED
  BY <1>1, <1>2 DEF Right, Weight

LEMMA SameHolds ==
  ASSUME job' = job, NEW g, NEW r, NEW step, NEW c
  PROVE  /\ ViewHolds(c, r, g, step)' = ViewHolds(c, r, g, step)
         /\ InnerHolds(c, r, g, step)' = InnerHolds(c, r, g, step)
         /\ BucketHolds(c, r, g, step)' = BucketHolds(c, r, g, step)
         /\ Shaped(g)' = Shaped(g)
<1>1. \A k, d : Right(d, r, g, k, step)' = Right(d, r, g, k, step)
  BY SameCells
<1>2. PICK w, v : w = WeightSize(g) /\ v = ShardSize(g) /\ WeightSize(g)' = w /\ ShardSize(g)' = v
  BY SameSizes
<1>3. ViewHolds(c, r, g, step)' = ViewHolds(c, r, g, step)
  BY <1>1, <1>2, SameSizes DEF ViewHolds
<1>4. InnerHolds(c, r, g, step)' = InnerHolds(c, r, g, step)
  BY <1>1, <1>2, SameSizes DEF InnerHolds
<1>5. BucketHolds(c, r, g, step)' = BucketHolds(c, r, g, step)
  BY <1>1, <1>2, SameSizes DEF BucketHolds
<1>6. Shaped(g)' = Shaped(g)
  BY SameSizes DEF Shaped
<1> QED
  BY <1>3, <1>4, <1>5, <1>6

LEMMA WInvInit ==
  ASSUME JobsAssumption, Init PROVE WInv
<1>1. Counted = 0 /\ Filled = 0 /\ pc = "group"
  BY DEF Init, Counted, Filled
<1>2. Array(<<>>, 0)
  BY DEF Array
<1>3. /\ DOMAIN value = Param /\ \A n \in Param : value[n] \in IF job.meta THEN {Meta, 1} ELSE {0}
      /\ \A r \in Rank : weights[r] = <<>> /\ gathered[r] = <<>>
  BY DEF Init
<1>4. WeightsKnown
  BY <1>1, <1>2, <1>3 DEF WeightsKnown
<1>5. Rhythm
  <2>1. steps = 0 /\ used = <<>> /\ Len(<<>>) = 0 /\ microbatch = 0
    BY DEF Init
  <2> QED
    BY <1>1, <1>2, <2>1 DEF Rhythm, NothingGathered, Computing, Building
<1> QED
  BY <1>4, <1>5 DEF WInv

\* What is left alone stays right.
LEMMA CellsStay ==
  ASSUME NEW r, NEW n, CellsKnown(r, n), UNCHANGED <<job, groups, steps>>, weights'[r][n] = weights[r][n],
         gathered'[r][n] = gathered[r][n], gathered'[0][n] = gathered[0][n],
         Fresh(r, n)' => Fresh(r, n)
  PROVE  CellsKnown(r, n)'
<1>1. PICK g, c, b, a, st : /\ g = groups[n] /\ c = weights[r][n] /\ b = gathered[r][n]
                            /\ a = gathered[0][n] /\ st = Moved(groups[n])
  OBVIOUS
<1>2. g = groups'[n] /\ c = weights'[r][n] /\ b = gathered'[r][n] /\ a = gathered'[0][n]
  BY <1>1
<1>3. st = Moved(groups[n])'
  <2>1. HasGrads(g)' = HasGrads(g)
    BY SameSizes
  <2> QED
    BY <1>1, <1>2, <2>1 DEF Moved
<1>4. WeightSize(g)' = WeightSize(g)
  BY SameSizes
<1>5. /\ ViewHolds(c, r, g, st)' = ViewHolds(c, r, g, st)
      /\ InnerHolds(c, r, g, st)' = InnerHolds(c, r, g, st)
      /\ BucketHolds(b, r, g, st)' = BucketHolds(b, r, g, st)
  BY SameHolds
<1>6. /\ Array(c, WeightSize(g)) /\ ViewHolds(c, r, g, st) /\ (Fresh(r, n) => InnerHolds(c, r, g, st))
      /\ (b # <<>> => BucketHolds(b, r, g, st)) /\ (b = <<>> <=> a = <<>>)
  BY <1>1 DEF CellsKnown
<1> QED
  BY <1>2, <1>3, <1>4, <1>5, <1>6 DEF CellsKnown

LEMMA WeightsStay ==
  ASSUME WeightsKnown, UNCHANGED <<job, groups, value, weights, gathered, steps, used>>,
         Filled' = Filled, Counted' = Counted
  PROVE  WeightsKnown'
<1>1. \A g : Shaped(g)' = Shaped(g)
  BY SameHolds
<1>2. \A i \in 1 .. Counted : Shaped(groups[i])'
  BY <1>1 DEF WeightsKnown
<1>3. Hfsdp' = Hfsdp /\ Rank' = Rank /\ Param' = Param
  BY SameSizes
<1>4. ASSUME NEW r \in Rank, NEW n \in 1 .. Filled PROVE CellsKnown(r, n)'
  <2>1. Fresh(r, n)' => Fresh(r, n)
    BY <1>3 DEF Fresh
  <2>2. CellsKnown(r, n)
    BY DEF WeightsKnown
  <2> QED
    BY <2>1, <2>2, CellsStay
<1>5. \A r \in Rank : Array(weights[r], Filled)' /\ Array(gathered[r], Filled)'
  BY DEF WeightsKnown, Array
<1> QED
  BY <1>2, <1>3, <1>4, <1>5 DEF WeightsKnown

LEMMA NothingStays ==
  ASSUME NothingGathered, UNCHANGED <<job, gathered>>, Filled' = Filled PROVE NothingGathered'
<1>1. Rank' = Rank
  BY SameSizes
<1> QED
  BY <1>1 DEF NothingGathered

\* Before the first cycle.
LEMMA BuildingStays ==
  ASSUME Rhythm, pc \in Building \cup {"cycle"}, pc' \in Building \cup {"cycle"}, pc' \in Building => pc \in Building,
         UNCHANGED <<job, steps, used, microbatch>>, NothingGathered => NothingGathered'
  PROVE  Rhythm'
<1>1. pc' \notin {"forward", "step", "backward"} \cup Computing /\ pc \notin {"forward", "step"} \cup Computing
  BY DEF Computing, Building
<1>2. used = <<>> /\ microbatch = 0 /\ NothingGathered /\ Len(used) \in Nat /\ Array(used, Len(used))
  BY <1>1 DEF Rhythm
<1>3. Array(used', Len(used')) /\ Len(used') \in Nat
  BY <1>2
<1> QED
  BY <1>1, <1>2, <1>3 DEF Rhythm, Array

\* Every group that is planned has a layout.
LEMMA PlannedShaped ==
  ASSUME GroupsOfParams, job \in Jobs, Full, NEW i \in DOMAIN GetParameterGroups(job.model, job.strategy)
  PROVE  Shaped(Planned(GetParameterGroups(job.model, job.strategy)[i]))
<1> DEFINE gs == GetParameterGroups(job.model, job.strategy)
           p == Planned(gs[i])
<1>1. i \in 1 .. Len(gs)
  BY DEF GroupsOfParams
<1>2. /\ gs[i].params \in Seq(Param) \ {<<>>}
      /\ gs[i].attrs.requires_grad \in BOOLEAN /\ gs[i].attrs.expert \in BOOLEAN
      /\ PlanFor(job, gs[i]).shard_size \in Nat \ {0}
  <2>1. GroupsArePlanned
    BY GroupsPlanned
  <2>2. gs[i].params \in Seq(Param) \ {<<>>}
    BY <1>1 DEF GroupsOfParams, Param
  <2> HIDE DEF gs
  <2>3. job.strategy # "no_shard"
    BY DEF Full
  <2> QED
    BY <1>1, <2>1, <2>2, <2>3 DEF GroupsArePlanned, gs
<1>3. PlanOf(gs[i]) = PlanFor(job, gs[i])
  BY DEF PlanOf, PlanFor, GroupOver, ElementsFor, MainGroup, DpGroup, FsdpGroup, Hfsdp
<1> HIDE DEF gs
<1>4. p.params = gs[i].params /\ p.attrs = gs[i].attrs /\ p.plan = PlanFor(job, gs[i])
  BY <1>3 DEF Planned
<1>5. Len(gs[i].params) \in Nat \ {0} /\ DOMAIN gs[i].params = 1 .. Len(gs[i].params)
  BY <1>2, LenProperties, EmptySeq
<1>6. \A k \in DOMAIN gs[i].params : gs[i].params[k] \in Param
  BY <1>2, <1>5, ElementOfSeq
<1> HIDE DEF p
<1>7. Shaped(p)
  BY <1>2, <1>4, <1>5, <1>6 DEF Shaped
<1> QED
  BY <1>7 DEF gs, p

LEMMA GroupParametersW ==
  ASSUME Inv, WeightsKnown, Rhythm, GroupParameters
  PROVE  WeightsKnown' /\ Rhythm'
<1>1. /\ pc = "group" /\ at = 1 /\ pc' \in {"group", "create"}
      /\ UNCHANGED <<job, at, value, weights, gathered, steps, used, microbatch>>
  BY DEF GroupParameters, At, trained, Inv, GroupsKnown
<1>2. Filled = 0 /\ Filled' = 0 /\ Counted' = 0
  BY <1>1 DEF Filled, Counted
<1>3. Rank' = Rank /\ Param' = Param
  BY <1>1, SameSizes
<1>4. WeightsKnown'
  BY <1>1, <1>2, <1>3 DEF WeightsKnown, Array
<1>5. NothingGathered'
  BY <1>2 DEF NothingGathered
<1>6. Rhythm'
  BY <1>1, <1>5, BuildingStays DEF Building
<1> QED
  BY <1>4, <1>6

LEMMA CreateBuffersW ==
  ASSUME GroupsOfParams, Full, Inv, WeightsKnown, Rhythm, CreateBuffers
  PROVE  WeightsKnown' /\ Rhythm'
<1> DEFINE gs == GetParameterGroups(job.model, job.strategy)
<1>1. /\ pc = "create" /\ job \in Jobs /\ at \in 1 .. Len(groups) /\ Len(groups) \in Nat
      /\ DOMAIN groups = DOMAIN gs /\ DOMAIN groups = 1 .. Len(groups)
      /\ Counted = at - 1 /\ groups[at] = gs[at]
  BY DEF CreateBuffers, At, Inv, GroupsKnown, GroupsOfParams, Counted
<1>2. /\ groups' = [groups EXCEPT ![at] = Planned(gs[at])]
      /\ UNCHANGED <<job, value, weights, gathered, steps, used, microbatch>>
      /\ Len(groups') = Len(groups)
      /\ pc' \in {"create", "init"}
  BY <1>1, SameLength DEF CreateBuffers, Advance, trained
<1>3. Filled = 0 /\ Filled' = 0 /\ Counted' = at
  <2>1. PICK n \in Nat : n = Len(groups) /\ n = Len(groups') /\ at \in 1 .. n
    BY <1>1, <1>2
  <2>2. CASE at < n
    <3>1. at' = at + 1 /\ pc' = "create"
      BY <1>1, <2>1, <2>2 DEF CreateBuffers, Advance
    <3> QED
      BY <1>1, <2>1, <3>1 DEF Filled, Counted
  <2>3. CASE ~(at < n)
    <3>1. at' = 1 /\ pc' = "init" /\ at = n
      <4>1. at = n /\ ~(at < Len(groups))
        BY <2>1, <2>3
      <4>2. Advance("init")
        BY DEF CreateBuffers
      <4> QED
        BY ONLY <4>1, <4>2 DEF Advance
    <3> QED
      BY <1>1, <2>1, <3>1 DEF Filled, Counted
  <2> QED
    BY <2>2, <2>3
<1>4. Shaped(Planned(gs[at]))
  BY <1>1, PlannedShaped
<1> HIDE DEF gs
<1>5. ASSUME NEW i \in 1 .. at PROVE Shaped(groups[i])'
  <2>1. PICK g : g = groups'[i]
    OBVIOUS
  <2>2. Shaped(g)
    <3>1. CASE i = at
      BY <1>1, <1>2, <1>4, <2>1, <3>1
    <3>2. CASE i # at
      <4>1. i \in 1 .. Counted /\ groups'[i] = groups[i]
        BY <1>1, <1>2, <3>2
      <4> QED
        BY <2>1, <4>1 DEF WeightsKnown
    <3> QED
      BY <3>1, <3>2
  <2>3. Shaped(g)'
    BY <1>2, <2>2, SameHolds
  <2> QED
    BY <2>1, <2>3
<1>6. Rank' = Rank /\ Param' = Param
  BY <1>2, SameSizes
<1>7. WeightsKnown'
  BY <1>2, <1>3, <1>5, <1>6 DEF WeightsKnown, Array
<1>8. NothingGathered'
  BY <1>3 DEF NothingGathered
<1>9. Rhythm'
  BY <1>1, <1>2, <1>8, BuildingStays DEF Building
<1> QED
  BY <1>7, <1>9

\* The element at a place is one of a parameter of the group.
LEMMA ElementOf ==
  ASSUME job \in Jobs, NEW g, Shaped(g), NEW k, ElementAt(g, k) # NoElement
  PROVE  ElementAt(g, k).param \in Range(g.params) /\ ElementAt(g, k).param \in Param \ {0}
<1> DEFINE here == {i \in DOMAIN g.params :
                      g.plan.start[i] < k /\ k <= g.plan.start[i] + NumelOf(job.model.params[g.params[i]])}
           i == CHOOSE i \in here : TRUE
<1>1. here # {} /\ ElementAt(g, k) = [param |-> g.params[i], pos |-> k - g.plan.start[i]]
  BY DEF ElementAt
<1>2. i \in DOMAIN g.params
  BY <1>1
<1> HIDE DEF i
<1>3. ElementAt(g, k).param = g.params[i]
  BY <1>1
<1>4. g.params[i] \in Param /\ g.params[i] \in Range(g.params)
  BY <1>2 DEF Shaped, Range
<1>5. 0 \notin Param
  BY ModelsAssumption DEF Param
<1> QED
  BY <1>3, <1>4, <1>5

\* The cells that InitWeights writes, for the initialisations v of the parameters.
Written(r, g, v) ==
  LET InitOf(k) == LET n == ElementAt(g, k).param IN IF n = 0 THEN 0 ELSE v[n]
      Cell(k) == Weight(r, g, k, InitOf(k), 0)
  IN IF Hfsdp
     THEN Paste([k \in 1 .. WeightSize(g) |-> Unwritten], ViewStart(r, g, WeightSize(g)),
                [k \in 1 .. ShardSize(g) |-> Cell(ShardStart(r, g) + k)])
     ELSE [k \in 1 .. WeightSize(g) |-> Cell(InnerStart(r, g, WeightSize(g)) + k)]

LEMMA WrittenHolds ==
  ASSUME job \in Jobs, Full, NEW g, Shaped(g), NEW r \in Rank, NEW v,
         \A n \in Range(g.params) : v[n] = Initial
  PROVE  /\ Array(Written(r, g, v), WeightSize(g)) /\ ViewHolds(Written(r, g, v), r, g, 0)
         /\ ~Hfsdp => InnerHolds(Written(r, g, v), r, g, 0)
<1> DEFINE Cell(k) == Weight(r, g, k, IF ElementAt(g, k).param = 0 THEN 0 ELSE v[ElementAt(g, k).param], 0)
<1>1. \A k : Right(Cell(k), r, g, k, 0)
  <2> SUFFICES ASSUME NEW k, ElementAt(g, k) # NoElement PROVE Cell(k) = Weight(r, g, k, Initial, 0)
    BY DEF Right
  <2>1. ElementAt(g, k).param # 0 /\ v[ElementAt(g, k).param] = Initial
    BY ElementOf
  <2> QED
    BY <2>1
<1> HIDE DEF Cell
<1>2. PICK n \in Nat \ {0}, w \in Nat \ {0}, s \in Nat \ {0}, i \in Nat, lo \in Nat : Lay(r, g, n, w, s, i, lo)
  BY LaidOut
<1>3. PICK x \in Nat : /\ x = InnerStart(r, g, w) /\ ShardStart(r, g) = x + lo
                       /\ lo + s <= w /\ WeightSize(g) = w /\ ShardSize(g) = s /\ ViewStart(r, g, w) = lo
  BY <1>2 DEF Lay
<1>4. CASE Hfsdp
  <2> DEFINE c == [k \in 1 .. w |-> Unwritten]
             p == [k \in 1 .. s |-> Cell(x + lo + k)]
  <2>1. Array(c, w) /\ Array(p, s)
    BY DEF Array
  <2>2. Written(r, g, v) = Paste(c, lo, p)
    BY <1>3, <1>4 DEF Written, Cell
  <2> HIDE DEF c
  <2>3. PICK d : d = Paste(c, lo, p)
    OBVIOUS
  <2>4. Array(d, w) /\ \A k \in 1 .. w : k > lo /\ k <= lo + s => d[k] = p[k - lo]
    <3> HIDE DEF p
    <3> QED
      BY ONLY <2>1, <2>3, PasteIs, w \in Nat \ {0}, s \in Nat \ {0}
  <2>5. ASSUME NEW k \in 1 .. s PROVE Right(d[lo + k], r, g, ShardStart(r, g) + k, 0)
    <3>1. lo + k \in 1 .. w /\ lo + k > lo /\ lo + k <= lo + s /\ lo + k - lo = k
      BY <1>3
    <3>2. d[lo + k] = p[k]
      <4> HIDE DEF p
      <4>1. PICK e \in 1 .. w : e = lo + k /\ e > lo /\ e <= lo + s /\ e - lo = k
        BY <3>1
      <4>2. d[e] = p[e - lo]
        BY <2>4, <4>1
      <4> QED
        BY <4>1, <4>2
    <3> QED
      BY <1>1, <1>3, <3>2
  <2>6. ViewHolds(d, r, g, 0)
    BY <1>3, <2>5 DEF ViewHolds
  <2> QED
    BY <1>3, <1>4, <2>2, <2>3, <2>4, <2>6
<1>5. CASE ~Hfsdp
  <2> DEFINE d == [k \in 1 .. w |-> Cell(x + k)]
  <2>1. Written(r, g, v) = d
    BY <1>3, <1>5 DEF Written, Cell
  <2>2. InnerHolds(d, r, g, 0)
    BY <1>1, <1>3 DEF InnerHolds
  <2>3. Array(d, w)
    BY DEF Array
  <2> HIDE DEF d
  <2>4. ViewHolds(d, r, g, 0)
    BY <2>2, InnerHasView
  <2> QED
    BY <1>3, <2>1, <2>2, <2>3, <2>4
<1> QED
  BY <1>4, <1>5

LEMMA InitWeightsW ==
  ASSUME GroupsOfParams, Full, Inv, WeightsKnown, Rhythm, InitWeights
  PROVE  WeightsKnown' /\ Rhythm'
<1>1. PICK N \in Nat, m \in Nat : N = Len(groups) /\ m = at - 1 /\ m + 1 = at /\ at \in 1 .. N
  BY DEF InitWeights, At, Inv, GroupsKnown, GroupsOfParams
<1>2. pc = "init" /\ job \in Jobs /\ Counted = N /\ Filled = m
  BY <1>1 DEF InitWeights, At, Inv, GroupsKnown, Counted, Filled
<1>3. UNCHANGED <<job, groups, steps, used, microbatch>> /\ Advance("alloc")
  BY DEF InitWeights, trained
<1>4. Filled' = m + 1 /\ Counted' = N /\ pc' \in {"init", "alloc"}
  <2>1. CASE at < Len(groups)
    <3>1. at' = at + 1 /\ pc' = "init" /\ Len(groups') = N
      BY <1>1, <1>2, <1>3, <2>1 DEF Advance
    <3> QED
      BY <1>1, <3>1 DEF Filled, Counted
  <2>2. CASE ~(at < Len(groups))
    <3>1. at' = 1 /\ pc' = "alloc"
      BY ONLY <1>3, <2>2 DEF Advance
    <3>2. m + 1 = N /\ Len(groups') = N
      BY <1>1, <1>3, <2>2
    <3> QED
      BY <3>1, <3>2 DEF Filled, Counted
  <2> QED
    BY <2>1, <2>2
<1>5. PICK g, v : g = groups[at] /\ v = value'
  OBVIOUS
<1>6. Shaped(g)
  BY <1>1, <1>2, <1>5 DEF WeightsKnown
<1>7. HasWeights /\ steps = 0 /\ used = <<>>
  BY <1>2 DEF HasWeights, Full, Rhythm, Building, Computing
<1>8. /\ v = [n \in Param |-> IF value[n] = Meta /\ Reset(g, n) THEN 1 ELSE value[n]]
      /\ \A r \in Rank : weights'[r] = Append(weights[r], Written(r, g, v))
      /\ \A r \in Rank : gathered'[r] = Append(gathered[r], <<>>)
  BY <1>5, <1>7 DEF InitWeights, Written
<1>9. /\ \A n \in Param : v[n] \in IF job.meta THEN {Meta, 1} ELSE {0}
      /\ \A n \in Range(g.params) : v[n] = Initial
  <2>1. ASSUME NEW n \in Param
        PROVE  /\ v[n] \in IF job.meta THEN {Meta, 1} ELSE {0}
               /\ n \in Range(g.params) => v[n] = Initial
    <3>1. value[n] \in IF job.meta THEN {Meta, 1} ELSE {0}
      BY DEF WeightsKnown
    <3>2. v[n] = IF value[n] = Meta /\ Reset(g, n) THEN 1 ELSE value[n]
      BY <1>8
    <3>3. n \in Range(g.params) /\ value[n] = Meta => Reset(g, n)
      BY DEF Reset
    <3> QED
      BY <3>1, <3>2, <3>3 DEF Initial, Meta
  <2>2. \A n \in Range(g.params) : n \in Param
    BY <1>6 DEF Shaped, Range
  <2> QED
    BY <2>1, <2>2
<1>10. Rank' = Rank /\ Param' = Param /\ Hfsdp' = Hfsdp /\ 0 \in Rank
  BY <1>2, <1>3, SameSizes, MeshOfJob
<1>11. ASSUME NEW r \in Rank
       PROVE  /\ Array(weights'[r], m + 1) /\ Array(gathered'[r], m + 1)
              /\ weights'[r][m + 1] = Written(r, g, v) /\ gathered'[r][m + 1] = <<>>
              /\ \A n \in 1 .. m : weights'[r][n] = weights[r][n] /\ gathered'[r][n] = gathered[r][n]
  <2>1. PICK a, b, x : a = weights[r] /\ b = gathered[r] /\ x = Written(r, g, v)
    OBVIOUS
  <2>2. a = [n \in 1 .. m |-> a[n]] /\ b = [n \in 1 .. m |-> b[n]]
    BY <1>2, <2>1 DEF WeightsKnown, Array
  <2>3. weights'[r] = Append(a, x) /\ gathered'[r] = Append(b, <<>>)
    BY <1>8, <2>1
  <2>4. PICK c, d : c = Append(a, x) /\ d = Append(b, <<>>)
    OBVIOUS
  <2>5. /\ c = [n \in 1 .. m + 1 |-> c[n]] /\ c[m + 1] = x /\ \A n \in 1 .. m : c[n] = a[n]
        /\ d = [n \in 1 .. m + 1 |-> d[n]] /\ d[m + 1] = <<>> /\ \A n \in 1 .. m : d[n] = b[n]
    BY <2>2, <2>4, Appended
  <2> QED
    BY <2>1, <2>3, <2>4, <2>5 DEF Array
<1>12. ASSUME NEW r \in Rank, NEW n \in 1 .. m PROVE CellsKnown(r, n)'
  <2>1. CellsKnown(r, n)
    BY <1>2 DEF WeightsKnown
  <2>2. weights'[r][n] = weights[r][n] /\ gathered'[r][n] = gathered[r][n] /\ gathered'[0][n] = gathered[0][n]
    BY <1>10, <1>11
  <2>3. Fresh(r, n)' => Fresh(r, n)
    BY <1>3, <1>10, <2>2 DEF Fresh
  <2> QED
    BY <1>3, <2>1, <2>2, <2>3, CellsStay
<1>13. ASSUME NEW r \in Rank PROVE CellsKnown(r, m + 1)'
  <2>1. PICK c : c = Written(r, g, v) /\ c = weights'[r][m + 1] /\ gathered'[r][m + 1] = <<>> /\ gathered'[0][m + 1] = <<>>
    BY <1>10, <1>11
  <2>2. g = groups'[m + 1]
    BY <1>1, <1>3, <1>5
  <2>3. Moved(g)' = 0
    BY <1>3, <1>7 DEF Moved
  <2>4. Array(c, WeightSize(g)) /\ ViewHolds(c, r, g, 0) /\ (~Hfsdp => InnerHolds(c, r, g, 0))
    BY <1>2, <1>6, <1>9, <2>1, WrittenHolds
  <2>5. Array(c, WeightSize(g)') /\ ViewHolds(c, r, g, 0)' /\ (~Hfsdp => InnerHolds(c, r, g, 0)')
    BY <1>3, <2>4, SameSizes, SameHolds
  <2>6. Fresh(r, m + 1)' => ~Hfsdp
    BY <1>3, <1>7, <1>10, <2>1 DEF Fresh
  <2> QED
    BY <2>1, <2>2, <2>3, <2>5, <2>6 DEF CellsKnown
<1>14. \A i \in 1 .. N : Shaped(groups[i])'
  BY <1>2, <1>3, SameHolds DEF WeightsKnown
<1>15. WeightsKnown'
  <2>1. \A n \in 1 .. m + 1 : n \in 1 .. m \/ n = m + 1
    OBVIOUS
  <2>2. \A r \in Rank', n \in 1 .. Filled' : CellsKnown(r, n)'
    BY <1>4, <1>10, <1>12, <1>13, <2>1
  <2>3. DOMAIN value' = Param' /\ \A n \in Param' : value'[n] \in IF job'.meta THEN {Meta, 1} ELSE {0}
    BY <1>3, <1>5, <1>8, <1>9, <1>10
  <2>4. \A r \in Rank' : Array(weights'[r], Filled') /\ Array(gathered'[r], Filled')
    BY <1>4, <1>10, <1>11
  <2> QED
    BY <1>4, <1>14, <2>2, <2>3, <2>4 DEF WeightsKnown
<1>16. NothingGathered'
  <2>1. NothingGathered
    BY <1>2 DEF Rhythm, Computing
  <2>2. ASSUME NEW r \in Rank, NEW n \in 1 .. m + 1 PROVE gathered'[r][n] = <<>>
    <3>1. n \in 1 .. m \/ n = m + 1
      OBVIOUS
    <3> QED
      BY <1>2, <1>11, <2>1, <3>1 DEF NothingGathered
  <2> QED
    BY <1>4, <1>10, <2>2 DEF NothingGathered
<1>17. Rhythm'
  BY <1>2, <1>3, <1>4, <1>16, BuildingStays DEF Building
<1> QED
  BY <1>15, <1>17

\* Once every group has its weights.
Complete == {"alloc", "register", "wrap", "cycle", "forward", "step"} \cup Computing

LEMMA AllFilled ==
  ASSUME pc \in Complete PROVE Filled = Len(groups) /\ Counted = Len(groups)
BY DEF Filled, Counted, Complete, Computing

LEMMA QuietW ==
  ASSUME WeightsKnown, Rhythm, UNCHANGED <<job, groups, value, weights, gathered, steps, used, microbatch>>,
         pc \in {"alloc", "register", "wrap", "cycle"}, pc' \in {"alloc", "register", "wrap", "cycle"},
         pc' = "cycle" \/ pc # "cycle"
  PROVE  WeightsKnown' /\ Rhythm'
<1>1. Filled' = Filled /\ Counted' = Counted
  BY DEF Filled, Counted
<1>2. WeightsKnown'
  BY <1>1, WeightsStay
<1>3. NothingGathered => NothingGathered'
  BY <1>1, NothingStays
<1>4. pc \in Building \cup {"cycle"} /\ pc' \in Building \cup {"cycle"} /\ (pc' \in Building => pc \in Building)
  BY DEF Building
<1> QED
  BY <1>2, <1>3, <1>4, BuildingStays

LEMMA ComputingW ==
  ASSUME WeightsKnown, Rhythm, UNCHANGED <<job, groups, value, weights, gathered, steps, used, microbatch>>,
         pc \in {"backward", "reduce_outer"}, pc' \in {"reduce_outer", "root_post_backward"}
  PROVE  WeightsKnown' /\ Rhythm'
<1>1. Filled' = Filled /\ Counted' = Counted
  BY DEF Filled, Counted
<1>2. WeightsKnown'
  BY <1>1, WeightsStay
<1>3. pc \in Computing /\ pc' \in Computing
  BY DEF Computing
<1>4. /\ Len(used) \in Nat /\ Array(used, Len(used)) /\ used # <<>>
      /\ microbatch = IF job.auto_sync THEN 0 ELSE Len(used) - 1
  BY <1>3 DEF Rhythm
<1>5. Array(used', Len(used'))
  BY <1>4
<1>6. Rhythm'
  BY <1>3, <1>4, <1>5 DEF Rhythm, Computing, Building
<1> QED
  BY <1>2, <1>6

LEMMA RootPostBackwardW ==
  ASSUME Inv, GroupsOfParams, WeightsKnown, Rhythm, RootPostBackward
  PROVE  WeightsKnown' /\ Rhythm'
<1>1. /\ pc = "root_post_backward" /\ job \in Jobs
      /\ UNCHANGED <<job, groups, value, weights, steps, used>>
      /\ pc' = IF Len(used) = Len(job.uses) THEN "step" ELSE "forward"
  BY DEF RootPostBackward, At, built, Inv, GroupsKnown
<1>2. /\ Len(used) \in Nat /\ Array(used, Len(used)) /\ used # <<>>
      /\ microbatch = IF job.auto_sync THEN 0 ELSE Len(used) - 1
  BY <1>1 DEF Rhythm, Computing
<1>3. PICK N : N = Len(groups) /\ Filled = N /\ Counted = N /\ Filled' = N /\ Counted' = N
  BY <1>1 DEF Filled, Counted
<1>4. N \in Nat /\ Group = 1 .. N
  BY <1>1, <1>3 DEF Inv, GroupsKnown, GroupsOfParams, Group
<1>5. Rank' = Rank /\ Hfsdp' = Hfsdp /\ Param' = Param /\ 0 \in Rank
  BY <1>1, SameSizes, MeshOfJob
<1> DEFINE ends == IsLastMicrobatch \/ job.auto_sync
<1>6. ASSUME NEW r \in Rank
      PROVE  /\ Array(gathered'[r], N)
             /\ \A n \in 1 .. N : /\ ends => gathered'[r][n] = <<>>
                                  /\ gathered'[r][n] \in {gathered[r][n], <<>>}
                                  /\ gathered'[0][n] \in {gathered[0][n], <<>>}
                                  /\ ~ends => gathered'[r][n] = IF groups[n].attrs.fsdp_unit_id = NoUnit
                                                                THEN gathered[r][n] ELSE <<>>
                                  /\ ~ends => gathered'[0][n] = IF groups[n].attrs.fsdp_unit_id = NoUnit
                                                                THEN gathered[0][n] ELSE <<>>
                                  /\ ends => gathered'[0][n] = <<>>
  BY <1>4, <1>5 DEF RootPostBackward, Released, Array
<1>7. ASSUME NEW r \in Rank, NEW n \in 1 .. N PROVE CellsKnown(r, n)'
  <2>1. PICK g, c, b, a, st : /\ g = groups[n] /\ c = weights[r][n] /\ b = gathered[r][n]
                              /\ a = gathered[0][n] /\ st = Moved(groups[n])
    OBVIOUS
  <2>2. PICK e, d : e = gathered'[r][n] /\ d = gathered'[0][n] /\ e \in {b, <<>>} /\ (e = <<>> <=> d = <<>>)
    <3>1. b = <<>> <=> a = <<>>
      BY <1>3, <2>1 DEF WeightsKnown, CellsKnown
    <3> QED
      BY <1>6, <2>1, <3>1
  <2>3. g = groups'[n] /\ c = weights'[r][n] /\ st = Moved(groups[n])'
    <3>1. HasGrads(g)' = HasGrads(g)
      BY <1>1, SameSizes
    <3> QED
      BY <1>1, <2>1, <3>1 DEF Moved
  <2>4. /\ Array(c, WeightSize(g)) /\ ViewHolds(c, r, g, st) /\ (Fresh(r, n) => InnerHolds(c, r, g, st))
        /\ (b # <<>> => BucketHolds(b, r, g, st))
    BY <1>3, <2>1 DEF WeightsKnown, CellsKnown
  <2>5. /\ ViewHolds(c, r, g, st)' = ViewHolds(c, r, g, st)
        /\ InnerHolds(c, r, g, st)' = InnerHolds(c, r, g, st)
        /\ BucketHolds(e, r, g, st)' = BucketHolds(e, r, g, st)
        /\ WeightSize(g)' = WeightSize(g)
    BY <1>1, SameHolds, SameSizes
  <2>6. Fresh(r, n)' => Fresh(r, n)
    <3>1. job.auto_sync => e = <<>>
      BY <1>6, <2>2
    <3>2. e # <<>> => b # <<>>
      BY <2>2
    <3> QED
      BY <1>1, <1>2, <1>5, <2>1, <2>2, <3>1, <3>2 DEF Fresh
  <2> QED
    BY <2>2, <2>3, <2>4, <2>5, <2>6 DEF CellsKnown
<1>8. WeightsKnown'
  <2>1. \A i \in 1 .. N : Shaped(groups[i])'
    BY <1>1, <1>3, SameHolds DEF WeightsKnown
  <2>2. DOMAIN value' = Param' /\ \A n \in Param' : value'[n] \in IF job'.meta THEN {Meta, 1} ELSE {0}
    BY <1>1, <1>5 DEF WeightsKnown
  <2>3. \A r \in Rank' : Array(weights'[r], Filled') /\ Array(gathered'[r], Filled')
    BY <1>1, <1>3, <1>5, <1>6 DEF WeightsKnown
  <2> QED
    BY <1>3, <1>5, <1>7, <2>1, <2>2, <2>3 DEF WeightsKnown
<1>9. Rhythm'
  <2>1. ends => NothingGathered'
    BY <1>3, <1>5, <1>6 DEF NothingGathered
  <2>2. microbatch' = IF ends THEN 0 ELSE microbatch + 1
    BY DEF RootPostBackward
  <2>3. CASE Len(used) = Len(job.uses)
    <3>1. ends
      BY <2>3 DEF IsLastMicrobatch
    <3>2. pc' = "step" /\ microbatch' = 0 /\ NothingGathered'
      BY <1>1, <2>1, <2>2, <2>3, <3>1
    <3> QED
      BY <1>1, <1>2, <3>2 DEF Rhythm, Computing, Building, Array
  <2>4. CASE Len(used) # Len(job.uses)
    <3>1. pc' = "forward" /\ ~IsLastMicrobatch
      BY <1>1, <2>4 DEF IsLastMicrobatch
    <3>2. microbatch' = IF job.auto_sync THEN 0 ELSE Len(used)
      BY <1>2, <2>2, <3>1
    <3>3. job.auto_sync => NothingGathered'
      BY <2>1
    <3> QED
      BY <1>1, <1>2, <3>1, <3>2, <3>3 DEF Rhythm, Computing, Building, Array
  <2> QED
    BY <2>3, <2>4
<1> QED
  BY <1>8, <1>9

\* Buckets gathered from fresh buffers.
LEMMA AllGatherHolds ==
  ASSUME job \in Jobs, Full, NEW n, NEW g, g = groups[n], Shaped(g), NEW step, NEW r \in Rank,
         \A q \in Rank : Array(weights'[q][n], WeightSize(g)) /\ InnerHolds(weights'[q][n], q, g, step)
  PROVE  AllGather(n)[r] # <<>> /\ BucketHolds(AllGather(n)[r], r, g, step)
<1>1. PICK f : f = [q \in Rank |-> weights'[q][n]]
  OBVIOUS
<1>2. PICK group : group = FsdpGroup(r, g)
  OBVIOUS
<1>3. DOMAIN group \subseteq Nat /\ \A i \in DOMAIN group : group[i] \in Rank
  BY <1>2, MeshOfJob, InnerGroup DEF FsdpGroup, Rank, Shaped
<1>4. PICK b : b = IF WeightsDistributed(g) THEN FlattenSeq([i \in DOMAIN group |-> f[group[i]]]) ELSE f[r]
  OBVIOUS
<1>5. b # <<>> /\ BucketHolds(b, r, g, step)
  <2>1. \A q \in Rank : Array(f[q], WeightSize(g)) /\ InnerHolds(f[q], q, g, step)
    BY <1>1
  <2> QED
    BY <1>2, <1>4, <2>1, GatheredHolds
<1>6. [i \in DOMAIN group |-> f[group[i]]] = [i \in DOMAIN group |-> weights'[group[i]][n]]
  BY <1>1, <1>3
<1>7. AllGather(n)[r] = b
  BY <1>1, <1>2, <1>4, <1>6 DEF AllGather
<1> QED
  BY <1>5, <1>7

LEMMA BeginCycleW ==
  ASSUME OuterRefreshed, GroupsOfParams, Full, Inv, WeightsKnown, Rhythm, BeginCycle
  PROVE  WeightsKnown' /\ Rhythm'
<1>1. /\ pc = "cycle" /\ job \in Jobs /\ pc' = "forward" /\ weights' = weights
      /\ UNCHANGED <<job, groups, value, steps, used, microbatch>>
  BY DEF BeginCycle, At, built, trained, Inv, GroupsKnown
<1>2. PICK N : N = Len(groups) /\ Filled = N /\ Counted = N /\ Filled' = N /\ Counted' = N
  BY <1>1 DEF Filled, Counted
<1>3. N \in Nat /\ Group = 1 .. N
  BY <1>1, <1>2 DEF Inv, GroupsKnown, GroupsOfParams, Group
<1>4. Rank' = Rank /\ Hfsdp' = Hfsdp /\ Param' = Param /\ 0 \in Rank
  BY <1>1, SameSizes, MeshOfJob
<1>5. used = <<>> /\ microbatch = 0 /\ NothingGathered
  BY <1>1 DEF Rhythm, Computing
<1>6. CASE UNCHANGED gathered
  <2>1. WeightsKnown'
    BY <1>1, <1>2, <1>6, WeightsStay
  <2>2. NothingGathered'
    BY <1>1, <1>2, <1>5, <1>6, NothingStays
  <2>3. Rhythm'
    BY <1>1, <1>5, <2>2 DEF Rhythm, Computing, Building, Array
  <2> QED
    BY <2>1, <2>3
<1>7. CASE job.force /\ gathered' = [r \in Rank |-> [n \in Group |-> AllGather(n)[r]]]
  <2>1. ~Hfsdp
    BY <1>1, <1>7 DEF OuterRefreshed, Hfsdp
  <2>2. ASSUME NEW r \in Rank, NEW n \in 1 .. N PROVE CellsKnown(r, n)'
    <3>1. PICK g, c, st : g = groups[n] /\ c = weights[r][n] /\ st = Moved(groups[n])
      OBVIOUS
    <3>2. Shaped(g) /\ g = groups'[n] /\ c = weights'[r][n]
      BY <1>1, <1>2, <3>1 DEF WeightsKnown
    <3>3. st = Moved(groups[n])'
      <4>1. HasGrads(g)' = HasGrads(g)
        BY <1>1, SameSizes
      <4> QED
        BY <1>1, <3>1, <4>1 DEF Moved
    <3>4. ASSUME NEW q \in Rank
          PROVE  /\ Array(weights'[q][n], WeightSize(g)) /\ ViewHolds(weights'[q][n], q, g, st)
                 /\ InnerHolds(weights'[q][n], q, g, st)
      <4>1. CellsKnown(q, n)
        BY <1>2 DEF WeightsKnown
      <4> QED
        BY <1>1, <2>1, <3>1, <4>1 DEF CellsKnown, Fresh
    <3>5. \A q \in Rank : AllGather(n)[q] # <<>> /\ BucketHolds(AllGather(n)[q], q, g, st)
      BY <1>1, <3>1, <3>2, <3>4, AllGatherHolds
    <3>6. PICK b : b = gathered'[r][n] /\ b # <<>> /\ BucketHolds(b, r, g, st) /\ gathered'[0][n] # <<>>
      BY <1>3, <1>4, <1>7, <3>5
    <3>7. /\ Array(c, WeightSize(g)') /\ ViewHolds(c, r, g, st)' /\ InnerHolds(c, r, g, st)'
          /\ BucketHolds(b, r, g, st)'
      <4>1. Array(c, WeightSize(g)) /\ ViewHolds(c, r, g, st) /\ InnerHolds(c, r, g, st)
        BY <3>2, <3>4
      <4>2. /\ ViewHolds(c, r, g, st)' = ViewHolds(c, r, g, st)
            /\ InnerHolds(c, r, g, st)' = InnerHolds(c, r, g, st)
            /\ BucketHolds(b, r, g, st)' = BucketHolds(b, r, g, st)
            /\ WeightSize(g)' = WeightSize(g)
        BY <1>1, SameHolds, SameSizes
      <4> QED
        BY <3>6, <4>1, <4>2
    <3> QED
      BY <3>2, <3>3, <3>6, <3>7 DEF CellsKnown
  <2>3. WeightsKnown'
    <3>1. \A i \in 1 .. N : Shaped(groups[i])'
      BY <1>1, <1>2, SameHolds DEF WeightsKnown
    <3>2. DOMAIN value' = Param' /\ \A n \in Param' : value'[n] \in IF job'.meta THEN {Meta, 1} ELSE {0}
      BY <1>1, <1>4 DEF WeightsKnown
    <3>3. \A r \in Rank' : Array(weights'[r], Filled') /\ Array(gathered'[r], Filled')
      BY <1>1, <1>2, <1>3, <1>4, <1>7 DEF WeightsKnown, Array
    <3> QED
      BY <1>2, <1>4, <2>2, <3>1, <3>2, <3>3 DEF WeightsKnown
  <2>4. Rhythm'
    BY <1>1, <1>4, <1>5, <2>1 DEF Rhythm, Computing, Building, Array
  <2> QED
    BY <2>3, <2>4
<1> QED
  BY <1>6, <1>7 DEF BeginCycle

LEMMA ForwardW ==
  ASSUME OuterRefreshed, GroupsOfParams, Full, Inv, WeightsKnown, Rhythm, Forward
  PROVE  WeightsKnown' /\ Rhythm'
<1>1. /\ pc = "forward" /\ job \in Jobs /\ pc' = "backward"
      /\ UNCHANGED <<job, groups, value, steps, microbatch>>
  BY DEF Forward, At, built, Inv, GroupsKnown
<1>2. PICK N : N = Len(groups) /\ Filled = N /\ Counted = N /\ Filled' = N /\ Counted' = N
  BY <1>1 DEF Filled, Counted
<1>3. N \in Nat /\ Group = 1 .. N /\ Group' = 1 .. N
  BY <1>1, <1>2 DEF Inv, GroupsKnown, GroupsOfParams, Group
<1>4. Rank' = Rank /\ Hfsdp' = Hfsdp /\ Param' = Param /\ 0 \in Rank
  BY <1>1, SameSizes, MeshOfJob
<1>5. PICK m \in Nat : /\ m = Len(used) /\ Array(used, m)
                       /\ microbatch = (IF job.auto_sync THEN 0 ELSE m)
                       /\ (job.auto_sync \/ used = <<>>) /\ Hfsdp => NothingGathered
                       /\ used = <<>> <=> m = 0
  BY <1>1, EmptyArray DEF Rhythm
<1>6. PICK use \in job.uses[m + 1] :
         /\ used' = Append(used, use)
         /\ Gather(Needed(use), GathersOuter)
  BY <1>5 DEF Forward, HasWeights, Full
<1>7. Array(used', m + 1) /\ Len(used') = m + 1 /\ used'[m + 1] = use /\ used' # <<>>
  <2>1. PICK u, v : u = used /\ v = Append(u, use)
    OBVIOUS
  <2>2. v = [i \in 1 .. m + 1 |-> v[i]] /\ v[m + 1] = use
    <3>1. u = [i \in 1 .. m |-> u[i]]
      BY <1>5, <2>1 DEF Array
    <3> QED
      BY <2>1, <3>1, Appended
  <2>3. Array(v, m + 1) /\ m + 1 \in Nat /\ m + 1 # 0
    BY <2>2 DEF Array
  <2>4. Len(v) = m + 1 /\ v # <<>>
    BY <2>3, LengthOf, EmptyArray
  <2> QED
    BY <1>6, <2>1, <2>2, <2>3, <2>4
<1> PICK needed : needed = Needed(use)
  OBVIOUS
<1>8. PICK outer \in BOOLEAN :
        /\ needed = Needed(use) /\ (outer <=> Hfsdp /\ (job.auto_sync \/ used = <<>>))
        /\ \A r \in Rank, n \in 1 .. N :
             /\ weights'[r][n] = IF n \in needed /\ outer THEN OuterAllGather(r, n) ELSE weights[r][n]
             /\ gathered'[r][n] = IF n \in needed THEN AllGather(n)[r] ELSE gathered[r][n]
        /\ \A r \in Rank : Array(weights'[r], N) /\ Array(gathered'[r], N)
  <2>1. GathersOuter <=> Hfsdp /\ (job.auto_sync \/ used = <<>>)
    BY <1>5 DEF GathersOuter
  <2>2. GathersOuter \in BOOLEAN
    BY DEF GathersOuter
  <2>3. /\ \A r \in Rank, n \in 1 .. N :
             /\ weights'[r][n] = IF n \in Needed(use) /\ GathersOuter THEN OuterAllGather(r, n) ELSE weights[r][n]
             /\ gathered'[r][n] = IF n \in Needed(use) THEN AllGather(n)[r] ELSE gathered[r][n]
        /\ \A r \in Rank : Array(weights'[r], N) /\ Array(gathered'[r], N)
    BY <1>3, <1>6 DEF Gather, Array
  <2> QED
    BY <2>1, <2>2, <2>3
<1>9. ASSUME NEW n \in 1 .. N, n \notin needed
      PROVE  gathered[0][n] # <<>> \/ Range(groups[n].params) \cap use = {}
  BY <1>3, <1>8, <1>9 DEF Needed
<1>10. ASSUME NEW n \in 1 .. N, NEW g, g = groups[n], NEW st, st = Moved(g), NEW r \in Rank
       PROVE  /\ Array(weights[r][n], WeightSize(g)) /\ ViewHolds(weights[r][n], r, g, st)
              /\ Fresh(r, n) => InnerHolds(weights[r][n], r, g, st)
              /\ gathered[r][n] # <<>> => BucketHolds(gathered[r][n], r, g, st)
              /\ gathered[r][n] = <<>> <=> gathered[0][n] = <<>>
              /\ Shaped(g)
  BY <1>2, <1>10 DEF WeightsKnown, CellsKnown
<1>11. ASSUME NEW n \in 1 .. N, NEW g, g = groups[n], NEW st, st = Moved(g), NEW r \in Rank, n \in needed
       PROVE  Array(weights'[r][n], WeightSize(g)) /\ InnerHolds(weights'[r][n], r, g, st)
  <2>1. CASE outer
    <3>1. PICK f : f = [q \in Rank |-> weights[q][n]]
      OBVIOUS
    <3>2. PICK group, size : group = OuterGroup(r, g) /\ size = Len(f[r]) \div Len(group)
      OBVIOUS
    <3>3. \A q \in Rank : Array(f[q], WeightSize(g)) /\ ViewHolds(f[q], q, g, st)
      BY <1>10, <1>11, <3>1
    <3>4. PICK c : c = FlattenSeq([i \in DOMAIN group |-> Part(f[group[i]], (i - 1) * size, size)])
      OBVIOUS
    <3>5. Array(c, WeightSize(g)) /\ InnerHolds(c, r, g, st)
      <4>1. job \in Jobs /\ Hfsdp
        BY <1>1, <1>8, <2>1
      <4>2. Shaped(g)
        BY <1>10, <1>11
      <4> QED
        BY ONLY <3>2, <3>3, <3>4, <4>1, <4>2, Full, r \in Rank, OuterHolds
    <3>6. \A i \in DOMAIN group : group[i] \in Rank
      <4>1. IsMesh(job.mesh) /\ r \in Ranks(job.mesh) /\ g.attrs.expert \in BOOLEAN
        BY <1>1, <1>10, <1>11, MeshOfJob DEF Rank, Shaped
      <4>2. group = GetOuterFsdpGroup(job.mesh, r, g.attrs.expert)
        BY <3>2 DEF OuterGroup
      <4> QED
        BY ONLY <4>1, <4>2, OuterGroupOf DEF Rank
    <3>7. size = Len(weights[r][n]) \div Len(group)
      BY <3>1, <3>2
    <3>8. \A i \in DOMAIN group : f[group[i]] = weights[group[i]][n]
      BY <3>1, <3>6
    <3>9. OuterAllGather(r, n) = c
      BY <1>11, <3>2, <3>4, <3>7, <3>8 DEF OuterAllGather
    <3> QED
      BY <1>8, <1>11, <2>1, <3>5, <3>9
  <2>2. CASE ~outer
    <3>1. Fresh(r, n)
      BY <1>8, <2>2 DEF Fresh
    <3> QED
      BY <1>8, <1>10, <1>11, <2>2, <3>1
  <2> QED
    BY <2>1, <2>2
<1>12. ASSUME NEW r \in Rank, NEW n \in 1 .. N
       PROVE  CellsKnown(r, n)' /\ (Range(groups[n].params) \cap use # {} => gathered'[r][n] # <<>>)
  <2>1. PICK g, st : g = groups[n] /\ st = Moved(g) /\ g = groups'[n]
    BY <1>1
  <2>2. st = Moved(groups[n])'
    <3>1. HasGrads(g)' = HasGrads(g)
      BY <1>1, SameSizes
    <3> QED
      BY <1>1, <2>1, <3>1 DEF Moved
  <2>3. PICK c, b : c = weights'[r][n] /\ b = gathered'[r][n]
    OBVIOUS
  <2>4. Shaped(g)
    BY <1>10, <2>1
  <2>5. /\ Array(c, WeightSize(g)) /\ ViewHolds(c, r, g, st)
        /\ Fresh(r, n)' => InnerHolds(c, r, g, st)
        /\ b # <<>> => BucketHolds(b, r, g, st)
        /\ b = <<>> <=> gathered'[0][n] = <<>>
        /\ Range(g.params) \cap use # {} => b # <<>>
    <3>1. CASE n \in needed
      <4>1. Array(c, WeightSize(g)) /\ InnerHolds(c, r, g, st)
        BY <1>11, <2>1, <2>3, <3>1
      <4>2. ViewHolds(c, r, g, st)
        BY <1>1, <2>4, <4>1, InnerHasView
      <4>3. \A q \in Rank : AllGather(n)[q] # <<>> /\ BucketHolds(AllGather(n)[q], q, g, st)
        BY <1>1, <1>11, <2>1, <2>4, <3>1, AllGatherHolds
      <4>4. b # <<>> /\ BucketHolds(b, r, g, st) /\ gathered'[0][n] # <<>>
        BY <1>4, <1>8, <2>3, <3>1, <4>3
      <4> QED
        BY <4>1, <4>2, <4>4
    <3>2. CASE n \notin needed
      <4>1. c = weights[r][n] /\ b = gathered[r][n] /\ gathered'[0][n] = gathered[0][n]
        BY <1>4, <1>8, <2>3, <3>2
      <4>2. gathered[0][n] # <<>> \/ Range(g.params) \cap use = {}
        BY <1>9, <2>1, <3>2
      <4>3. Fresh(r, n)' => Fresh(r, n)
        <5> SUFFICES ASSUME Fresh(r, n)', ~Fresh(r, n) PROVE FALSE
          OBVIOUS
        <5>1. Hfsdp /\ b = <<>> /\ (job.auto_sync \/ used = <<>>)
          BY <4>1 DEF Fresh
        <5>2. ~job.auto_sync /\ used = <<>>
          BY <1>1, <1>4, <2>3, <5>1 DEF Fresh
        <5>3. gathered[0][n] = <<>>
          BY <1>2, <1>4, <1>5, <5>1, <5>2 DEF NothingGathered
        <5>4. Param \subseteq use
          <6>1. m + 1 = 1
            BY <1>5, <5>2
          <6> QED
            BY <1>1, <1>6, <5>1, <5>2, <6>1 DEF OuterRefreshed, Hfsdp, Param
        <5>5. Range(g.params) \cap use # {}
          <6>1. 1 \in DOMAIN g.params /\ g.params[1] \in Param
            BY <2>4 DEF Shaped
          <6>2. g.params[1] \in Range(g.params)
            BY <6>1 DEF Range
          <6> QED
            BY <5>4, <6>1, <6>2
        <5> QED
          BY <4>2, <5>3, <5>5
      <4> QED
        BY <1>10, <2>1, <4>1, <4>2, <4>3
    <3> QED
      BY <3>1, <3>2
  <2>6. /\ ViewHolds(c, r, g, st)' = ViewHolds(c, r, g, st)
        /\ InnerHolds(c, r, g, st)' = InnerHolds(c, r, g, st)
        /\ BucketHolds(b, r, g, st)' = BucketHolds(b, r, g, st)
        /\ WeightSize(g)' = WeightSize(g)
    BY <1>1, SameHolds, SameSizes
  <2> QED
    BY <2>1, <2>2, <2>3, <2>5, <2>6 DEF CellsKnown
<1>13. WeightsKnown'
  <2>1. \A i \in 1 .. N : Shaped(groups[i])'
    BY <1>1, <1>2, SameHolds DEF WeightsKnown
  <2>2. DOMAIN value' = Param' /\ \A n \in Param' : value'[n] \in IF job'.meta THEN {Meta, 1} ELSE {0}
    BY <1>1, <1>4 DEF WeightsKnown
  <2> QED
    BY <1>2, <1>4, <1>8, <1>12, <2>1, <2>2 DEF WeightsKnown
<1>14. Rhythm'
  <2>1. microbatch' = IF job'.auto_sync THEN 0 ELSE Len(used') - 1
    BY <1>1, <1>5, <1>7
  <2>2. \A r \in Rank', n \in Group' :
          Range(groups'[n].params) \cap used'[Len(used')] # {} => gathered'[r][n] # <<>>
    BY <1>1, <1>3, <1>4, <1>7, <1>12
  <2>3. Len(used') \in Nat /\ Array(used', Len(used'))
    BY <1>7
  <2> QED
    BY <1>1, <1>7, <2>1, <2>2, <2>3 DEF Rhythm, Computing, Building, Array
<1> QED
  BY <1>13, <1>14

LEMMA MovedCell ==
  ASSUME NEW c, NEW r, NEW g, NEW k, NEW step, Right(c, r, g, k, step)
  PROVE  Right([c EXCEPT !.step = @ + 1], r, g, k, step + 1)
<1> SUFFICES ASSUME ElementAt(g, k) # NoElement
             PROVE  [c EXCEPT !.step = @ + 1] = Weight(r, g, k, Initial, step + 1)
  BY DEF Right
<1>1. c = Weight(r, g, k, Initial, step)
  BY DEF Right
<1>2. PICK e, o, i : e = ElementAt(g, k) /\ o = Owner(r, g) /\ i = Initial
  OBVIOUS
<1>3. c = [at |-> e, owner |-> o, init |-> i, step |-> step]
  BY <1>1, <1>2 DEF Weight
<1>4. [c EXCEPT !.step = @ + 1] = [at |-> e, owner |-> o, init |-> i, step |-> step + 1]
  BY <1>3
<1> QED
  BY <1>2, <1>4 DEF Weight

\* The view after a step of the optimizer.
LEMMA MovedHolds ==
  ASSUME job \in Jobs, Full, NEW g, Shaped(g), NEW r \in Rank, NEW step,
         NEW c, Array(c, WeightSize(g)), ViewHolds(c, r, g, step),
         NEW start, start = ViewStart(r, g, WeightSize(g)),
         NEW moved, moved = [k \in DOMAIN c |-> [c[k] EXCEPT !.step = @ + 1]]
  PROVE  LET d == Paste(c, start, Part(moved, start, ShardSize(g)))
         IN Array(d, WeightSize(g)) /\ ViewHolds(d, r, g, step + 1)
<1>1. PICK n \in Nat \ {0}, w \in Nat \ {0}, s \in Nat \ {0}, i \in Nat, lo \in Nat : Lay(r, g, n, w, s, i, lo)
  BY LaidOut
<1>2. /\ lo + s <= w /\ WeightSize(g) = w /\ ShardSize(g) = s /\ ViewStart(r, g, w) = lo /\ start = lo
  BY <1>1 DEF Lay
<1>3. Array(moved, w) /\ \A k \in 1 .. w : moved[k] = [c[k] EXCEPT !.step = @ + 1]
  <2>1. DOMAIN c = 1 .. w
    BY <1>2, LengthOf
  <2> QED
    BY <2>1 DEF Array
<1>4. PICK p : p = Part(moved, lo, s) /\ IsPart(p, moved, lo, s)
  BY <1>2, <1>3, PartIs
<1>5. Array(p, s) /\ \A k \in 1 .. s : p[k] = moved[lo + k]
  BY <1>4 DEF IsPart
<1>6. PICK d : d = Paste(c, lo, p)
  OBVIOUS
<1>7. Array(d, w) /\ \A k \in 1 .. w : k > lo /\ k <= lo + s => d[k] = p[k - lo]
  BY <1>2, <1>5, <1>6, PasteIs
<1>8. ASSUME NEW k \in 1 .. s PROVE Right(d[lo + k], r, g, ShardStart(r, g) + k, step + 1)
  <2>1. PICK e \in 1 .. w : e = lo + k /\ e > lo /\ e <= lo + s /\ e - lo = k
    BY <1>2
  <2>2. d[e] = p[e - lo] /\ p[k] = moved[e]
    BY <1>5, <1>7, <2>1
  <2>3. d[e] = [c[e] EXCEPT !.step = @ + 1]
    BY <1>3, <2>1, <2>2
  <2>4. Right(c[e], r, g, ShardStart(r, g) + k, step)
    BY <1>2, <2>1 DEF ViewHolds
  <2> QED
    BY <2>1, <2>3, <2>4, MovedCell
<1>9. ViewHolds(d, r, g, step + 1)
  BY <1>2, <1>8 DEF ViewHolds
<1> QED
  BY <1>2, <1>4, <1>6, <1>7, <1>9

LEMMA OptimizerStepW ==
  ASSUME GroupsOfParams, Full, Inv, WeightsKnown, Rhythm, OptimizerStep
  PROVE  WeightsKnown' /\ Rhythm'
<1>1. /\ pc = "step" /\ job \in Jobs /\ pc' = "cycle" /\ used' = <<>> /\ steps' = steps + 1
      /\ UNCHANGED <<job, groups, value, gathered, microbatch>>
  BY DEF OptimizerStep, At, built, Inv, GroupsKnown
<1>2. PICK N : N = Len(groups) /\ Filled = N /\ Counted = N /\ Filled' = N /\ Counted' = N
  BY <1>1 DEF Filled, Counted
<1>3. N \in Nat /\ Group = 1 .. N
  BY <1>1, <1>2 DEF Inv, GroupsKnown, GroupsOfParams, Group
<1>4. Rank' = Rank /\ Hfsdp' = Hfsdp /\ Param' = Param /\ 0 \in Rank
  BY <1>1, SameSizes, MeshOfJob
<1>5. microbatch = 0 /\ NothingGathered
  BY <1>1 DEF Rhythm, Computing
<1>6. HasWeights
  BY DEF HasWeights, Full
<1>7. ASSUME NEW r \in Rank, NEW n \in 1 .. N PROVE CellsKnown(r, n)'
  <2>1. PICK g, c : g = groups[n] /\ c = weights[r][n] /\ g = groups'[n]
    BY <1>1
  <2>2. Shaped(g) /\ Array(c, WeightSize(g)) /\ ViewHolds(c, r, g, Moved(g))
    BY <1>2, <2>1 DEF WeightsKnown, CellsKnown
  <2>3. gathered'[r][n] = <<>> /\ gathered'[0][n] = <<>>
    BY <1>1, <1>2, <1>4, <1>5 DEF NothingGathered
  <2>4. PICK st, d : /\ d = weights'[r][n] /\ st = Moved(groups[n])'
                     /\ Array(d, WeightSize(g)) /\ ViewHolds(d, r, g, st)
    <3>1. HasGrads(g)' = HasGrads(g)
      BY <1>1, SameSizes
    <3>2. CASE HasGrads(g)
      <4>1. Moved(g) = steps /\ Moved(groups[n])' = steps + 1
        BY <1>1, <2>1, <3>1, <3>2 DEF Moved
      <4>2. PICK start, moved : /\ start = ViewStart(r, g, WeightSize(g))
                                /\ moved = [k \in DOMAIN c |-> [c[k] EXCEPT !.step = @ + 1]]
        OBVIOUS
      <4>3. weights'[r][n] = Paste(c, start, Part(moved, start, ShardSize(g)))
        BY <1>3, <1>6, <2>1, <3>2, <4>2 DEF OptimizerStep
      <4>4. /\ Array(Paste(c, start, Part(moved, start, ShardSize(g))), WeightSize(g))
            /\ ViewHolds(Paste(c, start, Part(moved, start, ShardSize(g))), r, g, steps + 1)
        BY <1>1, <2>2, <4>1, <4>2, MovedHolds
      <4> QED
        BY <4>1, <4>3, <4>4
    <3>3. CASE ~HasGrads(g)
      <4>1. Moved(g) = 0 /\ Moved(groups[n])' = 0
        BY <1>1, <2>1, <3>1, <3>3 DEF Moved
      <4>2. weights'[r][n] = c
        BY <1>3, <1>6, <2>1, <3>3 DEF OptimizerStep
      <4> QED
        BY <2>2, <4>1, <4>2
    <3> QED
      BY <3>2, <3>3
  <2>5. Fresh(r, n)' => InnerHolds(d, r, g, st)
    <3>1. Fresh(r, n)' => ~Hfsdp
      BY <1>1, <1>4, <2>3 DEF Fresh
    <3> QED
      BY <1>1, <2>2, <2>4, <3>1, ViewIsInner
  <2>6. /\ ViewHolds(d, r, g, st)' = ViewHolds(d, r, g, st)
        /\ InnerHolds(d, r, g, st)' = InnerHolds(d, r, g, st)
        /\ WeightSize(g)' = WeightSize(g)
    BY <1>1, SameHolds, SameSizes
  <2> QED
    BY <2>1, <2>3, <2>4, <2>5, <2>6 DEF CellsKnown
<1>8. WeightsKnown'
  <2>1. \A i \in 1 .. N : Shaped(groups[i])'
    BY <1>1, <1>2, SameHolds DEF WeightsKnown
  <2>2. DOMAIN value' = Param' /\ \A n \in Param' : value'[n] \in IF job'.meta THEN {Meta, 1} ELSE {0}
    BY <1>1, <1>4 DEF WeightsKnown
  <2>3. \A r \in Rank' : Array(weights'[r], Filled') /\ Array(gathered'[r], Filled')
    <3>1. \A r \in Rank : Array(gathered[r], N)
      BY <1>2 DEF WeightsKnown
    <3>2. \A r \in Rank : Array(weights'[r], N)
      BY <1>3 DEF OptimizerStep, Array
    <3> QED
      BY <1>1, <1>2, <1>4, <3>1, <3>2
  <2> QED
    BY <1>2, <1>4, <1>7, <2>1, <2>2, <2>3 DEF WeightsKnown
<1>9. Rhythm'
  <2>1. NothingGathered'
    BY <1>1, <1>2, <1>5, NothingStays
  <2>2. Len(<<>>) = 0 /\ Array(<<>>, 0)
    BY DEF Array
  <2> QED
    BY <1>1, <1>5, <2>1, <2>2 DEF Rhythm, Computing, Building
<1> QED
  BY <1>8, <1>9

LEMMA WInvNext ==
  ASSUME JobsAssumption, OuterRefreshed, GroupsOfParams, Inv, WInv, [Next]_vars
  PROVE  WInv'
<1>1. job' = job
  BY DEF Next, vars, built, trained, GroupParameters, CreateBuffers, InitWeights, AllocGrads,
         InitDistributedParams, FullyShardOptimizer, StateDict, BeginCycle, Forward, Backward,
         OuterReduction, RootPostBackward, OptimizerStep
<1>2. Full' = Full
  BY <1>1, SameSizes
<1> SUFFICES ASSUME Full PROVE WeightsKnown' /\ Rhythm'
  BY <1>2 DEF WInv
<1>3. WeightsKnown /\ Rhythm
  BY DEF WInv
<1>4. CASE UNCHANGED vars
  <2>1. UNCHANGED <<job, pc, at, groups, value, weights, gathered, steps, used, microbatch>>
    BY <1>4 DEF vars, built, trained
  <2>2. Filled' = Filled /\ Counted' = Counted
    BY <2>1 DEF Filled, Counted
  <2>3. WeightsKnown'
    BY <1>3, <2>1, <2>2, WeightsStay
  <2>4. Rank' = Rank /\ Hfsdp' = Hfsdp /\ Group' = Group
    BY <2>1, SameSizes DEF Group
  <2>5. NothingGathered' = NothingGathered
    BY <2>1, <2>2, <2>4 DEF NothingGathered
  <2>6. Rhythm'
    BY <1>3, <2>1, <2>4, <2>5 DEF Rhythm, Array
  <2> QED
    BY <2>3, <2>6
<1>5. CASE GroupParameters
  BY <1>3, <1>5, GroupParametersW
<1>6. CASE CreateBuffers
  BY <1>3, <1>6, CreateBuffersW
<1>7. CASE InitWeights
  BY <1>3, <1>7, InitWeightsW
<1>8. CASE AllocGrads
  <2>1. /\ pc = "alloc" /\ UNCHANGED <<job, groups, value, weights, gathered, steps, used, microbatch>>
        /\ UNCHANGED pc \/ Advance("register")
    BY <1>8 DEF AllocGrads, At, trained
  <2>2. pc' \in {"alloc", "register"}
    BY <2>1 DEF Advance
  <2> QED
    BY <1>3, <2>1, <2>2, QuietW
<1>9. CASE InitDistributedParams
  <2>1. /\ pc = "register" /\ UNCHANGED <<job, groups, value, weights, gathered, steps, used, microbatch>>
        /\ UNCHANGED pc \/ Advance("wrap")
    BY <1>9 DEF InitDistributedParams, At, trained
  <2>2. pc' \in {"register", "wrap"}
    BY <2>1 DEF Advance
  <2> QED
    BY <1>3, <2>1, <2>2, QuietW
<1>10. CASE FullyShardOptimizer
  <2>1. pc = "wrap" /\ pc' = "cycle" /\ UNCHANGED <<job, groups, value, weights, gathered, steps, used, microbatch>>
    BY <1>10 DEF FullyShardOptimizer, At, trained
  <2> QED
    BY <1>3, <2>1, QuietW
<1>11. CASE StateDict
  <2>1. pc = "cycle" /\ pc' = "cycle" /\ UNCHANGED <<job, groups, value, weights, gathered, steps, used, microbatch>>
    BY <1>11 DEF StateDict, At, trained
  <2> QED
    BY <1>3, <2>1, QuietW
<1>12. CASE BeginCycle
  BY <1>3, <1>12, BeginCycleW
<1>13. CASE Forward
  BY <1>3, <1>13, ForwardW
<1>14. CASE Backward
  <2>1. /\ pc = "backward" /\ pc' \in {"reduce_outer", "root_post_backward"}
        /\ UNCHANGED <<job, groups, value, weights, gathered, steps, used, microbatch>>
    BY <1>14 DEF Backward, At, built, trained
  <2> QED
    BY <1>3, <2>1, ComputingW
<1>15. CASE OuterReduction
  <2>1. /\ pc = "reduce_outer" /\ pc' = "root_post_backward"
        /\ UNCHANGED <<job, groups, value, weights, gathered, steps, used, microbatch>>
    BY <1>15 DEF OuterReduction, At, built, trained
  <2> QED
    BY <1>3, <2>1, ComputingW
<1>16. CASE RootPostBackward
  BY <1>3, <1>16, RootPostBackwardW
<1>17. CASE OptimizerStep
  BY <1>3, <1>17, OptimizerStepW
<1> QED
  BY <1>4, <1>5, <1>6, <1>7, <1>8, <1>9, <1>10, <1>11, <1>12, <1>13, <1>14, <1>15, <1>16, <1>17 DEF Next

LEMMA WeightsAreCurrent ==
  ASSUME GroupsOfParams, Inv, WInv PROVE WeightsCurrent
<1> SUFFICES ASSUME pc = "backward", Full, NEW r \in Rank, NEW n \in Group
             PROVE  /\ Range(groups[n].params) \cap used[Len(used)] # {} => gathered[r][n] # <<>>
                    /\ gathered[r][n] # <<>> =>
                         \A k \in 1 .. BucketSize(groups[n]) :
                           LET e == ElementAt(groups[n], k)
                           IN e # NoElement =>
                                gathered[r][n][k] =
                                  Weight(r, groups[n], k, IF job.meta THEN 1 ELSE 0,
                                         IF HasGrads(groups[n]) THEN steps ELSE 0)
  BY DEF WeightsCurrent, Full
<1>1. WeightsKnown /\ Rhythm
  BY DEF WInv
<1>2. n \in 1 .. Filled
  BY DEF Inv, GroupsKnown, GroupsOfParams, Group, Filled
<1>3. gathered[r][n] # <<>> => BucketHolds(gathered[r][n], r, groups[n], Moved(groups[n]))
  BY <1>1, <1>2 DEF WeightsKnown, CellsKnown
<1> QED
  BY <1>1, <1>3 DEF Rhythm, BucketHolds, Right, Moved, Initial

\* all_gather_and_wait_parameters_ready: whenever a module computes, the buckets
\* gathered for it hold every element in its place, of the rank's own experts,
\* initialised and as of the last optimizer step: for every model, mesh, strategy
\* and way of training in which weights gathered over the outer group are not used
\* again after a step.
THEOREM GatheredWeightsCurrent ==
  ASSUME OuterRefreshed PROVE Spec => []WeightsCurrent
<1>0. GroupsOfParams /\ GroupsArePlanned
  BY ParamsGrouped, GroupsPlanned
<1>1. Init => Inv /\ WInv
  BY InvInit, WInvInit, JobsAssumption
<1>2. Inv /\ WInv /\ [Next]_vars => Inv' /\ WInv'
  BY <1>0, InvNext, WInvNext, JobsAssumption
<1>3. Inv /\ WInv => WeightsCurrent
  BY <1>0, WeightsAreCurrent
<1> QED
  BY <1>1, <1>2, <1>3, PTL DEF Spec

----------------------------------------------------------------------------
(* The members of process groups, and sums over them.                      *)

LEMMA InOrderAll ==
  ASSUME NEW S, S \subseteq Int, IsFiniteSet(S) PROVE Range(InOrder(S)) = S
<1> DEFINE before == {pair \in S \X S : pair[1] < pair[2]}
           n == Cardinality(S)
<1>1. ASSUME NEW r \in S PROVE {q \in S : <<q, r>> \in before} = {q \in S : q < r}
  OBVIOUS
<1>2. InAscendingOrder(S) = [k \in 1 .. n |-> CHOOSE r \in S : Cardinality({q \in S : <<q, r>> \in before}) = k - 1]
  BY DEF InAscendingOrder, InTheOrderOf
<1>3. InOrder(S) = [k \in 1 .. n |-> CHOOSE r \in S : Cardinality({q \in S : q < r}) = k - 1]
  BY DEF InOrder
<1>4. ASSUME NEW k \in 1 .. n
      PROVE  (CHOOSE r \in S : Cardinality({q \in S : <<q, r>> \in before}) = k - 1)
               = (CHOOSE r \in S : Cardinality({q \in S : q < r}) = k - 1)
  <2> DEFINE Lower(r) == Cardinality({q \in S : <<q, r>> \in before}) = k - 1
             Under(r) == Cardinality({q \in S : q < r}) = k - 1
  <2>1. \A r \in S : Lower(r) <=> Under(r)
    BY <1>1
  <2> HIDE DEF Lower, Under
  <2>2. (CHOOSE r \in S : Lower(r)) = (CHOOSE r \in S : Under(r))
    BY <2>1
  <2> QED
    BY <2>2 DEF Lower, Under
<1>5. InOrder(S) = InAscendingOrder(S)
  BY <1>2, <1>3, <1>4
<1>6. Lists(InAscendingOrder(S), S)
  BY AscendingAll
<1> QED
  BY <1>5, <1>6, InRange DEF Lists

LEMMA RanksFinite ==
  ASSUME NEW mesh, IsMesh(mesh) PROVE IsFiniteSet(Ranks(mesh)) /\ Ranks(mesh) \subseteq Int
<1>1. PICK t \in Nat, s \in Nat : t = mesh.outer /\ s = mesh.shard
  BY DEF IsMesh
<1>2. t * s - 1 \in Int
  OBVIOUS
<1> QED
  BY <1>1, <1>2, FS_Interval DEF Ranks

LEMMA SomePeers ==
  ASSUME NEW mesh, IsMesh(mesh), NEW r, NEW expert, NEW S \in SUBSET Peers(mesh, r, expert)
  PROVE  Range(InOrder(S)) = S
<1>1. Peers(mesh, r, expert) \subseteq Ranks(mesh)
  BY DEF Peers
<1>2. S \subseteq Int /\ IsFiniteSet(S)
  BY <1>1, RanksFinite, FS_Subset
<1> QED
  BY <1>2, InOrderAll

LEMMA GroupMembers ==
  ASSUME NEW mesh, IsMesh(mesh), NEW r, NEW expert, NEW q
  PROVE  /\ q \in Range(GetFsdpGroup(mesh, r, expert))
              <=> q \in Peers(mesh, r, expert) /\ OuterRank(mesh, q) = OuterRank(mesh, r)
         /\ q \in Range(GetOuterFsdpGroup(mesh, r, expert))
              <=> q \in Peers(mesh, r, expert) /\ InnerRank(mesh, q) = InnerRank(mesh, r)
         /\ q \in Range(InOrder(Peers(mesh, r, expert))) <=> q \in Peers(mesh, r, expert)
<1>1. PICK s : s = {p \in Peers(mesh, r, expert) : OuterRank(mesh, p) = OuterRank(mesh, r)}
  OBVIOUS
<1>2. PICK t : t = {p \in Peers(mesh, r, expert) : InnerRank(mesh, p) = InnerRank(mesh, r)}
  OBVIOUS
<1>3. GetFsdpGroup(mesh, r, expert) = InOrder(s) /\ GetOuterFsdpGroup(mesh, r, expert) = InOrder(t)
  BY <1>1, <1>2 DEF GetFsdpGroup, GetOuterFsdpGroup
<1>4. s \in SUBSET Peers(mesh, r, expert) /\ t \in SUBSET Peers(mesh, r, expert)
  BY <1>1, <1>2
<1>5. Range(InOrder(s)) = s /\ Range(InOrder(t)) = t
  BY <1>4, SomePeers
<1>6. Range(InOrder(Peers(mesh, r, expert))) = Peers(mesh, r, expert)
  BY SomePeers
<1>7. q \in Range(GetFsdpGroup(mesh, r, expert))
              <=> q \in Peers(mesh, r, expert) /\ OuterRank(mesh, q) = OuterRank(mesh, r)
  BY <1>1, <1>3, <1>5
<1>8. q \in Range(GetOuterFsdpGroup(mesh, r, expert))
              <=> q \in Peers(mesh, r, expert) /\ InnerRank(mesh, q) = InnerRank(mesh, r)
  BY <1>2, <1>3, <1>5
<1> QED
  BY <1>6, <1>7, <1>8

\* The sum of what ranks have in a cell, of which at most one has something.
SummedUp(cells, k, c, S, g) ==
  g = [s \in SUBSET S |-> IF s = {} THEN 0 ELSE cells[Picked(s)][k][c] + g[s \ {Picked(s)}]]

Total(cells, k, c, S) == MapThenSumSet(LAMBDA q : cells[q][k][c], S)

LEMMA CellsChosen ==
  ASSUME NEW cells, NEW k, NEW c, NEW S
  PROVE  Total(cells, k, c, S) = (CHOOSE g : SummedUp(cells, k, c, S, g))[S]
<1>1. Total(cells, k, c, S)
        = MapThenFoldSet(+, 0, LAMBDA q : cells[q][k][c], LAMBDA s : CHOOSE x \in s : TRUE, S)
  BY DEF Total, MapThenSumSet
<1>2. MapThenFoldSet(+, 0, LAMBDA q : cells[q][k][c], LAMBDA s : CHOOSE x \in s : TRUE, S)
        = (CHOOSE g : g = [s \in SUBSET S |->
             IF s = {} THEN 0 ELSE cells[CHOOSE x \in s : TRUE][k][c] + g[s \ {CHOOSE x \in s : TRUE}]])[S]
  BY DEF MapThenFoldSet
<1> QED
  BY <1>1, <1>2 DEF SummedUp, Picked

LEMMA TotalSums ==
  ASSUME NEW S, IsFiniteSet(S), NEW cells, NEW k, NEW c, \A q \in S : cells[q][k][c] \in Int
  PROVE  \E g : SumsUp(g, [q \in S |-> cells[q][k][c]], S) /\ Total(cells, k, c, S) = g[S]
<1> DEFINE h == [q \in S |-> cells[q][k][c]]
           chosen == CHOOSE g : SummedUp(cells, k, c, S, g)
<1>1. h \in [S -> Int] /\ \A q \in S : h[q] = cells[q][k][c]
  OBVIOUS
<1> HIDE DEF h
<1>2. PICK g \in [SUBSET S -> Int] : SumTable(g, h, S)
  BY <1>1, SumTableExists
<1>3. SummedUp(cells, k, c, S, g)
  <2>1. ASSUME NEW s \in SUBSET S
        PROVE  g[s] = IF s = {} THEN 0 ELSE cells[Picked(s)][k][c] + g[s \ {Picked(s)}]
    <3>1. s # {} => h[Picked(s)] = cells[Picked(s)][k][c]
      BY <1>1, PickedIn
    <3> QED
      BY <1>2, <3>1 DEF SumTable
  <2> QED
    BY <1>2, <2>1 DEF SummedUp
<1>4. SummedUp(cells, k, c, S, chosen)
  BY <1>3
<1> HIDE DEF chosen
<1>5. SumTable(chosen, h, S)
  <2>1. ASSUME NEW s \in SUBSET S
        PROVE  chosen[s] = IF s = {} THEN 0 ELSE h[Picked(s)] + chosen[s \ {Picked(s)}]
    <3>1. s # {} => h[Picked(s)] = cells[Picked(s)][k][c]
      BY <1>1, PickedIn
    <3> QED
      BY <1>4, <3>1 DEF SummedUp
  <2> QED
    BY <2>1 DEF SumTable
<1>6. SumsUp(chosen, h, S)
  BY <1>1, <1>5, SumAnyOrder
<1> QED
  BY <1>6, CellsChosen DEF h, chosen

LEMMA NoTerms ==
  ASSUME NEW S, IsFiniteSet(S), NEW f, NEW g, SumsUp(g, f, S), NEW T \in SUBSET S, \A q \in T : f[q] = 0
  PROVE  g[T] = 0
<1> DEFINE Good == {s \in SUBSET T : g[s] = 0}
<1>1. IsFiniteSet(T)
  BY FS_Subset
<1>2. {} \in Good
  BY DEF SumsUp
<1>3. ASSUME NEW s \in SUBSET T, s # {},
             \A t \in SUBSET T : Cardinality(t) < Cardinality(s) => t \in Good
      PROVE  s \in Good
  <2>1. PICK x \in s : TRUE
    BY <1>3
  <2>2. Cardinality(s \ {x}) < Cardinality(s) /\ s \ {x} \in SUBSET T
    <3>1. IsFiniteSet(s)
      BY <1>1, FS_Subset
    <3>2. Cardinality(s) \in Nat /\ Cardinality(s \ {x}) \in Nat /\ Cardinality(s) = Cardinality(s \ {x}) + 1
      BY <2>1, <3>1, Fewer
    <3> QED
      BY <3>2
  <2>3. g[s \ {x}] = 0 /\ f[x] = 0
    BY <1>3, <2>1, <2>2
  <2>4. g[s] = f[x] + g[s \ {x}]
    BY <2>1 DEF SumsUp
  <2> QED
    BY <2>3, <2>4
<1> HIDE DEF Good
<1>4. T \in Good
  BY <1>1, <1>2, <1>3, FiniteInduct
<1> QED
  BY <1>4 DEF Good

LEMMA OneTerm ==
  ASSUME NEW S, IsFiniteSet(S), NEW cells, NEW k, NEW c, NEW x,
         \A q \in S : cells[q][k][c] \in Int /\ (q # x => cells[q][k][c] = 0)
  PROVE  Total(cells, k, c, S) = IF x \in S THEN cells[x][k][c] ELSE 0
<1> DEFINE h == [q \in S |-> cells[q][k][c]]
<1>1. \A q \in S : h[q] = cells[q][k][c]
  OBVIOUS
<1>2. PICK g : SumsUp(g, h, S) /\ Total(cells, k, c, S) = g[S]
  BY TotalSums
<1> HIDE DEF h
<1>3. CASE x \in S
  <2>1. g[S] = h[x] + g[S \ {x}]
    BY <1>2, <1>3 DEF SumsUp
  <2>2. S \ {x} \in SUBSET S /\ \A q \in S \ {x} : h[q] = 0
    BY <1>1
  <2>3. g[S \ {x}] = 0
    BY <1>2, <2>2, NoTerms
  <2> QED
    BY <1>1, <1>2, <1>3, <2>1, <2>3
<1>4. CASE x \notin S
  <2>1. S \in SUBSET S /\ \A q \in S : h[q] = 0
    BY <1>1, <1>4
  <2>2. g[S] = 0
    BY <1>2, <2>1, NoTerms
  <2> QED
    BY <1>2, <1>4, <2>2
<1> QED
  BY <1>3, <1>4

----------------------------------------------------------------------------
(* Gradients: whose are in a cell.                                         *)

GradsEach == job.strategy \in {"optim_grads", "optim_grads_params"}

\* The cell of an element of parameter n has, of every rank of Q and microbatch of
\* M that used n, the amount a, and of others none.
Sum(cell, Q, M, a, n, us) ==
  \A q \in Rank, b \in 1 .. Len(job.uses) :
    cell[<<q, b>>] = IF q \in Q /\ b \in M /\ n \in us[b] THEN a ELSE 0

ParamAt(g, k) == ElementAt(g, k).param

\* the amounts before and after the reductions
Scaled == IF ScalingFactor = None \/ job.average THEN Unit ELSE Unit \div DataParallelSize
InnerShare(r, g) ==
  IF job.average /\ ScalingFactor # None THEN Scaled \div Len(FsdpGroup(r, g)) ELSE Scaled
OuterShare(r, g) == IF job.average THEN InnerShare(r, g) \div job.mesh.outer ELSE InnerShare(r, g)

\* where in the bucket the gradient buffer of a rank begins, and the part of the
\* bucket that the rank has after the reduction over its inner group
InnerBase(r, g) == InnerStart(r, g, GradSize(g))
View(r, g) == ViewStart(r, g, GradSize(g))
SpanSize(r, g) == IF HasWeights THEN BucketSize(g) \div Len(FsdpGroup(r, g)) ELSE BucketSize(g)
Span(r, g) == IF HasWeights THEN GroupRank(FsdpGroup(r, g), r) * SpanSize(r, g) ELSE 0

\* A buffer with what m microbatches added: not yet reduced, reduced over the inner
\* group, and over the outer group.
LocalHolds(c, r, g, m, us) ==
  \A k \in 1 .. BucketSize(g) : Sum(c[k], {r}, 1 .. m, Unit, ParamAt(g, k), us)
SpanHolds(c, r, g, m, us) ==
  \A k \in 1 .. SpanSize(r, g) :
    Sum(c[Span(r, g) - InnerBase(r, g) + k], Range(FsdpGroup(r, g)), 1 .. m, InnerShare(r, g),
        ParamAt(g, Span(r, g) + k), us)
OwnHolds(c, r, g, m, us) ==
  \A k \in 1 .. ShardSize(g) :
    Sum(c[View(r, g) + k], Range(DpGroup(r, g)), 1 .. m, OuterShare(r, g),
        ParamAt(g, ShardStart(r, g) + k), us)

\* a group that can be laid out
Formed(g) ==
  /\ g.attrs.expert \in BOOLEAN /\ g.attrs.requires_grad \in BOOLEAN
  /\ g.attrs.expert => \E n \in Param : job.model.params[n].expert
  /\ g.plan.shard_size \in Nat /\ (HasWeights => g.plan.shard_size # 0)

\* the microbatches whose gradients are in the buffers, and whether the outer
\* reduction is done
Added == IF pc = "backward" THEN Len(used) - 1 ELSE Len(used)
Outside == job.mesh.hybrid /\ Len(used) = Len(job.uses) /\ pc \in {"root_post_backward", "step"}

GradsHold(c, r, g, m, us) ==
  /\ Array(c, GradSize(g))
  /\ IF GradSize(g) = BucketSize(g) /\ m < Len(job.uses) THEN LocalHolds(c, r, g, m, us)
     ELSE SpanHolds(c, r, g, m, us)

GradKnown(c, r, g, m, us, out) ==
  HasGrads(g) =>
    IF out THEN Array(c, GradSize(g)) /\ OwnHolds(c, r, g, m, us) ELSE GradsHold(c, r, g, m, us)

GradsKnown ==
  \A r \in Rank :
    /\ Array(grads[r], Handed)
    /\ \A n \in 1 .. Handed : GradKnown(grads[r][n], r, groups[n], Added, used, Outside)

\* how microbatches go by
Passing ==
  /\ pc # "group" /\ Hfsdp => Full
  /\ Len(used) \in Nat /\ Array(used, Len(used)) /\ Len(used) <= Len(job.uses)
  /\ pc \in Building \cup {"cycle"} => used = <<>>
  /\ pc \in Computing => used # <<>>
  /\ pc = "forward" => Len(used) < Len(job.uses)
  /\ pc = "reduce_outer" => ReducesOuter
  /\ pc = "step" => Len(used) = Len(job.uses)

FormedGroups == \A i \in 1 .. Counted : Formed(groups[i])

GInv == FormedGroups /\ Passing /\ GradsKnown

LEMMA ZeroOver == ASSUME NEW d \in Nat \ {0} PROVE 0 \div d = 0
<1>1. 0 \in Nat /\ 0 \in 0 .. d - 1 /\ 0 = 0 * d + 0
  OBVIOUS
<1> QED
  BY ONLY <1>1, d \in Nat \ {0}, DigitOf

LEMMA NoneAdded ==
  ASSUME NEW cell, \A c \in Amounts : cell[c] = 0, NEW Q, NEW a, NEW n, NEW us, NEW M, M = {}
  PROVE  Sum(cell, Q, M, a, n, us)
BY DEF Sum, Amounts

LEMMA PlusSum ==
  ASSUME NEW c, NEW d, NEW Q, NEW M, NEW N, NEW a \in Int, NEW n, NEW us,
         Sum(c, Q, M, a, n, us), Sum(d, Q, N, a, n, us), M \cap N = {}
  PROVE  Sum([x \in Amounts |-> c[x] + d[x]], Q, M \cup N, a, n, us)
<1> SUFFICES ASSUME NEW q \in Rank, NEW b \in 1 .. Len(job.uses)
             PROVE  [x \in Amounts |-> c[x] + d[x]][<<q, b>>]
                      = IF q \in Q /\ b \in M \cup N /\ n \in us[b] THEN a ELSE 0
  BY DEF Sum
<1>1. <<q, b>> \in Amounts
  BY DEF Amounts
<1>2. /\ c[<<q, b>>] = IF q \in Q /\ b \in M /\ n \in us[b] THEN a ELSE 0
      /\ d[<<q, b>>] = IF q \in Q /\ b \in N /\ n \in us[b] THEN a ELSE 0
  BY DEF Sum
<1> QED
  BY <1>1, <1>2

LEMMA OverSum ==
  ASSUME NEW c, NEW Q, NEW M, NEW a, NEW n, NEW us, Sum(c, Q, M, a, n, us), NEW d \in Nat \ {0}
  PROVE  Sum([x \in Amounts |-> c[x] \div d], Q, M, a \div d, n, us)
<1> SUFFICES ASSUME NEW q \in Rank, NEW b \in 1 .. Len(job.uses)
             PROVE  [x \in Amounts |-> c[x] \div d][<<q, b>>]
                      = IF q \in Q /\ b \in M /\ n \in us[b] THEN a \div d ELSE 0
  BY DEF Sum
<1>1. <<q, b>> \in Amounts
  BY DEF Amounts
<1>2. c[<<q, b>>] = IF q \in Q /\ b \in M /\ n \in us[b] THEN a ELSE 0
  BY DEF Sum
<1>3. 0 \div d = 0
  BY ZeroOver
<1>4. [x \in Amounts |-> c[x] \div d][<<q, b>>] = c[<<q, b>>] \div d
  BY <1>1
<1> QED
  BY <1>2, <1>3, <1>4

\* What the ranks of S have of disjoint sets of ranks.
LEMMA TotalSum ==
  ASSUME NEW S, S \subseteq Rank, IsFiniteSet(S), NEW cells, NEW k, NEW P, NEW M, NEW a \in Int, NEW n, NEW us,
         \A q \in S : Sum(cells[q][k], P[q], M, a, n, us),
         \A p, q \in S : p # q => P[p] \cap P[q] = {},
         NEW U, \A p : p \in U <=> \E q \in S : p \in P[q],
         NEW t, \A c \in Amounts : t[c] = Total(cells, k, c, S)
  PROVE  Sum(t, U, M, a, n, us)
<1> SUFFICES ASSUME NEW p \in Rank, NEW b \in 1 .. Len(job.uses)
             PROVE  t[<<p, b>>] = IF p \in U /\ b \in M /\ n \in us[b] THEN a ELSE 0
  BY DEF Sum
<1>1. <<p, b>> \in Amounts
  BY DEF Amounts
<1>2. t[<<p, b>>] = Total(cells, k, <<p, b>>, S)
  BY <1>1
<1>3. \A q \in S : cells[q][k][<<p, b>>] = IF p \in P[q] /\ b \in M /\ n \in us[b] THEN a ELSE 0
  BY DEF Sum
<1>4. PICK x : (\E q \in S : p \in P[q]) => x \in S /\ p \in P[x]
  OBVIOUS
<1>5. \A q \in S : q # x => p \notin P[q]
  BY <1>4
<1>6. \A q \in S : cells[q][k][<<p, b>>] \in Int /\ (q # x => cells[q][k][<<p, b>>] = 0)
  BY <1>3, <1>5
<1>7. Total(cells, k, <<p, b>>, S) = IF x \in S THEN cells[x][k][<<p, b>>] ELSE 0
  BY <1>6, OneTerm
<1>8. CASE p \in U
  <2>1. x \in S /\ p \in P[x]
    BY <1>4, <1>8
  <2> QED
    BY <1>2, <1>3, <1>7, <1>8, <2>1
<1>9. CASE p \notin U
  <2>1. \A q \in S : p \notin P[q]
    BY <1>9
  <2>2. x \in S => cells[x][k][<<p, b>>] = 0
    BY <1>3, <2>1
  <2> QED
    BY <1>2, <1>7, <1>9, <2>2
<1> QED
  BY <1>8, <1>9

\* The sum over a group, or its average.
\* cells k of K hold the gradients of the parameters e[k], of the ranks Q in the
\* microbatches M
Holds(s, n, K, Q, M, a, e, us) ==
  Array(s, n) /\ \A k \in K : Sum(s[k], Q, M, a, e[k], us)

LEMMA SumOverIs ==
  ASSUME NEW n \in Nat, NEW K \in SUBSET (1 .. n), NEW group, NEW S, S = Range(group), S \subseteq Rank,
         IsFiniteSet(S), group[1] \in S, Len(group) \in Nat \ {0},
         NEW cells, \A q \in S : Array(cells[q], n),
         NEW P, NEW M, NEW a \in Int, NEW e, NEW us,
         \A q \in S, k \in K : Sum(cells[q][k], P[q], M, a, e[k], us),
         \A p, q \in S : p # q => P[p] \cap P[q] = {},
         NEW U, \A p : p \in U <=> \E q \in S : p \in P[q], NEW average
  PROVE  Holds(SumOver(cells, group, average), n, K, U, M,
               IF average THEN a \div Len(group) ELSE a, e, us)
<1> DEFINE total == [k \in 1 .. n |-> [c \in Amounts |-> Total(cells, k, c, S)]]
<1>1. DOMAIN cells[group[1]] = 1 .. n
  BY LengthOf
<1>2. SumOver(cells, group, average) = IF average THEN Over(total, Len(group)) ELSE total
  BY <1>1 DEF SumOver, Total
<1>3. ASSUME NEW k \in K PROVE Sum(total[k], U, M, a, e[k], us)
  <2>1. total[k] = [c \in Amounts |-> Total(cells, k, c, S)]
    OBVIOUS
  <2>2. \A q \in S : Sum(cells[q][k], P[q], M, a, e[k], us)
    OBVIOUS
  <2>3. \A c \in Amounts : total[k][c] = Total(cells, k, c, S)
    BY <2>1
  <2> HIDE DEF total
  <2>4. \A c \in Amounts : total[k][c] = Total(cells, k, c, S)
    BY <2>3
  <2> QED
    BY ONLY <2>2, <2>4, TotalSum, S \subseteq Rank, IsFiniteSet(S), a \in Int,
            \A p, q \in S : p # q => P[p] \cap P[q] = {}, \A p : p \in U <=> \E q \in S : p \in P[q]
<1>4. Array(total, n) /\ DOMAIN total = 1 .. n
  BY DEF Array
<1> HIDE DEF total
<1>5. CASE average
  <2>1. Over(total, Len(group)) = [k \in 1 .. n |-> [c \in Amounts |-> total[k][c] \div Len(group)]]
    BY <1>4 DEF Over
  <2>2. Array(Over(total, Len(group)), n)
    BY <2>1 DEF Array
  <2>3. ASSUME NEW k \in K PROVE Sum(Over(total, Len(group))[k], U, M, a \div Len(group), e[k], us)
    <3>1. Over(total, Len(group))[k] = [c \in Amounts |-> total[k][c] \div Len(group)]
      BY <2>1
    <3>2. Len(group) \in Nat \ {0} /\ Sum(total[k], U, M, a, e[k], us)
      BY <1>3
    <3>3. Sum([c \in Amounts |-> total[k][c] \div Len(group)], U, M, a \div Len(group), e[k], us)
      BY ONLY <3>2, OverSum
    <3> QED
      BY <3>1, <3>3
  <2> QED
    BY <1>2, <1>5, <2>2, <2>3 DEF Holds
<1>6. CASE ~average
  BY <1>2, <1>3, <1>4, <1>6 DEF Holds
<1> QED
  BY <1>5, <1>6

----------------------------------------------------------------------------
(* Where a rank's gradients are.                                           *)

\* Of a bucket of B elements the rank's buffer has m from b on.  After the reduction
\* over the inner group, of n ranks, it has z elements from p on, and the s of its
\* own part from b + v on.
GradLay(r, g, n, B, m, b, p, z, v, s) ==
  /\ BucketSize(g) = B /\ GradSize(g) = m /\ InnerBase(r, g) = b /\ Span(r, g) = p
  /\ SpanSize(r, g) = z /\ View(r, g) = v /\ ShardSize(g) = s /\ ShardStart(r, g) = b + v
  /\ b <= p /\ p + z <= b + m /\ b + m <= B /\ p <= b + v /\ b + v + s <= p + z
  /\ ~Hfsdp => p = b + v /\ z = s
  /\ m = B => b = 0
  /\ m # B => b = p /\ m = z /\ GradsEach /\ n > 1
  /\ n = 1 => p = 0 /\ z = B
  /\ GradsEach /\ n > 1 => m # B

LEMMA Portion ==
  ASSUME NEW n \in Nat \ {0}, NEW z \in Nat, NEW i \in 0 .. n - 1
  PROVE  \E p \in Nat, B \in Nat : /\ p = i * z /\ B = n * z /\ B \div n = z /\ p + z <= B
                                   /\ n > 1 /\ z # 0 => z < B
                                   /\ n = 1 => p = 0 /\ z = B
<1>1. PICK p \in Nat, B \in Nat : p = i * z /\ B = n * z
  OBVIOUS
<1>2. B \div n = z
  <2>1. B = z * n + 0 /\ 0 \in 0 .. n - 1
    <3>1. n * z = z * n
      OBVIOUS
    <3> QED
      BY <1>1, <3>1
  <2> QED
    BY ONLY <2>1, DigitOf, n \in Nat \ {0}, z \in Nat
<1>3. p + z <= B
  <2>1. (i + 1) * z = i * z + z /\ i + 1 \in Nat /\ i + 1 <= n /\ n \in Nat
    OBVIOUS
  <2>2. (i + 1) * z <= n * z
    BY ONLY <2>1, Monotone, z \in Nat
  <2> QED
    BY <1>1, <2>1, <2>2
<1>4. n > 1 /\ z # 0 => z < B
  <2>1. SUFFICES ASSUME n > 1, z # 0 PROVE z < B
    OBVIOUS
  <2>2. 2 * z <= n * z
    BY <2>1, Monotone
  <2>3. 2 * z = z + z
    OBVIOUS
  <2> QED
    BY <1>1, <2>1, <2>2, <2>3
<1>5. n = 1 => p = 0 /\ z = B
  <2>1. 0 * z = 0 /\ 1 * z = z
    OBVIOUS
  <2>2. n = 1 => i = 0
    OBVIOUS
  <2> QED
    BY <1>1, <2>1, <2>2
<1> QED
  BY <1>1, <1>2, <1>3, <1>4, <1>5

LEMMA InnerPlace ==
  ASSUME job \in Jobs, NEW g, g.attrs.expert \in BOOLEAN, NEW r \in Rank
  PROVE  LET n == Inners(job.mesh, g.attrs.expert)
             i == InnerOf(job.mesh, r, g.attrs.expert)
         IN /\ n \in Nat \ {0} /\ i \in 0 .. n - 1
            /\ Len(FsdpGroup(0, g)) = n /\ Len(FsdpGroup(r, g)) = n /\ DOMAIN FsdpGroup(r, g) = 1 .. n
            /\ GroupRank(FsdpGroup(r, g), r) = i
<1>1. IsMesh(job.mesh) /\ 0 \in Ranks(job.mesh) /\ r \in Ranks(job.mesh)
  BY MeshOfJob DEF Rank
<1> QED
  BY <1>1, InnerGroup DEF FsdpGroup

LEMMA GradsLaidOut ==
  ASSUME job \in Jobs, Hfsdp => Full, NEW g, Formed(g), NEW r \in Rank
  PROVE  \E n \in Nat \ {0}, B \in Nat, m \in Nat, b \in Nat, p \in Nat, z \in Nat, v \in Nat, s \in Nat :
           /\ n = Inners(job.mesh, g.attrs.expert)
           /\ GradLay(r, g, n, B, m, b, p, z, v, s)
<1>1. PICK n \in Nat \ {0}, i \in Nat :
        /\ n = Inners(job.mesh, g.attrs.expert) /\ i \in 0 .. n - 1
        /\ Len(FsdpGroup(0, g)) = n /\ Len(FsdpGroup(r, g)) = n /\ GroupRank(FsdpGroup(r, g), r) = i
  BY InnerPlace DEF Formed
<1>2. PICK s \in Nat : s = g.plan.shard_size /\ (HasWeights => s # 0)
  BY DEF Formed
<1>3. CASE ~HasWeights
  <2>1. ~Hfsdp /\ ~GradsEach
    BY <1>3 DEF Full, GradsEach, HasWeights
  <2>2. PICK B \in Nat : BucketSize(g) = B
    <3>1. BucketSize(g) = n * s
      BY <1>1, <1>2, <2>1 DEF BucketSize, MainGroup
    <3>2. n * s \in Nat
      OBVIOUS
    <3> QED
      BY <3>1, <3>2
  <2>3. GradSize(g) = B
    BY <2>1, <2>2 DEF GradSize, InnerSize, GradsDistributed, GradsEach
  <2>4. InnerBase(r, g) = 0
    BY <2>2, <2>3 DEF InnerBase, InnerStart
  <2>5. SpanSize(r, g) = B /\ Span(r, g) = 0 /\ ShardSize(g) = B /\ ShardStart(r, g) = 0
    BY <1>3, <2>2 DEF SpanSize, Span, ShardSize, ShardStart
  <2>6. View(r, g) = 0
    <3>1. InnerStart(r, g, GradSize(g)) = 0
      BY <2>4 DEF InnerBase
    <3> QED
      BY <2>1, <2>5, <3>1 DEF View, ViewStart
  <2>7. GradLay(r, g, n, B, B, 0, 0, B, 0, B)
    BY <2>1, <2>2, <2>3, <2>4, <2>5, <2>6 DEF GradLay
  <2> QED
    BY <1>1, <2>7
<1>4. CASE HasWeights
  <2> DEFINE t == IF Hfsdp THEN job.mesh.outer ELSE 1
             o == IF Hfsdp THEN OuterRank(job.mesh, r) ELSE 0
  <2>1. PICK u \in Nat \ {0}, q \in Nat :
          /\ u = t /\ q = o /\ q \in 0 .. u - 1
          /\ Hfsdp => GroupRank(OuterGroup(r, g), r) = q
    <3>1. CASE Hfsdp
      <4>1. IsMesh(job.mesh) /\ r \in Ranks(job.mesh) /\ g.attrs.expert \in BOOLEAN
        BY MeshOfJob DEF Rank, Formed
      <4>2. PICK u \in Nat \ {0}, q \in Nat :
              u = job.mesh.outer /\ q = OuterRank(job.mesh, r) /\ q \in 0 .. u - 1 /\ GroupRank(OuterGroup(r, g), r) = q
        BY <4>1, OuterGroupOf DEF OuterGroup
      <4> QED
        BY <3>1, <4>2
    <3>2. CASE ~Hfsdp
      <4>1. 0 \in 0 .. 1 - 1
        OBVIOUS
      <4> QED
        BY <3>2, <4>1
    <3> QED
      BY <3>1, <3>2
  <2> HIDE DEF t, o
  <2>2. s \in Nat \ {0}
    BY <1>2, <1>4
  \* z, the elements of the inner group's parts; of these v, the rank's own begin
  <2>3. PICK v \in Nat, z \in Nat : /\ v = q * s /\ z = u * s /\ v + s <= z /\ (u = 1 => v = 0 /\ s = z)
    BY <2>1, <2>2, Portion
  <2>4. PICK p \in Nat, B \in Nat : /\ p = i * z /\ B = n * z /\ B \div n = z /\ p + z <= B
                                    /\ (n > 1 /\ z # 0 => z < B) /\ (n = 1 => p = 0 /\ z = B)
    <3>1. i \in 0 .. n - 1
      BY <1>1
    <3> QED
      BY ONLY <3>1, Portion, n \in Nat \ {0}, z \in Nat
  <2>5. z # 0
    BY <2>2, <2>3
  <2>6. BucketSize(g) = B /\ ShardSize(g) = s /\ ShardStart(r, g) = p + v
    <3>1. CASE Hfsdp
      <4>1. IsMesh(job.mesh) /\ r \in Ranks(job.mesh) /\ 0 \in Ranks(job.mesh)
        BY MeshOfJob DEF Rank
      <4>2. job.mesh.hybrid /\ g.attrs.expert \in BOOLEAN
        BY <3>1 DEF Hfsdp, Formed
      <4>3. /\ Len(InOrder(Peers(job.mesh, 0, g.attrs.expert))) = u * n
            /\ GetLogicalHybridFsdpRank(job.mesh, r, g.attrs.expert) = i * u + q
        <5>1. u = job.mesh.outer /\ q = OuterRank(job.mesh, r)
          BY <2>1, <3>1 DEF t, o
        <5>2. i = InnerOf(job.mesh, r, g.attrs.expert)
          BY <1>1, <4>1, <4>2, InnerGroup DEF FsdpGroup
        <5> QED
          BY <1>1, <4>1, <4>2, <5>1, <5>2, FlatGroup
      <4>4. BucketSize(g) = u * n * s
        BY <1>2, <3>1, <4>2, <4>3 DEF BucketSize, MainGroup, DpGroup, GetDpGroup
      <4>5. ShardStart(r, g) = (i * u + q) * s /\ ShardSize(g) = s
        BY <1>2, <1>4, <3>1, <4>3 DEF ShardStart, ShardSize, MainRank
      <4>6. u * n * s = n * (u * s) /\ (i * u + q) * s = i * (u * s) + q * s
        BY ONLY u \in Nat, n \in Nat, s \in Nat, i \in Nat, q \in Nat
      <4> QED
        BY <2>3, <2>4, <4>4, <4>5, <4>6
    <3>2. CASE ~Hfsdp
      <4>1. u = 1 /\ v = 0 /\ s = z
        BY <2>1, <2>3, <3>2 DEF t
      <4>2. BucketSize(g) = n * s /\ ShardStart(r, g) = i * s /\ ShardSize(g) = s
        BY <1>1, <1>2, <1>4, <3>2 DEF BucketSize, MainGroup, ShardStart, ShardSize, MainRank
      <4> QED
        BY <2>4, <4>1, <4>2
    <3> QED
      BY <3>1, <3>2
  <2>7. SpanSize(r, g) = z
    BY <1>1, <1>4, <2>4, <2>6 DEF SpanSize
  <2>8. Span(r, g) = p
    BY <1>1, <1>4, <2>4, <2>7 DEF Span
  <2>9. Hfsdp => View(r, g) = v
    BY <1>2, <2>1, <2>3 DEF View, ViewStart
  <2>10. ~Hfsdp => v = 0 /\ s = z
    BY <2>1, <2>3 DEF t
  <2>11. CASE GradsEach /\ n > 1
    <3>1. GradSize(g) = z
      BY <1>1, <2>4, <2>6, <2>11 DEF GradSize, InnerSize, GradsDistributed, GradsEach
    <3>2. z # B
      BY <2>4, <2>5, <2>11
    <3>3. InnerBase(r, g) = p /\ InnerStart(r, g, GradSize(g)) = p
      BY <1>1, <2>4, <2>6, <3>1, <3>2 DEF InnerBase, InnerStart
    <3>4. View(r, g) = v
      <4>1. ~Hfsdp => View(r, g) = p + v - p
        BY <2>6, <3>3 DEF View, ViewStart
      <4> QED
        BY <2>9, <4>1
    <3>5. GradLay(r, g, n, B, z, p, p, z, v, s)
      <4>1. p <= p /\ p + z <= p + z /\ p + z <= B /\ p <= p + v /\ p + v + s <= p + z
        BY <2>3, <2>4
      <4>2. ~Hfsdp => p = p + v
        BY <2>10
      <4> QED
        BY ONLY <2>4, <2>6, <2>7, <2>8, <2>10, <2>11, <3>1, <3>2, <3>3, <3>4, <4>1, <4>2 DEF GradLay
    <3> QED
      BY <1>1, <3>5
  <2>12. CASE ~(GradsEach /\ n > 1)
    <3>1. GradSize(g) = B
      BY <1>1, <2>6, <2>12 DEF GradSize, InnerSize, GradsDistributed, GradsEach
    <3>2. InnerBase(r, g) = 0 /\ InnerStart(r, g, GradSize(g)) = 0
      BY <2>6, <3>1 DEF InnerBase, InnerStart
    <3>3. View(r, g) = p + v
      <4>1. CASE Hfsdp
        <5>1. n = 1
          BY <2>12, <4>1 DEF GradsEach, Full
        <5> QED
          BY <2>4, <2>9, <4>1, <5>1
      <4>2. CASE ~Hfsdp
        BY <2>6, <3>2, <4>2 DEF View, ViewStart
      <4> QED
        BY <4>1, <4>2
    <3>4. PICK w \in Nat : w = p + v
      OBVIOUS
    <3>5. GradLay(r, g, n, B, B, 0, p, z, w, s)
      <4>1. 0 <= p /\ p + z <= 0 + B /\ 0 + B <= B /\ p <= 0 + w /\ 0 + w + s <= p + z /\ 0 + w = w
        BY <2>3, <2>4, <3>4
      <4>2. ~Hfsdp => p = 0 + w
        BY <2>10, <3>4
      <4> QED
        BY ONLY <2>4, <2>6, <2>7, <2>8, <2>10, <2>12, <3>1, <3>2, <3>3, <3>4, <4>1, <4>2 DEF GradLay
    <3> QED
      BY <1>1, <3>4, <3>5
  <2> QED
    BY <2>11, <2>12
<1> QED
  BY <1>3, <1>4

----------------------------------------------------------------------------
(* The data-parallel group, by inner and outer groups.                     *)

LEMMA RankByDigits ==
  ASSUME NEW mesh, IsMesh(mesh), NEW q \in Ranks(mesh), NEW p \in Ranks(mesh),
         OuterRank(mesh, q) = OuterRank(mesh, p), InnerRank(mesh, q) = InnerRank(mesh, p)
  PROVE  q = p
<1>1. PICK t \in Nat \ {0}, s \in Nat \ {0} : t = mesh.outer /\ s = mesh.shard
  BY DEF IsMesh
<1>2. PICK h \in Int : h = t * s - 1
  OBVIOUS
<1>3. Ranks(mesh) = 0 .. h
  BY <1>1, <1>2 DEF Ranks
<1>4. q \in Nat /\ p \in Nat
  BY <1>3
<1>5. /\ q = s * (q \div s) + (q % s) /\ p = s * (p \div s) + (p % s)
  BY <1>4, Division
<1>6. q \div s = p \div s /\ q % s = p % s
  BY <1>1 DEF OuterRank, InnerRank
<1> QED
  BY <1>5, <1>6

LEMMA RangeAt ==
  ASSUME NEW f, NEW n, DOMAIN f = 1 .. n, NEW x
  PROVE  x \in Range(f) <=> \E k \in 1 .. n : x = f[k]
BY DEF Range

\* with the same place in its row, a rank has the same expert coordinate
LEMMA SameColumn ==
  ASSUME NEW mesh, IsMesh(mesh), NEW r \in Ranks(mesh), NEW q \in Ranks(mesh),
         InnerRank(mesh, q) = InnerRank(mesh, r), NEW expert \in BOOLEAN
  PROVE  /\ expert => EpRank(mesh, q) = EpRank(mesh, r)
         /\ InnerOf(mesh, q, expert) = InnerOf(mesh, r, expert)
<1>1. PICK group : group = GetOuterFsdpGroup(mesh, r, expert)
  OBVIOUS
<1>2. PICK o \in Int : o = OuterRank(mesh, q) /\ o \in 0 .. mesh.outer - 1
  BY OuterGroupOf
<1>3. PICK k \in 1 .. mesh.outer : k - 1 = o
  <2>1. o + 1 \in 1 .. mesh.outer /\ (o + 1) - 1 = o
    <3>1. mesh.outer \in Nat
      BY DEF IsMesh
    <3> QED
      BY <1>2, <3>1
  <2> QED
    BY <2>1
<1>4. /\ DOMAIN group = 1 .. mesh.outer
      /\ group[k] \in Ranks(mesh) /\ OuterRank(mesh, group[k]) = k - 1
      /\ InnerOf(mesh, group[k], expert) = InnerOf(mesh, r, expert)
      /\ expert => EpRank(mesh, group[k]) = EpRank(mesh, r)
  BY <1>1, OuterGroupOf
<1>5. group[k] \in Range(group)
  BY <1>4, RangeAt
<1>6. InnerRank(mesh, group[k]) = InnerRank(mesh, r)
  BY <1>1, <1>5, GroupMembers
<1>7. group[k] = q
  BY <1>2, <1>3, <1>4, <1>6, RankByDigits
<1> QED
  BY <1>4, <1>7

\* The outer group of the dense parameters is that of experts.
LEMMA OneOuterGroup ==
  ASSUME NEW mesh, IsMesh(mesh), NEW r \in Ranks(mesh), NEW expert \in BOOLEAN
  PROVE  GetOuterFsdpGroup(mesh, r, FALSE) = GetOuterFsdpGroup(mesh, r, expert)
<1>1. PICK dense : dense = {q \in Peers(mesh, r, FALSE) : InnerRank(mesh, q) = InnerRank(mesh, r)}
  OBVIOUS
<1>2. PICK own : own = {q \in Peers(mesh, r, expert) : InnerRank(mesh, q) = InnerRank(mesh, r)}
  OBVIOUS
<1>3. \A q : q \in dense <=> q \in Ranks(mesh) /\ InnerRank(mesh, q) = InnerRank(mesh, r)
  BY <1>1 DEF Peers
<1>4. \A q : q \in own <=> /\ q \in Ranks(mesh) /\ InnerRank(mesh, q) = InnerRank(mesh, r)
                           /\ expert => EpRank(mesh, q) = EpRank(mesh, r)
  BY <1>2 DEF Peers
<1>5. dense = own
  BY <1>3, <1>4, SameColumn
<1> QED
  BY <1>1, <1>2, <1>5 DEF GetOuterFsdpGroup

\* The groups of peers: the inner groups of the ranks of an outer group are
\* disjoint, and together all peers.
LEMMA PeersSpread ==
  ASSUME NEW mesh, IsMesh(mesh), NEW r \in Ranks(mesh), NEW expert \in BOOLEAN,
         NEW outer, outer = Range(GetOuterFsdpGroup(mesh, r, expert))
  PROVE  /\ \A p : p \in Range(InOrder(Peers(mesh, r, expert)))
                     <=> \E q \in outer : p \in Range(GetFsdpGroup(mesh, q, expert))
         /\ \A q, u \in outer :
              q # u => Range(GetFsdpGroup(mesh, q, expert)) \cap Range(GetFsdpGroup(mesh, u, expert)) = {}
<1>1. \A q : q \in outer <=> q \in Peers(mesh, r, expert) /\ InnerRank(mesh, q) = InnerRank(mesh, r)
  BY GroupMembers
<1>2. \A q : q \in outer => q \in Ranks(mesh)
  BY <1>1 DEF Peers
<1>3. ASSUME NEW p, NEW q \in outer, p \in Range(GetFsdpGroup(mesh, q, expert))
      PROVE  p \in Peers(mesh, r, expert) /\ OuterRank(mesh, p) = OuterRank(mesh, q)
  <2>1. p \in Peers(mesh, q, expert) /\ OuterRank(mesh, p) = OuterRank(mesh, q)
    BY <1>2, <1>3, GroupMembers
  <2>2. q \in Peers(mesh, r, expert)
    BY <1>1
  <2> QED
    BY <2>1, <2>2 DEF Peers
<1>4. ASSUME NEW p, p \in Peers(mesh, r, expert)
      PROVE  \E q \in outer : p \in Range(GetFsdpGroup(mesh, q, expert))
  <2>1. p \in Ranks(mesh) /\ (expert => EpRank(mesh, p) = EpRank(mesh, r))
    BY <1>4 DEF Peers
  <2>2. PICK group : group = GetOuterFsdpGroup(mesh, r, expert)
    OBVIOUS
  <2>3. PICK o \in Int : o = OuterRank(mesh, p) /\ o \in 0 .. mesh.outer - 1
    BY <2>1, OuterGroupOf
  <2>4. PICK k \in 1 .. mesh.outer : k - 1 = o
    <3>1. o + 1 \in 1 .. mesh.outer /\ (o + 1) - 1 = o
      <4>1. mesh.outer \in Nat
        BY DEF IsMesh
      <4> QED
        BY <2>3, <4>1
    <3> QED
      BY <3>1
  <2>5. /\ DOMAIN group = 1 .. mesh.outer
        /\ group[k] \in Ranks(mesh) /\ OuterRank(mesh, group[k]) = k - 1
        /\ expert => EpRank(mesh, group[k]) = EpRank(mesh, r)
    BY <2>2, OuterGroupOf
  <2>6. group[k] \in outer
    BY <2>2, <2>5, RangeAt
  <2>7. p \in Peers(mesh, group[k], expert) /\ OuterRank(mesh, p) = OuterRank(mesh, group[k])
    BY <2>1, <2>3, <2>4, <2>5 DEF Peers
  <2>8. p \in Range(GetFsdpGroup(mesh, group[k], expert))
    BY <2>5, <2>7, GroupMembers
  <2> QED
    BY <2>6, <2>8
<1>5. ASSUME NEW q \in outer, NEW u \in outer, q # u
      PROVE  Range(GetFsdpGroup(mesh, q, expert)) \cap Range(GetFsdpGroup(mesh, u, expert)) = {}
  <2>1. InnerRank(mesh, q) = InnerRank(mesh, u)
    BY <1>1
  <2>2. OuterRank(mesh, q) # OuterRank(mesh, u)
    BY <1>2, <1>5, <2>1, RankByDigits
  <2> QED
    BY <1>3, <2>2
<1>6. \A p : p \in Range(InOrder(Peers(mesh, r, expert))) <=> p \in Peers(mesh, r, expert)
  BY GroupMembers
<1> QED
  BY <1>3, <1>4, <1>5, <1>6

\* What the members of a group have in common.
LEMMA InnerPeers ==
  ASSUME job \in Jobs, NEW g, g.attrs.expert \in BOOLEAN, NEW r \in Rank,
         NEW S, S = Range(FsdpGroup(r, g))
  PROVE  /\ S \subseteq Rank /\ IsFiniteSet(S) /\ FsdpGroup(r, g)[1] \in S
         /\ Len(FsdpGroup(r, g)) \in Nat \ {0} /\ r \in S
         /\ Len(FsdpGroup(r, g)) = 1 => S = {r}
<1>1. IsMesh(job.mesh) /\ r \in Ranks(job.mesh)
  BY MeshOfJob DEF Rank
<1>2. PICK n \in Nat \ {0} :
        /\ Len(FsdpGroup(r, g)) = n /\ DOMAIN FsdpGroup(r, g) = 1 .. n
        /\ \A k \in 1 .. n : FsdpGroup(r, g)[k] \in Ranks(job.mesh)
  BY <1>1, InnerGroup DEF FsdpGroup
<1>3. \A q : q \in S <=> \E k \in 1 .. n : q = FsdpGroup(r, g)[k]
  BY <1>2, RangeAt
<1>4. S \subseteq Rank
  BY <1>2, <1>3 DEF Rank
<1>5. IsFiniteSet(S)
  BY <1>1, <1>4, RanksFinite, FS_Subset DEF Rank
<1>6. 1 \in 1 .. n
  OBVIOUS
<1>7. r \in S
  BY <1>1, GroupMembers DEF FsdpGroup, Peers
<1>8. n = 1 => S = {r}
  BY <1>3, <1>7
<1> QED
  BY <1>2, <1>3, <1>4, <1>5, <1>6, <1>7, <1>8

SameSpan(q, r, g) ==
  /\ Span(q, g) = Span(r, g) /\ SpanSize(q, g) = SpanSize(r, g)
  /\ InnerBase(q, g) = InnerBase(r, g) /\ InnerShare(q, g) = InnerShare(r, g)

DenseOuter(r) == GetOuterFsdpGroup(job.mesh, r, FALSE)

AreOuterPeers(S, group, r, g) ==
  /\ S \subseteq Rank /\ IsFiniteSet(S) /\ group[1] \in S /\ group = OuterGroup(r, g)
  /\ Len(group) \in Nat \ {0} /\ Len(group) = job.mesh.outer
  /\ \A q \in S : SameSpan(q, r, g)

LEMMA OuterPeers ==
  ASSUME job \in Jobs, NEW g, g.attrs.expert \in BOOLEAN, NEW r \in Rank,
         NEW group, group = DenseOuter(r), NEW S, S = Range(group)
  PROVE  AreOuterPeers(S, group, r, g)
<1>1. IsMesh(job.mesh) /\ r \in Ranks(job.mesh)
  BY MeshOfJob DEF Rank
<1> PICK x \in BOOLEAN : x = g.attrs.expert
  OBVIOUS
<1>2. group = OuterGroup(r, g)
  BY <1>1, OneOuterGroup DEF OuterGroup, DenseOuter
<1>3. PICK t \in Nat \ {0} :
        /\ t = job.mesh.outer /\ Len(group) = t /\ DOMAIN group = 1 .. t
        /\ \A k \in 1 .. t : /\ group[k] \in Ranks(job.mesh)
                             /\ InnerOf(job.mesh, group[k], x) = InnerOf(job.mesh, r, x)
  <2>1. group = GetOuterFsdpGroup(job.mesh, r, x)
    BY <1>2 DEF OuterGroup
  <2> QED
    BY ONLY <1>1, <2>1, OuterGroupOf, x \in BOOLEAN
<1>4. \A q : q \in S <=> \E k \in 1 .. t : q = group[k]
  <2>1. DOMAIN group = 1 .. t
    BY <1>3
  <2> QED
    BY ONLY <2>1, RangeAt, S = Range(group)
<1>41. ASSUME NEW q \in S
       PROVE  q \in Rank /\ InnerOf(job.mesh, q, x) = InnerOf(job.mesh, r, x)
  <2>1. PICK k \in 1 .. t : q = group[k]
    BY <1>4
  <2>2. group[k] \in Ranks(job.mesh) /\ InnerOf(job.mesh, group[k], x) = InnerOf(job.mesh, r, x)
    BY <1>3
  <2> QED
    BY <2>1, <2>2 DEF Rank
<1>5. S \subseteq Rank
  BY <1>41
<1>6. IsFiniteSet(S)
  BY <1>1, <1>5, RanksFinite, FS_Subset DEF Rank
<1>7. 1 \in 1 .. t
  OBVIOUS
<1>8. ASSUME NEW q \in S PROVE SameSpan(q, r, g)
  <2>1. InnerOf(job.mesh, q, g.attrs.expert) = InnerOf(job.mesh, r, g.attrs.expert)
    BY <1>41
  <2>2. /\ Len(FsdpGroup(q, g)) = Len(FsdpGroup(r, g))
        /\ GroupRank(FsdpGroup(q, g), q) = GroupRank(FsdpGroup(r, g), r)
    <3>1. q \in Rank
      BY <1>5
    <3> QED
      BY ONLY <2>1, <3>1, InnerPlace, job \in Jobs, g.attrs.expert \in BOOLEAN, r \in Rank
  <2> QED
    BY <2>1, <2>2 DEF SameSpan, Span, SpanSize, InnerBase, InnerStart, InnerShare
<1> QED
  BY <1>2, <1>3, <1>4, <1>5, <1>6, <1>7, <1>8 DEF AreOuterPeers

----------------------------------------------------------------------------
(* Gradients are divided once.                                             *)

LEMMA Divided ==
  ASSUME NEW t \in Nat \ {0}, NEW s \in Nat \ {0}, NEW d, d = t * s
  PROVE  d \in Nat \ {0} /\ d * d \in Nat \ {0} /\ (d * d) \div d = d /\ ((d * d) \div s) \div t = d
<1>1. t * s \in Nat /\ t * s # 0
  OBVIOUS
<1>2. PICK e \in Nat \ {0} : e = d
  BY <1>1
<1>3. e * e \in Nat /\ e * e # 0
  OBVIOUS
<1>4. (e * e) \div e = e
  <2>1. e * e = e * e + 0 /\ 0 \in 0 .. e - 1 /\ e \in Nat
    OBVIOUS
  <2> QED
    BY ONLY <2>1, DigitOf, e \in Nat \ {0}
<1>5. PICK u \in Nat : u = e * t
  OBVIOUS
<1>6. e * e = u * s
  <2>1. e * (t * s) = (e * t) * s
    OBVIOUS
  <2> QED
    BY <1>2, <1>5, <2>1
<1>7. (u * s) \div s = u
  <2>1. u * s = u * s + 0 /\ 0 \in 0 .. s - 1
    OBVIOUS
  <2> QED
    BY ONLY <2>1, DigitOf, u \in Nat, s \in Nat \ {0}
<1>8. u \div t = e
  <2>1. u = e * t + 0 /\ 0 \in 0 .. t - 1 /\ e \in Nat
    BY <1>5
  <2> QED
    BY ONLY <2>1, DigitOf, t \in Nat \ {0}
<1> QED
  BY <1>2, <1>3, <1>4, <1>6, <1>7, <1>8

LEMMA DenseSize ==
  ASSUME job \in Jobs
  PROVE  \E t \in Nat \ {0}, s \in Nat \ {0} :
           /\ t = job.mesh.outer /\ s = job.mesh.shard /\ DataParallelSize = t * s
           /\ Inners(job.mesh, FALSE) = s /\ (~job.mesh.hybrid => t = 1)
<1>1. IsMesh(job.mesh) /\ 0 \in Ranks(job.mesh)
  BY MeshOfJob DEF Rank
<1>2. PICK t \in Nat \ {0}, s \in Nat \ {0} : t = job.mesh.outer /\ s = job.mesh.shard
  BY <1>1 DEF IsMesh
<1>3. Inners(job.mesh, FALSE) = s
  <2>1. Stride(job.mesh, FALSE) = 1
    BY DEF Stride
  <2>2. s \div 1 = s
    OBVIOUS
  <2> QED
    BY <1>2, <2>1, <2>2 DEF Inners
<1>4. ~job.mesh.hybrid => t = 1
  BY <1>2, JobsAssumption
<1>5. CASE job.mesh.hybrid
  <2>1. DataParallelSize = Len(InOrder(Peers(job.mesh, 0, FALSE)))
    BY <1>5 DEF DataParallelSize, GetDpGroup
  <2>2. Len(InOrder(Peers(job.mesh, 0, FALSE))) = job.mesh.outer * Inners(job.mesh, FALSE)
    BY <1>1, FlatGroup
  <2> QED
    BY <1>2, <1>3, <1>4, <2>1, <2>2
<1>6. CASE ~job.mesh.hybrid
  <2>1. DataParallelSize = Len(GetFsdpGroup(job.mesh, 0, FALSE))
    BY <1>6 DEF DataParallelSize, GetDpGroup
  <2>2. Len(GetFsdpGroup(job.mesh, 0, FALSE)) = Inners(job.mesh, FALSE)
    BY <1>1, InnerGroup
  <2>3. 1 * s = s
    OBVIOUS
  <2> QED
    BY <1>2, <1>3, <1>4, <1>6, <2>1, <2>2, <2>3
<1> QED
  BY <1>5, <1>6

Share == IF job.per_token THEN Unit ELSE Unit \div DataParallelSize

LEMMA SharesAre ==
  ASSUME ScaledOnce, job \in Jobs, NEW g, Formed(g), NEW r \in Rank
  PROVE  /\ job.mesh.hybrid => OuterShare(r, g) = Share
         /\ ~job.mesh.hybrid => InnerShare(r, g) = Share
         /\ InnerShare(r, g) \in Int /\ Unit \in Int
<1>1. PICK t \in Nat \ {0}, s \in Nat \ {0} :
        /\ t = job.mesh.outer /\ s = job.mesh.shard /\ DataParallelSize = t * s
        /\ Inners(job.mesh, FALSE) = s /\ (~job.mesh.hybrid => t = 1)
  BY DenseSize
<1>2. PICK d \in Nat \ {0} : d = t * s
  <2>1. t * s \in Nat /\ t * s # 0
    OBVIOUS
  <2> QED
    BY <2>1
<1>3. PICK u \in Nat : u = d * d
  OBVIOUS
<1>4. Unit = u /\ DataParallelSize = d /\ u \div d = d /\ (u \div s) \div t = d
  <2>1. (d * d) \div d = d /\ ((d * d) \div s) \div t = d
    BY <1>2, Divided
  <2> QED
    BY <1>1, <1>2, <1>3, <2>1 DEF Unit
<1>5. /\ Hfsdp => job.per_token
      /\ job.mesh.hybrid /\ job.average => ~job.per_token
      /\ job.average /\ ~job.per_token =>
           job.mesh.ep = 1 \/ \A n \in Param : ~job.model.params[n].expert
  BY DEF ScaledOnce, Hfsdp, Param
<1>6. ScalingFactor = None <=> job.per_token
  BY <1>5 DEF ScalingFactor, None
<1>7. Len(FsdpGroup(r, g)) \in Nat \ {0} /\ Len(FsdpGroup(r, g)) = Inners(job.mesh, g.attrs.expert)
  BY InnerPlace DEF Formed
<1>8. CASE job.per_token
  <2>1. InnerShare(r, g) = u
    BY <1>4, <1>6, <1>8 DEF InnerShare, Scaled
  <2>2. job.mesh.hybrid => OuterShare(r, g) = u
    BY <1>5, <1>8, <2>1 DEF OuterShare
  <2> QED
    BY <1>4, <1>8, <2>1, <2>2 DEF Share
<1>9. CASE ~job.per_token /\ ~job.average
  <2>1. InnerShare(r, g) = d
    BY <1>4, <1>6, <1>9 DEF InnerShare, Scaled
  <2>2. OuterShare(r, g) = d
    BY <1>9, <2>1 DEF OuterShare
  <2> QED
    BY <1>4, <1>9, <2>1, <2>2 DEF Share
<1>10. CASE ~job.per_token /\ job.average
  <2>1. Len(FsdpGroup(r, g)) = s
    <3>1. CASE g.attrs.expert
      <4>1. job.mesh.ep = 1
        BY <1>5, <1>10, <3>1 DEF Formed
      <4>2. Inners(job.mesh, g.attrs.expert) = s \div 1 /\ s \div 1 = s
        BY <1>1, <3>1, <4>1 DEF Inners, Stride
      <4> QED
        BY <1>7, <4>2
    <3>2. CASE ~g.attrs.expert
      <4>1. g.attrs.expert = FALSE
        BY <3>2 DEF Formed
      <4> QED
        BY <1>1, <1>7, <4>1
    <3> QED
      BY <3>1, <3>2
  <2>2. PICK w \in Int : w = u \div s
    OBVIOUS
  <2>3. InnerShare(r, g) = w
    BY <1>4, <1>6, <1>10, <2>1, <2>2 DEF InnerShare, Scaled
  <2>4. OuterShare(r, g) = d
    BY <1>1, <1>4, <1>10, <2>2, <2>3 DEF OuterShare
  <2>5. ~job.mesh.hybrid => w = d
    <3>1. t = 1 => d = s
      <4>1. 1 * s = s
        OBVIOUS
      <4> QED
        BY <1>2, <4>1
    <3> QED
      BY <1>1, <1>4, <2>2, <3>1
  <2> QED
    BY <1>4, <1>10, <2>3, <2>4, <2>5 DEF Share
<1> QED
  BY <1>8, <1>9, <1>10

\* A shard that is reduced once more, of a rank alone, is not divided.
LEMMA AloneUndivided ==
  ASSUME ScaledOnce, job \in Jobs, NEW g, Formed(g), NEW r \in Rank,
         Len(job.uses) # 1, GradsEach, Len(FsdpGroup(r, g)) = 1
  PROVE  InnerShare(r, g) = Unit
<1>1. PICK t \in Nat \ {0}, s \in Nat \ {0} :
        /\ t = job.mesh.outer /\ s = job.mesh.shard /\ DataParallelSize = t * s
        /\ Inners(job.mesh, FALSE) = s
  BY DenseSize
<1>2. /\ Hfsdp => job.per_token
      /\ job.mesh.shard > job.mesh.ep \/ job.per_token \/ job.average \/ job.mesh.outer * job.mesh.shard = 1
  BY DEF ScaledOnce, Hfsdp, GradsEach
<1>3. ScalingFactor = None <=> job.per_token
  BY <1>2 DEF ScalingFactor, None
<1>4. PICK u \in Nat : u = Unit
  <2>1. t * s \in Nat
    OBVIOUS
  <2>2. PICK d \in Nat : d = DataParallelSize
    BY <1>1, <2>1
  <2> QED
    BY <2>2 DEF Unit
<1>5. u \div 1 = u
  OBVIOUS
<1>6. CASE job.per_token
  BY <1>3, <1>6 DEF InnerShare, Scaled
<1>7. CASE ~job.per_token /\ job.average
  BY <1>3, <1>4, <1>5, <1>7 DEF InnerShare, Scaled
<1>8. CASE ~job.per_token /\ ~job.average
  <2>1. ~(job.mesh.shard > job.mesh.ep)
    <3>1. PICK e \in Nat \ {0} : e = job.mesh.ep /\ s % e = 0
      <4>1. IsMesh(job.mesh)
        BY MeshOfJob
      <4> QED
        BY <1>1, <4>1 DEF IsMesh
    <3>2. Inners(job.mesh, g.attrs.expert) = 1
      <4>1. g.attrs.expert \in BOOLEAN
        BY DEF Formed
      <4>2. Len(FsdpGroup(r, g)) = Inners(job.mesh, g.attrs.expert)
        BY ONLY <4>1, InnerPlace, job \in Jobs, r \in Rank
      <4> QED
        BY ONLY <4>2, Len(FsdpGroup(r, g)) = 1
    <3>3. CASE g.attrs.expert
      <4>1. s \div e = 1
        BY <1>1, <3>1, <3>2, <3>3 DEF Inners, Stride
      <4>2. s = e * (s \div e) + (s % e)
        BY Division
      <4>3. s = e
        BY <3>1, <4>1, <4>2
      <4> QED
        BY <1>1, <3>1, <4>3
    <3>4. CASE ~g.attrs.expert
      <4>1. g.attrs.expert = FALSE
        BY <3>4 DEF Formed
      <4>2. s = 1
        BY <1>1, <3>2, <4>1
      <4> QED
        BY <1>1, <3>1, <4>2
    <3> QED
      BY <3>3, <3>4
  <2>2. DataParallelSize = 1
    BY <1>1, <1>2, <1>8, <2>1
  <2>3. Unit \div DataParallelSize = Unit
    BY <1>4, <1>5, <2>2
  <2> QED
    BY <1>3, <1>8, <2>3 DEF InnerShare, Scaled
<1> QED
  BY <1>6, <1>7, <1>8

----------------------------------------------------------------------------
(* Backward: gradients are added up, and reduced over the inner group.     *)

LEMMA ContributionHolds ==
  ASSUME NEW r, NEW g, NEW B \in Nat, B = BucketSize(g), NEW m, m = Len(used),
         NEW e, \A k \in 1 .. B : e[k] = ParamAt(g, k)
  PROVE  Holds(Contribution(r, g), B, 1 .. B, {r}, {m}, Unit, e, used)
<1> PICK c : c = Contribution(r, g)
  OBVIOUS
<1>1. c = [k \in 1 .. B |-> [x \in Amounts |-> IF x = <<r, m>> /\ ParamAt(g, k) \in used[m] THEN Unit ELSE 0]]
  BY DEF Contribution, ParamAt
<1>2. Array(c, B)
  BY <1>1 DEF Array
<1>3. ASSUME NEW k \in 1 .. B PROVE Sum(c[k], {r}, {m}, Unit, e[k], used)
  <2>1. c[k] = [x \in Amounts |-> IF x = <<r, m>> /\ e[k] \in used[m] THEN Unit ELSE 0]
    BY <1>1
  <2> SUFFICES ASSUME NEW q \in Rank, NEW b \in 1 .. Len(job.uses)
               PROVE  c[k][<<q, b>>] = IF q \in {r} /\ b \in {m} /\ e[k] \in used[b] THEN Unit ELSE 0
    BY DEF Sum
  <2>2. <<q, b>> \in Amounts
    BY DEF Amounts
  <2>3. c[k][<<q, b>>] = IF <<q, b>> = <<r, m>> /\ e[k] \in used[m] THEN Unit ELSE 0
    BY <2>1, <2>2
  <2> QED
    BY <2>3
<1> QED
  BY <1>2, <1>3 DEF Holds

LEMMA PlusHolds ==
  ASSUME NEW n \in Nat, NEW K, K \subseteq 1 .. n, NEW c, NEW d, NEW Q, NEW M, NEW N, NEW a \in Int, NEW e, NEW us,
         Holds(c, n, K, Q, M, a, e, us), Holds(d, n, K, Q, N, a, e, us), M \cap N = {},
         NEW L, L = M \cup N
  PROVE  Holds(Plus(c, d), n, K, Q, L, a, e, us)
<1> PICK s : s = Plus(c, d)
  OBVIOUS
<1>1. DOMAIN c = 1 .. n
  BY LengthOf DEF Holds
<1>2. s = [k \in 1 .. n |-> [x \in Amounts |-> c[k][x] + d[k][x]]]
  BY <1>1 DEF Plus
<1>3. Array(s, n)
  BY <1>2 DEF Array
<1>4. ASSUME NEW k \in K PROVE Sum(s[k], Q, L, a, e[k], us)
  <2>1. PICK x, y : x = c[k] /\ y = d[k]
    OBVIOUS
  <2>2. Sum(x, Q, M, a, e[k], us) /\ Sum(y, Q, N, a, e[k], us)
    BY <2>1 DEF Holds
  <2>3. Sum([z \in Amounts |-> x[z] + y[z]], Q, M \cup N, a, e[k], us)
    BY ONLY <2>2, PlusSum, a \in Int, M \cap N = {}
  <2>4. s[k] = [z \in Amounts |-> x[z] + y[z]]
    BY <1>2, <2>1
  <2> QED
    BY <2>3, <2>4
<1> QED
  BY <1>3, <1>4 DEF Holds

LEMMA ScaledHolds ==
  ASSUME NEW n \in Nat, NEW K, K \subseteq 1 .. n, NEW c, NEW Q, NEW M, NEW e, NEW us,
         Holds(c, n, K, Q, M, Unit, e, us), DataParallelSize \in Nat \ {0}
  PROVE  Holds(GradientReducePreprocessing(c), n, K, Q, M, Scaled, e, us)
<1>1. CASE ScalingFactor = None \/ job.average
  BY <1>1 DEF GradientReducePreprocessing, Scaled
<1>2. CASE ~(ScalingFactor = None \/ job.average)
  <2>1. PICK s : s = Over(c, DataParallelSize)
    OBVIOUS
  <2>2. DOMAIN c = 1 .. n
    BY LengthOf DEF Holds
  <2>3. s = [k \in 1 .. n |-> [x \in Amounts |-> c[k][x] \div DataParallelSize]]
    BY <2>1, <2>2 DEF Over
  <2>4. Array(s, n)
    BY <2>3 DEF Array
  <2>5. ASSUME NEW k \in K PROVE Sum(s[k], Q, M, Unit \div DataParallelSize, e[k], us)
    <3>1. PICK x : x = c[k]
      OBVIOUS
    <3>2. Sum(x, Q, M, Unit, e[k], us)
      BY <3>1 DEF Holds
    <3>3. Sum([z \in Amounts |-> x[z] \div DataParallelSize], Q, M, Unit \div DataParallelSize, e[k], us)
      BY ONLY <3>2, OverSum, DataParallelSize \in Nat \ {0}
    <3>4. s[k] = [z \in Amounts |-> x[z] \div DataParallelSize]
      BY <2>3, <3>1
    <3> QED
      BY <3>3, <3>4
  <2>6. Holds(s, n, K, Q, M, Unit \div DataParallelSize, e, us)
    BY <2>4, <2>5 DEF Holds
  <2> QED
    BY <1>2, <2>1, <2>6 DEF GradientReducePreprocessing, Scaled
<1> QED
  BY <1>1, <1>2

\* The part of a buffer from place x on, in the place y of another one.
LEMMA MovedPart ==
  ASSUME NEW n \in Nat, NEW s, NEW start \in Nat, NEW size \in Nat, start + size <= n,
         NEW Q, NEW M, NEW a, NEW e, NEW us, Holds(s, n, 1 .. n, Q, M, a, e, us)
  PROVE  /\ Array(Part(s, start, size), size)
         /\ \A k \in 1 .. size : Sum(Part(s, start, size)[k], Q, M, a, e[start + k], us)
<1> PICK p : p = Part(s, start, size)
  OBVIOUS
<1>1. IsPart(p, s, start, size)
  BY PartIs DEF Holds
<1>2. ASSUME NEW k \in 1 .. size PROVE Sum(p[k], Q, M, a, e[start + k], us)
  <2>1. start + k \in 1 .. n
    OBVIOUS
  <2>2. p[k] = s[start + k]
    BY <1>1 DEF IsPart
  <2> QED
    BY <2>1, <2>2 DEF Holds
<1> QED
  BY <1>1, <1>2 DEF IsPart

\* What the ranks have of a group before and after the reduction.
LEMMA UnreducedHolds ==
  ASSUME job \in Jobs, NEW g, NEW r \in Rank, NEW B \in Nat, B = BucketSize(g), NEW size \in Nat, size <= B,
         NEW m \in Nat \ {0}, m = Len(used), Unit \in Int, NEW c,
         size = B => Holds(c, B, 1 .. B, {r}, 1 .. m - 1, Unit, [k \in 1 .. B |-> ParamAt(g, k)], used),
         NEW M, M = IF size < B THEN {m} ELSE 1 .. m
  PROVE  Holds(GradientReducePreprocessing(
                 IF size < BucketSize(g) THEN Contribution(r, g) ELSE Plus(c, Contribution(r, g))),
               B, 1 .. B, {r}, M, Scaled, [k \in 1 .. B |-> ParamAt(g, k)], used)
<1> PICK e : e = [k \in 1 .. B |-> ParamAt(g, k)]
  OBVIOUS
<1>1. \A k \in 1 .. B : e[k] = ParamAt(g, k)
  OBVIOUS
<1>2. PICK d : d = Contribution(r, g)
  OBVIOUS
<1>3. Holds(d, B, 1 .. B, {r}, {m}, Unit, e, used)
  BY ONLY <1>1, <1>2, ContributionHolds, B \in Nat, B = BucketSize(g), m = Len(used)
<1>4. DataParallelSize \in Nat \ {0}
  <2>1. PICK t \in Nat \ {0}, s \in Nat \ {0} : DataParallelSize = t * s
    BY DenseSize
  <2>2. t * s \in Nat /\ t * s # 0
    OBVIOUS
  <2> QED
    BY <2>1, <2>2
<1>5. CASE size < B
  <2>1. Holds(GradientReducePreprocessing(d), B, 1 .. B, {r}, {m}, Scaled, e, used)
    BY ONLY <1>3, <1>4, ScaledHolds, B \in Nat
  <2> QED
    BY <1>2, <1>5, <2>1
<1>6. CASE ~(size < B)
  <2>1. Holds(c, B, 1 .. B, {r}, 1 .. m - 1, Unit, e, used)
    BY <1>6
  <2>2. (1 .. m - 1) \cap {m} = {} /\ M = (1 .. m - 1) \cup {m}
    BY <1>6
  <2>3. Holds(Plus(c, d), B, 1 .. B, {r}, M, Unit, e, used)
    BY ONLY <1>3, <2>1, <2>2, PlusHolds, B \in Nat, Unit \in Int
  <2>4. Holds(GradientReducePreprocessing(Plus(c, d)), B, 1 .. B, {r}, M, Scaled, e, used)
    BY ONLY <1>4, <2>3, ScaledHolds, B \in Nat
  <2> QED
    BY <1>2, <1>6, <2>4
<1> QED
  BY <1>5, <1>6

\* The sum over the inner group.
LEMMA SummedInner ==
  ASSUME job \in Jobs, NEW g, Formed(g), NEW r \in Rank, NEW B \in Nat, NEW U, NEW M, NEW e, Scaled \in Int,
         \A q \in Rank : Holds(U[q], B, 1 .. B, {q}, M, Scaled, e, used)
  PROVE  Holds(SumOver(U, FsdpGroup(r, g), job.average /\ ScalingFactor # None),
               B, 1 .. B, Range(FsdpGroup(r, g)), M, InnerShare(r, g), e, used)
<1> PICK group, S, P, K : /\ group = FsdpGroup(r, g) /\ S = Range(group) /\ P = [q \in S |-> {q}] /\ K = 1 .. B
  OBVIOUS
<1>1. /\ S \subseteq Rank /\ IsFiniteSet(S) /\ group[1] \in S /\ Len(group) \in Nat \ {0}
  <2>1. g.attrs.expert \in BOOLEAN
    BY DEF Formed
  <2>2. S = Range(FsdpGroup(r, g)) /\ group = FsdpGroup(r, g)
    OBVIOUS
  <2> QED
    BY ONLY <2>1, <2>2, InnerPeers, job \in Jobs, r \in Rank
<1>2. \A q \in S : Array(U[q], B)
  BY <1>1 DEF Holds
<1>3. \A q \in S, k \in K : Sum(U[q][k], P[q], M, Scaled, e[k], used)
  BY <1>1 DEF Holds
<1>4. \A p, q \in S : p # q => P[p] \cap P[q] = {}
  OBVIOUS
<1>5. \A p : p \in S <=> \E q \in S : p \in P[q]
  OBVIOUS
<1>6. PICK average : average = (job.average /\ ScalingFactor # None)
  OBVIOUS
<1>7. Holds(SumOver(U, group, average), B, K, S, M, IF average THEN Scaled \div Len(group) ELSE Scaled, e, used)
  <2>1. K \in SUBSET (1 .. B) /\ S = Range(group)
    OBVIOUS
  <2> QED
    BY ONLY <1>1, <1>2, <1>3, <1>4, <1>5, <2>1, SumOverIs, B \in Nat, Scaled \in Int
<1>8. InnerShare(r, g) = IF average THEN Scaled \div Len(group) ELSE Scaled
  BY <1>6 DEF InnerShare
<1> QED
  BY <1>6, <1>7, <1>8

\* A shard of the sum, in its place.
LEMMA SpanHeld ==
  ASSUME NEW r, NEW g, NEW m, NEW us, NEW c, NEW p \in Nat, NEW b \in Nat, NEW z \in Nat,
         Span(r, g) = p, SpanSize(r, g) = z, InnerBase(r, g) = b,
         \A k \in 1 .. z : Sum(c[p - b + k], Range(FsdpGroup(r, g)), 1 .. m, InnerShare(r, g), ParamAt(g, p + k), us)
  PROVE  SpanHolds(c, r, g, m, us)
BY DEF SpanHolds

LEMMA ReducedInner ==
  ASSUME ScaledOnce, job \in Jobs, Hfsdp => Full, NEW n, NEW g, g = groups[n], Formed(g),
         NEW m \in Nat \ {0}, m = Len(used), NEW l \in Nat, l = Len(job.uses), m <= l, Reduces,
         \A q \in Rank : GradsHold(grads[q][n], q, g, m - 1, used), NEW r \in Rank
  PROVE  GradsHold(ReduceInner(n)[r], r, g, m, used)
<1>1. PICK N \in Nat \ {0}, B \in Nat, size \in Nat, b \in Nat, p \in Nat, z \in Nat, v \in Nat, s \in Nat :
        GradLay(r, g, N, B, size, b, p, z, v, s) /\ N = Inners(job.mesh, g.attrs.expert)
  BY GradsLaidOut
<1>2. /\ BucketSize(g) = B /\ GradSize(g) = size /\ size <= B
      /\ InnerBase(r, g) = b /\ Span(r, g) = p /\ SpanSize(r, g) = z
      /\ b <= p /\ p + z <= b + size /\ b + size <= B
      /\ size = B => b = 0
      /\ size # B => b = p /\ size = z /\ GradsEach
      /\ N = 1 => p = 0 /\ z = B
      /\ GradsEach /\ N > 1 => size # B
  BY <1>1 DEF GradLay
<1>3. Len(FsdpGroup(r, g)) = N /\ g.attrs.expert \in BOOLEAN
  <2>1. g.attrs.expert \in BOOLEAN
    BY DEF Formed
  <2> QED
    BY ONLY <1>1, <2>1, InnerPlace, job \in Jobs, r \in Rank
<1>4. PICK e : e = [k \in 1 .. B |-> ParamAt(g, k)]
  OBVIOUS
<1>5. PICK M : M = IF size < B THEN {m} ELSE 1 .. m
  OBVIOUS
<1>6. Unit \in Int /\ InnerShare(r, g) \in Int
  BY SharesAre
<1>7. Scaled \in Int
  <2>1. PICK t \in Nat \ {0}, w \in Nat \ {0} : DataParallelSize = t * w
    BY DenseSize
  <2>2. PICK d \in Nat \ {0} : d = DataParallelSize
    <3>1. t * w \in Nat /\ t * w # 0
      OBVIOUS
    <3> QED
      BY <2>1, <3>1
  <2>3. Unit \div d \in Int
    BY <1>6
  <2> QED
    BY <1>6, <2>2, <2>3 DEF Scaled
<1>8. PICK U : U = [q \in Rank |->
                      GradientReducePreprocessing(
                        IF GradSize(g) < BucketSize(g) THEN Contribution(q, g)
                        ELSE Plus(grads[q][n], Contribution(q, g)))]
  OBVIOUS
<1>9. ASSUME NEW q \in Rank
      PROVE  Holds(U[q], B, 1 .. B, {q}, M, Scaled, e, used)
  <2>1. PICK c : c = grads[q][n]
    OBVIOUS
  <2>2. size = B => Holds(c, B, 1 .. B, {q}, 1 .. m - 1, Unit, [k \in 1 .. B |-> ParamAt(g, k)], used)
    <3>1. SUFFICES ASSUME size = B
                   PROVE  Holds(c, B, 1 .. B, {q}, 1 .. m - 1, Unit, e, used)
      BY <1>4
    <3>2. m - 1 < Len(job.uses)
      OBVIOUS
    <3>3. Array(c, B) /\ LocalHolds(c, q, g, m - 1, used)
      BY <1>2, <2>1, <3>1, <3>2 DEF GradsHold
    <3>4. \A k \in 1 .. B : e[k] = ParamAt(g, k)
      BY <1>4
    <3> QED
      BY <1>2, <3>3, <3>4 DEF LocalHolds, Holds
  <2>3. U[q] = GradientReducePreprocessing(
                 IF size < BucketSize(g) THEN Contribution(q, g) ELSE Plus(c, Contribution(q, g)))
    BY <1>2, <1>8, <2>1
  <2>4. B = BucketSize(g) /\ size <= B
    BY <1>2
  <2>5. Holds(GradientReducePreprocessing(
                 IF size < BucketSize(g) THEN Contribution(q, g) ELSE Plus(c, Contribution(q, g))),
               B, 1 .. B, {q}, M, Scaled, [k \in 1 .. B |-> ParamAt(g, k)], used)
    BY ONLY <1>5, <1>6, <2>2, <2>4, UnreducedHolds, job \in Jobs, B \in Nat, size \in Nat, m \in Nat \ {0},
            m = Len(used), q \in Rank
  <2> QED
    BY <1>4, <2>3, <2>5
<1>10. PICK sum : sum = SumOver(U, FsdpGroup(r, g), job.average /\ ScalingFactor # None)
  OBVIOUS
<1>11. PICK S, a : S = Range(FsdpGroup(r, g)) /\ a = InnerShare(r, g)
  OBVIOUS
<1>12. Holds(sum, B, 1 .. B, S, M, a, e, used)
  <2>1. Holds(SumOver(U, FsdpGroup(r, g), job.average /\ ScalingFactor # None),
               B, 1 .. B, Range(FsdpGroup(r, g)), M, InnerShare(r, g), e, used)
    BY ONLY <1>7, <1>9, SummedInner, job \in Jobs, Formed(g), r \in Rank, B \in Nat
  <2> QED
    BY <1>10, <1>11, <2>1
<1>13. ReduceInner(n)[r] =
         IF ~HasWeights THEN sum
         ELSE IF size = B THEN Paste(U[r], p, Part(sum, p, z))
         ELSE IF job.inplace THEN Part(sum, p, size)
         ELSE Plus(grads[r][n], Part(sum, p, size))
  <2>1. HasWeights => z = BucketSize(g) \div Len(FsdpGroup(r, g)) /\ p = GroupRank(FsdpGroup(r, g), r) * z
    BY <1>2 DEF Span, SpanSize
  <2>2. PICK y : y = BucketSize(g) \div Len(FsdpGroup(r, g))
    OBVIOUS
  <2>3. PICK x : x = GroupRank(FsdpGroup(r, g), r) * y
    OBVIOUS
  <2>4. ReduceInner(n)[r] =
         IF ~HasWeights THEN sum
         ELSE IF size = B THEN Paste(U[r], x, Part(sum, x, y))
         ELSE IF job.inplace THEN Part(sum, x, size)
         ELSE Plus(grads[r][n], Part(sum, x, size))
    BY <1>2, <1>8, <1>10, <2>2, <2>3 DEF ReduceInner
  <2> QED
    BY <2>1, <2>2, <2>3, <2>4
<1>14. IF GradsEach THEN l = 1 \/ ~job.inplace ELSE m = l
  <2>1. l = 1 => m = l
    OBVIOUS
  <2> QED
    BY <2>1 DEF ScaledOnce, Reduces, IsLastMicrobatch, GradsEach
<1>15. /\ Array(Part(sum, p, z), z)
       /\ \A k \in 1 .. z : Sum(Part(sum, p, z)[k], S, M, a, e[p + k], used)
  <2>1. p + z <= B
    BY <1>2
  <2> QED
    BY ONLY <1>12, <2>1, MovedPart, B \in Nat, p \in Nat, z \in Nat
<1>16. \A k \in 1 .. z : e[p + k] = ParamAt(g, p + k)
  <2>1. \A k \in 1 .. z : p + k \in 1 .. B
    BY <1>2
  <2> QED
    BY <1>4, <2>1
<1>17. CASE size = B
  <2>1. M = 1 .. m
    BY <1>5, <1>17
  <2>2. PICK c : c = ReduceInner(n)[r]
    OBVIOUS
  <2>3. Array(c, B) /\ SpanHolds(c, r, g, m, used)
    <3>1. CASE ~HasWeights
      <4>1. c = sum
        BY <1>13, <2>2, <3>1
      <4>2. Array(c, B)
        BY <1>12, <4>1 DEF Holds
      <4>3. p = 0 /\ b = 0 /\ z = B
        BY <1>2, <1>17, <3>1 DEF Span, SpanSize
      <4>4. ASSUME NEW k \in 1 .. z PROVE Sum(c[p - b + k], S, 1 .. m, a, ParamAt(g, p + k), used)
        <5>1. p - b + k = k /\ p + k = k /\ k \in 1 .. B
          BY <4>3
        <5>2. Sum(sum[k], S, M, a, e[k], used)
          BY <1>12, <5>1 DEF Holds
        <5> QED
          BY <1>16, <2>1, <4>1, <5>1, <5>2
      <4>5. SpanHolds(c, r, g, m, used)
        BY <1>2, <1>11, <4>4, SpanHeld
      <4> QED
        BY <4>2, <4>5
    <3>2. CASE HasWeights
      <4>1. PICK part : part = Part(sum, p, z)
        OBVIOUS
      <4>2. c = Paste(U[r], p, part)
        BY <1>13, <1>17, <2>2, <3>2, <4>1
      <4>3. Array(U[r], B) /\ Array(part, z)
        BY <1>9, <1>15, <4>1 DEF Holds
      <4>4. /\ Array(c, B)
            /\ \A k \in 1 .. B : c[k] = IF k > p /\ k <= p + z THEN part[k - p] ELSE U[r][k]
        BY <4>2, <4>3, PasteIs
      <4>5. b = 0
        BY <1>2, <1>17
      <4>6. ASSUME NEW k \in 1 .. z PROVE Sum(c[p - b + k], S, 1 .. m, a, ParamAt(g, p + k), used)
        <5>1. p - b + k = p + k /\ p + k \in 1 .. B /\ p + k > p /\ p + k <= p + z /\ p + k - p = k
          BY <1>2, <1>17, <4>5
        <5>2. c[p - b + k] = part[k]
          <6>1. PICK j \in 1 .. B : j = p + k
            BY <5>1
          <6>2. c[j] = part[j - p]
            BY <4>4, <5>1, <6>1
          <6>3. j - p = k /\ p - b + k = j
            BY <5>1, <6>1
          <6> QED
            BY ONLY <6>2, <6>3
        <5> QED
          BY <1>15, <1>16, <2>1, <4>1, <5>2
      <4>7. SpanHolds(c, r, g, m, used)
        BY <1>2, <1>11, <4>6, SpanHeld
      <4> QED
        BY <4>4, <4>7
    <3> QED
      BY <3>1, <3>2
  <2>4. ASSUME m < l PROVE LocalHolds(c, r, g, m, used)
    <3>1. GradsEach /\ l # 1
      <4>1. l # 1
        BY ONLY <2>4, m \in Nat \ {0}, l \in Nat
      <4> QED
        BY <1>14, <2>4, <4>1
    <3>2. N = 1
      BY <1>2, <1>17, <3>1
    <3>3. S = {r}
      BY ONLY <1>3, <1>11, <3>2, InnerPeers, job \in Jobs, r \in Rank
    <3>4. a = Unit
      BY <1>3, <1>11, <3>1, <3>2, AloneUndivided
    <3>5. p = 0 /\ z = B /\ b = 0
      BY <1>2, <1>17, <3>2
    <3>6. ASSUME NEW k \in 1 .. B PROVE Sum(c[k], {r}, 1 .. m, Unit, ParamAt(g, k), used)
      <4>1. p - b + k = k /\ p + k = k /\ k \in 1 .. z
        BY <3>5
      <4>2. Sum(c[p - b + k], S, 1 .. m, a, ParamAt(g, p + k), used)
        BY <1>2, <1>11, <2>3, <4>1 DEF SpanHolds
      <4> QED
        BY <3>3, <3>4, <4>1, <4>2
    <3> QED
      BY <1>2, <3>6 DEF LocalHolds
  <2> QED
    BY <1>2, <1>17, <2>2, <2>3, <2>4 DEF GradsHold
<1>18. CASE size # B
  <2>1. size < B /\ M = {m} /\ b = p /\ size = z /\ GradsEach
    BY <1>2, <1>5, <1>18
  <2>2. HasWeights
    BY <2>1 DEF GradsEach, HasWeights
  <2>3. PICK part : part = Part(sum, p, z)
    OBVIOUS
  <2>4. PICK c : c = ReduceInner(n)[r]
    OBVIOUS
  <2>5. \A k \in 1 .. z : Sum(part[k], S, {m}, a, ParamAt(g, p + k), used)
    BY <1>15, <1>16, <2>1, <2>3
  <2>6. Array(c, z) /\ \A k \in 1 .. z : Sum(c[k], S, 1 .. m, a, ParamAt(g, p + k), used)
    <3>1. CASE job.inplace
      <4>1. c = part
        BY <1>13, <1>18, <2>1, <2>2, <2>3, <2>4, <3>1
      <4>2. {m} = 1 .. m
        <5>1. l = 1
          BY <1>14, <2>1, <3>1
        <5>2. m = 1
          BY <5>1
        <5> QED
          BY <5>2
      <4> QED
        BY <1>15, <2>3, <2>5, <4>1, <4>2
    <3>2. CASE ~job.inplace
      <4>1. PICK d : d = grads[r][n]
        OBVIOUS
      <4>2. c = Plus(d, part)
        BY <1>13, <1>18, <2>1, <2>2, <2>3, <2>4, <3>2, <4>1
      <4>3. PICK f : f = [k \in 1 .. z |-> ParamAt(g, p + k)]
        OBVIOUS
      <4>4. Array(d, z) /\ SpanHolds(d, r, g, m - 1, used)
        BY <1>2, <1>18, <2>1, <4>1 DEF GradsHold
      <4>5. Holds(d, z, 1 .. z, S, 1 .. m - 1, a, f, used)
        <5>1. ASSUME NEW k \in 1 .. z PROVE Sum(d[k], S, 1 .. m - 1, a, f[k], used)
          <6>1. p - b + k = k /\ f[k] = ParamAt(g, p + k)
            BY <2>1, <4>3
          <6>2. Sum(d[p - b + k], S, 1 .. m - 1, a, ParamAt(g, p + k), used)
            BY <1>2, <1>11, <4>4 DEF SpanHolds
          <6> QED
            BY <6>1, <6>2
        <5> QED
          BY <4>4, <5>1 DEF Holds
      <4>6. Holds(part, z, 1 .. z, S, {m}, a, f, used)
        BY <1>15, <2>3, <2>5, <4>3 DEF Holds
      <4>7. (1 .. m - 1) \cap {m} = {} /\ 1 .. m = (1 .. m - 1) \cup {m}
        OBVIOUS
      <4>8. a \in Int
        BY <1>6, <1>11
      <4>9. Holds(Plus(d, part), z, 1 .. z, S, 1 .. m, a, f, used)
        BY ONLY <4>5, <4>6, <4>7, <4>8, PlusHolds, z \in Nat
      <4> QED
        BY <4>2, <4>3, <4>9 DEF Holds
    <3> QED
      BY <3>1, <3>2
  <2>7. ASSUME NEW k \in 1 .. z PROVE Sum(c[p - b + k], S, 1 .. m, a, ParamAt(g, p + k), used)
    <3>1. p - b + k = k
      BY <2>1
    <3> QED
      BY <2>6, <3>1
  <2>8. SpanHolds(c, r, g, m, used)
    BY <1>2, <1>11, <2>7, SpanHeld
  <2> QED
    BY <1>2, <1>18, <2>1, <2>4, <2>6, <2>8 DEF GradsHold
<1> QED
  BY <1>17, <1>18

LEMMA AddedOnly ==
  ASSUME ScaledOnce, job \in Jobs, Hfsdp => Full, NEW n, NEW g, g = groups[n], Formed(g),
         NEW m \in Nat \ {0}, m = Len(used), NEW l \in Nat, l = Len(job.uses), m <= l, ~Reduces,
         NEW r \in Rank, GradsHold(grads[r][n], r, g, m - 1, used)
  PROVE  GradsHold(Plus(grads[r][n], Contribution(r, g)), r, g, m, used)
<1>1. PICK N \in Nat \ {0}, B \in Nat, size \in Nat, b \in Nat, p \in Nat, z \in Nat, v \in Nat, s \in Nat :
        GradLay(r, g, N, B, size, b, p, z, v, s)
  BY GradsLaidOut
<1>2. ~GradsEach /\ m # l
  BY DEF Reduces, IsLastMicrobatch, GradsEach
<1>3. BucketSize(g) = B /\ GradSize(g) = B
  BY <1>1, <1>2 DEF GradLay
<1>4. m - 1 < l /\ m < l
  BY <1>2
<1>5. PICK c, d, e : c = grads[r][n] /\ d = Contribution(r, g) /\ e = [k \in 1 .. B |-> ParamAt(g, k)]
  OBVIOUS
<1>6. \A k \in 1 .. B : e[k] = ParamAt(g, k)
  BY <1>5
<1>7. Unit \in Int
  BY SharesAre
<1>8. Holds(d, B, 1 .. B, {r}, {m}, Unit, e, used)
  <2>1. B = BucketSize(g) /\ d = Contribution(r, g)
    BY <1>3, <1>5
  <2> QED
    BY ONLY <1>6, <2>1, ContributionHolds, B \in Nat, m = Len(used)
<1>9. Holds(c, B, 1 .. B, {r}, 1 .. m - 1, Unit, e, used)
  <2>1. Array(c, B) /\ LocalHolds(c, r, g, m - 1, used)
    BY <1>3, <1>4, <1>5 DEF GradsHold
  <2> QED
    BY <1>3, <1>6, <2>1 DEF LocalHolds, Holds
<1>10. (1 .. m - 1) \cap {m} = {} /\ 1 .. m = (1 .. m - 1) \cup {m}
  OBVIOUS
<1>11. Holds(Plus(c, d), B, 1 .. B, {r}, 1 .. m, Unit, e, used)
  BY ONLY <1>7, <1>8, <1>9, <1>10, PlusHolds, B \in Nat
<1>12. Array(Plus(c, d), B) /\ LocalHolds(Plus(c, d), r, g, m, used)
  BY <1>3, <1>6, <1>11 DEF LocalHolds, Holds
<1> QED
  BY <1>3, <1>4, <1>5, <1>12 DEF GradsHold

----------------------------------------------------------------------------
(* The reduction over the outer group.                                     *)

LEMMA ReducedOuter ==
  ASSUME ScaledOnce, job \in Jobs, Hfsdp => Full, job.mesh.hybrid, NEW n, NEW g, g = groups[n], Formed(g),
         NEW m \in Nat, m = Len(job.uses),
         \A q \in Rank : GradsHold(grads[q][n], q, g, m, used), NEW r \in Rank
  PROVE  Array(ReduceOuter(r, n), GradSize(g)) /\ OwnHolds(ReduceOuter(r, n), r, g, m, used)
<1>1. PICK N \in Nat \ {0}, B \in Nat, size \in Nat, b \in Nat, p \in Nat, z \in Nat, v \in Nat, s \in Nat :
        GradLay(r, g, N, B, size, b, p, z, v, s)
  BY GradsLaidOut
<1>2. /\ GradSize(g) = size /\ InnerBase(r, g) = b /\ Span(r, g) = p /\ SpanSize(r, g) = z
      /\ View(r, g) = v /\ ShardSize(g) = s /\ ShardStart(r, g) = b + v
      /\ b <= p /\ p + z <= b + size /\ p <= b + v /\ b + v + s <= p + z
  BY <1>1 DEF GradLay
<1> PICK x \in BOOLEAN : x = g.attrs.expert
  BY DEF Formed
<1> PICK group : group = DenseOuter(r)
  OBVIOUS
<1> PICK S : S = Range(group)
  OBVIOUS
<1> PICK a : a = InnerShare(r, g)
  OBVIOUS
<1>3. /\ S \subseteq Rank /\ IsFiniteSet(S) /\ group[1] \in S /\ group = OuterGroup(r, g)
      /\ Len(group) \in Nat \ {0} /\ Len(group) = job.mesh.outer
      /\ \A q \in S : /\ Span(q, g) = p /\ SpanSize(q, g) = z
                      /\ InnerBase(q, g) = b /\ InnerShare(q, g) = a
  <2>1. g.attrs.expert \in BOOLEAN
    BY DEF Formed
  <2>2. group = DenseOuter(r) /\ S = Range(group)
    OBVIOUS
  <2>3. AreOuterPeers(S, group, r, g)
    BY ONLY <2>1, <2>2, OuterPeers, job \in Jobs, r \in Rank
  <2> QED
    BY <1>2, <2>3 DEF AreOuterPeers, SameSpan
<1>4. PICK P : P = [q \in S |-> Range(FsdpGroup(q, g))]
  OBVIOUS
<1>5. PICK U : U = Range(DpGroup(r, g))
  OBVIOUS
<1>6. /\ \A q : q \in U <=> \E y \in S : q \in P[y]
      /\ \A q, y \in S : q # y => P[q] \cap P[y] = {}
  <2>1. IsMesh(job.mesh) /\ r \in Ranks(job.mesh)
    BY MeshOfJob DEF Rank
  <2>2. S = Range(GetOuterFsdpGroup(job.mesh, r, x))
    BY <1>3 DEF OuterGroup
  <2>3. /\ \A q : q \in Range(InOrder(Peers(job.mesh, r, x)))
                    <=> \E y \in S : q \in Range(GetFsdpGroup(job.mesh, y, x))
        /\ \A q, y \in S :
             q # y => Range(GetFsdpGroup(job.mesh, q, x)) \cap Range(GetFsdpGroup(job.mesh, y, x)) = {}
    BY ONLY <2>1, <2>2, PeersSpread, x \in BOOLEAN
  <2>4. \A y \in S : P[y] = Range(GetFsdpGroup(job.mesh, y, x))
    BY <1>4 DEF FsdpGroup
  <2>5. U = Range(InOrder(Peers(job.mesh, r, x)))
    BY <1>5 DEF DpGroup, GetDpGroup
  <2>6. ASSUME NEW q PROVE q \in U <=> \E y \in S : q \in P[y]
    BY ONLY <2>3, <2>4, <2>5
  <2>7. ASSUME NEW q \in S, NEW y \in S, q # y PROVE P[q] \cap P[y] = {}
    BY ONLY <2>3, <2>4, <2>7
  <2> QED
    BY <2>6, <2>7
<1>7. PICK K : K = v + 1 .. v + s
  OBVIOUS
<1>8. K \in SUBSET (1 .. size)
  BY <1>2, <1>7
<1>9. PICK e : e = [k \in K |-> ParamAt(g, b + k)]
  OBVIOUS
<1>10. PICK cells : cells = [q \in Rank |-> grads[q][n]]
  OBVIOUS
<1>11. ASSUME NEW q \in S
       PROVE  /\ Array(cells[q], size)
              /\ \A k \in K : Sum(cells[q][k], P[q], 1 .. m, a, e[k], used)
  <2>1. PICK c : c = cells[q]
    OBVIOUS
  <2>2. q \in Rank /\ c = grads[q][n]
    BY <1>3, <1>10, <2>1
  <2>3. Array(c, size) /\ SpanHolds(c, q, g, m, used)
    <3>1. ~(m < Len(job.uses))
      OBVIOUS
    <3>2. GradsHold(c, q, g, m, used)
      BY <2>2
    <3> QED
      BY <1>2, <3>1, <3>2 DEF GradsHold
  <2>4. \A j \in 1 .. z : Sum(c[p - b + j], P[q], 1 .. m, a, ParamAt(g, p + j), used)
    BY <1>3, <1>4, <2>3 DEF SpanHolds
  <2>5. ASSUME NEW k \in K PROVE Sum(c[k], P[q], 1 .. m, a, e[k], used)
    <3>1. PICK j \in 1 .. z : p - b + j = k /\ p + j = b + k
      <4>1. k \in Int /\ v + 1 <= k /\ k <= v + s
        BY <1>7
      <4>2. b + k - p \in 1 .. z /\ p - b + (b + k - p) = k /\ p + (b + k - p) = b + k
        BY <1>2, <4>1
      <4> QED
        BY <4>2
    <3>2. e[k] = ParamAt(g, p + j)
      BY <1>9, <3>1
    <3>3. Sum(c[p - b + j], P[q], 1 .. m, a, ParamAt(g, p + j), used)
      BY <2>4
    <3> QED
      BY ONLY <3>1, <3>2, <3>3
  <2> QED
    BY <2>1, <2>3, <2>5
<1>12. PICK average : average = job.average
  OBVIOUS
<1>13. a \in Int
  BY SharesAre
<1>14. PICK sum : sum = SumOver(cells, group, average)
  OBVIOUS
<1>15. Holds(sum, size, K, U, 1 .. m, IF average THEN a \div Len(group) ELSE a, e, used)
  <2>1. \A q \in S : Array(cells[q], size)
    BY <1>11
  <2>2. \A q \in S, k \in K : Sum(cells[q][k], P[q], 1 .. m, a, e[k], used)
    BY <1>11
  <2>3. S = Range(group)
    OBVIOUS
  <2>4. Holds(SumOver(cells, group, average), size, K, U, 1 .. m,
              IF average THEN a \div Len(group) ELSE a, e, used)
    BY ONLY <1>3, <1>6, <1>8, <1>13, <2>1, <2>2, <2>3, SumOverIs, size \in Nat
  <2> QED
    BY <1>14, <2>4
<1>16. OuterShare(r, g) = IF average THEN a \div Len(group) ELSE a
  BY <1>3, <1>12 DEF OuterShare
<1>17. Array(sum, size) /\ \A k \in K : Sum(sum[k], U, 1 .. m, OuterShare(r, g), e[k], used)
  BY <1>15, <1>16 DEF Holds
<1>18. PICK c : c = ReduceOuter(r, n)
  OBVIOUS
<1>19. Array(c, size) /\ \A k \in K : c[k] = sum[k]
  <2>1. CASE Hfsdp
    <3>1. HasWeights /\ s = g.plan.shard_size
      BY <1>2, <2>1 DEF HasWeights, Full, ShardSize
    <3>2. v = GroupRank(group, r) * s
      BY <1>2, <1>3, <2>1, <3>1 DEF View, ViewStart
    <3>3. PICK part, d : part = Part(sum, v, s) /\ d = grads[r][n]
      OBVIOUS
    <3>4. c = Paste(d, v, part)
      BY <1>10, <1>12, <1>14, <1>18, <2>1, <3>1, <3>2, <3>3 DEF ReduceOuter, DenseOuter
    <3>5. v + s <= size
      BY <1>2
    <3>6. IsPart(part, sum, v, s)
      BY <1>17, <3>3, <3>5, PartIs
    <3>7. Array(d, size)
      BY <1>2, <3>3 DEF GradsHold
    <3>8. /\ Array(c, size)
          /\ \A k \in 1 .. size : c[k] = IF k > v /\ k <= v + s THEN part[k - v] ELSE d[k]
      <4>1. Array(part, s)
        BY <3>6 DEF IsPart
      <4> QED
        BY ONLY <3>4, <3>7, <4>1, PasteIs, size \in Nat, s \in Nat
    <3>9. ASSUME NEW k \in K PROVE c[k] = sum[k]
      <4>1. k \in 1 .. size /\ k > v /\ k <= v + s /\ k - v \in 1 .. s /\ v + (k - v) = k
        BY ONLY <1>7, <1>8, k \in K, v \in Nat, s \in Nat, size \in Nat
      <4>2. c[k] = part[k - v]
        BY <3>8, <4>1
      <4>3. part[k - v] = sum[v + (k - v)]
        BY <3>6, <4>1 DEF IsPart
      <4> QED
        BY ONLY <4>1, <4>2, <4>3
    <3> QED
      BY <3>8, <3>9
  <2>2. CASE ~Hfsdp
    <3>1. c = sum
      BY <1>10, <1>12, <1>14, <1>18, <2>2 DEF ReduceOuter, DenseOuter
    <3> QED
      BY <1>17, <3>1
  <2> QED
    BY <2>1, <2>2
<1>20. ASSUME NEW k \in 1 .. s
       PROVE  Sum(c[v + k], U, 1 .. m, OuterShare(r, g), ParamAt(g, ShardStart(r, g) + k), used)
  <2>1. v + k \in K /\ b + (v + k) = (b + v) + k
    BY <1>7
  <2>2. e[v + k] = ParamAt(g, ShardStart(r, g) + k)
    BY <1>2, <1>9, <2>1
  <2> QED
    BY <1>17, <1>19, <2>1, <2>2
<1>21. OwnHolds(c, r, g, m, used)
  BY <1>2, <1>5, <1>20 DEF OwnHolds
<1> QED
  BY <1>2, <1>18, <1>19, <1>21

----------------------------------------------------------------------------
(* What steps keep of the gradients.                                       *)

LEMMA SameSum ==
  ASSUME job' = job, NEW c, NEW Q, NEW M, NEW a, NEW n, NEW us
  PROVE  Sum(c, Q, M, a, n, us)' = Sum(c, Q, M, a, n, us)
BY DEF Sum, Rank

LEMMA SameShares ==
  ASSUME job' = job, NEW g, NEW r
  PROVE  /\ Unit' = Unit /\ InnerShare(r, g)' = InnerShare(r, g) /\ OuterShare(r, g)' = OuterShare(r, g)
         /\ FsdpGroup(r, g)' = FsdpGroup(r, g) /\ DpGroup(r, g)' = DpGroup(r, g)
<1>1. FsdpGroup(r, g)' = FsdpGroup(r, g) /\ DpGroup(r, g)' = DpGroup(r, g)
  BY DEF FsdpGroup, DpGroup
<1>2. DataParallelSize' = DataParallelSize
  BY DEF DataParallelSize
<1>3. Unit' = Unit
  BY <1>2 DEF Unit
<1>4. ScalingFactor' = ScalingFactor
  BY DEF ScalingFactor, Hfsdp
<1>5. Scaled' = Scaled
  BY <1>2, <1>3, <1>4 DEF Scaled
<1>6. InnerShare(r, g)' = InnerShare(r, g)
  BY <1>1, <1>4, <1>5 DEF InnerShare
<1>7. OuterShare(r, g)' = OuterShare(r, g)
  BY <1>6 DEF OuterShare
<1> QED
  BY <1>1, <1>3, <1>6, <1>7

LEMMA SameSpans ==
  ASSUME job' = job, NEW g, NEW r
  PROVE  /\ GradSize(g)' = GradSize(g) /\ InnerBase(r, g)' = InnerBase(r, g) /\ View(r, g)' = View(r, g)
         /\ SpanSize(r, g)' = SpanSize(r, g) /\ Span(r, g)' = Span(r, g)
<1>1. FsdpGroup(0, g)' = FsdpGroup(0, g) /\ FsdpGroup(r, g)' = FsdpGroup(r, g)
  BY DEF FsdpGroup
<1>2. BucketSize(g)' = BucketSize(g) /\ HasWeights' = HasWeights
  BY SameSizes DEF HasWeights
<1>3. GradSize(g)' = GradSize(g)
  BY <1>1, <1>2 DEF GradSize, InnerSize, GradsDistributed
<1>4. PICK size : size = GradSize(g)
  OBVIOUS
<1>5. InnerBase(r, g)' = InnerBase(r, g) /\ View(r, g)' = View(r, g)
  <2>1. InnerStart(r, g, size)' = InnerStart(r, g, size) /\ ViewStart(r, g, size)' = ViewStart(r, g, size)
    BY SameSizes
  <2> QED
    BY <1>3, <1>4, <2>1 DEF InnerBase, View
<1>6. SpanSize(r, g)' = SpanSize(r, g)
  BY <1>1, <1>2 DEF SpanSize
<1>7. Span(r, g)' = Span(r, g)
  BY <1>1, <1>2, <1>6 DEF Span
<1> QED
  BY <1>3, <1>5, <1>6, <1>7

LEMMA SameGrads ==
  ASSUME job' = job, NEW c, NEW g, NEW r, NEW m, NEW us, NEW out
  PROVE  GradKnown(c, r, g, m, us, out)' = GradKnown(c, r, g, m, us, out)
<1> PICK B, b, p, z, v, s, w :
      /\ B = BucketSize(g) /\ b = InnerBase(r, g) /\ p = Span(r, g) /\ z = SpanSize(r, g)
      /\ v = View(r, g) /\ s = ShardSize(g) /\ w = ShardStart(r, g)
  OBVIOUS
<1>1. /\ B = BucketSize(g)' /\ b = InnerBase(r, g)' /\ p = Span(r, g)' /\ z = SpanSize(r, g)'
      /\ v = View(r, g)' /\ s = ShardSize(g)' /\ w = ShardStart(r, g)'
  BY SameSizes, SameSpans
<1> PICK u, y, x, S, T :
      /\ u = Unit /\ y = InnerShare(r, g) /\ x = OuterShare(r, g)
      /\ S = Range(FsdpGroup(r, g)) /\ T = Range(DpGroup(r, g))
  OBVIOUS
<1>2. /\ u = Unit' /\ y = InnerShare(r, g)' /\ x = OuterShare(r, g)'
      /\ S = Range(FsdpGroup(r, g))' /\ T = Range(DpGroup(r, g))'
  BY SameShares
<1>3. \A k : ParamAt(g, k)' = ParamAt(g, k)
  BY SameCells DEF ParamAt
<1>4. LocalHolds(c, r, g, m, us)' = LocalHolds(c, r, g, m, us)
  <2>1. LocalHolds(c, r, g, m, us) = \A k \in 1 .. B : Sum(c[k], {r}, 1 .. m, u, ParamAt(g, k), us)
    BY DEF LocalHolds
  <2>2. LocalHolds(c, r, g, m, us)' = \A k \in 1 .. B : Sum(c[k], {r}, 1 .. m, u, ParamAt(g, k), us)'
    BY <1>1, <1>2 DEF LocalHolds
  <2>3. ASSUME NEW k PROVE Sum(c[k], {r}, 1 .. m, u, ParamAt(g, k), us)' = Sum(c[k], {r}, 1 .. m, u, ParamAt(g, k), us)
    <3>1. PICK d, P, M, n : d = c[k] /\ P = {r} /\ M = 1 .. m /\ n = ParamAt(g, k)
      OBVIOUS
    <3>2. Sum(d, P, M, u, n, us)' = Sum(d, P, M, u, n, us)
      BY SameSum
    <3>3. n = ParamAt(g, k)'
      BY <1>3, <3>1
    <3> QED
      BY <3>1, <3>2, <3>3
  <2> QED
    BY <2>1, <2>2, <2>3
<1>5. SpanHolds(c, r, g, m, us)' = SpanHolds(c, r, g, m, us)
  <2>1. SpanHolds(c, r, g, m, us) = \A k \in 1 .. z : Sum(c[p - b + k], S, 1 .. m, y, ParamAt(g, p + k), us)
    BY DEF SpanHolds
  <2>2. SpanHolds(c, r, g, m, us)' = \A k \in 1 .. z : Sum(c[p - b + k], S, 1 .. m, y, ParamAt(g, p + k), us)'
    BY <1>1, <1>2 DEF SpanHolds
  <2>3. ASSUME NEW k
        PROVE  Sum(c[p - b + k], S, 1 .. m, y, ParamAt(g, p + k), us)' = Sum(c[p - b + k], S, 1 .. m, y, ParamAt(g, p + k), us)
    <3>1. PICK d, M, n : d = c[p - b + k] /\ M = 1 .. m /\ n = ParamAt(g, p + k)
      OBVIOUS
    <3>2. Sum(d, S, M, y, n, us)' = Sum(d, S, M, y, n, us)
      BY SameSum
    <3>3. n = ParamAt(g, p + k)'
      BY <1>3, <3>1
    <3> QED
      BY <3>1, <3>2, <3>3
  <2> QED
    BY <2>1, <2>2, <2>3
<1>6. OwnHolds(c, r, g, m, us)' = OwnHolds(c, r, g, m, us)
  <2>1. OwnHolds(c, r, g, m, us) = \A k \in 1 .. s : Sum(c[v + k], T, 1 .. m, x, ParamAt(g, w + k), us)
    BY DEF OwnHolds
  <2>2. OwnHolds(c, r, g, m, us)' = \A k \in 1 .. s : Sum(c[v + k], T, 1 .. m, x, ParamAt(g, w + k), us)'
    BY <1>1, <1>2 DEF OwnHolds
  <2>3. ASSUME NEW k
        PROVE  Sum(c[v + k], T, 1 .. m, x, ParamAt(g, w + k), us)' = Sum(c[v + k], T, 1 .. m, x, ParamAt(g, w + k), us)
    <3>1. PICK d, M, n : d = c[v + k] /\ M = 1 .. m /\ n = ParamAt(g, w + k)
      OBVIOUS
    <3>2. Sum(d, T, M, x, n, us)' = Sum(d, T, M, x, n, us)
      BY SameSum
    <3>3. n = ParamAt(g, w + k)'
      BY <1>3, <3>1
    <3> QED
      BY <3>1, <3>2, <3>3
  <2> QED
    BY <2>1, <2>2, <2>3
<1>7. GradSize(g)' = GradSize(g) /\ HasGrads(g)' = HasGrads(g) /\ BucketSize(g)' = BucketSize(g)
  BY SameSizes, SameSpans
<1>8. Array(c, GradSize(g))' = Array(c, GradSize(g))
  BY <1>7
<1>9. GradsHold(c, r, g, m, us)' = GradsHold(c, r, g, m, us)
  BY <1>4, <1>5, <1>7, <1>8 DEF GradsHold
<1> QED
  BY <1>6, <1>7, <1>8, <1>9 DEF GradKnown

LEMMA SameForm == ASSUME job' = job, NEW g PROVE Formed(g)' = Formed(g)
BY SameSizes DEF Formed, HasWeights

LEMMA GradsStay ==
  ASSUME GradsKnown, UNCHANGED <<job, groups, grads, used>>, Handed' = Handed, Added' = Added, Outside' = Outside
  PROVE  GradsKnown'
<1>1. Rank' = Rank
  BY SameSizes
<1>2. ASSUME NEW r \in Rank, NEW n \in 1 .. Handed PROVE GradKnown(grads[r][n], r, groups[n], Added, used, Outside)'
  <2>1. PICK c, g, m, us, out : c = grads[r][n] /\ g = groups[n] /\ m = Added /\ us = used /\ out = Outside
    OBVIOUS
  <2>2. c = grads'[r][n] /\ g = groups'[n] /\ m = Added' /\ us = used' /\ out = Outside'
    BY <2>1
  <2>3. GradKnown(c, r, g, m, us, out)
    BY <2>1 DEF GradsKnown
  <2>4. GradKnown(c, r, g, m, us, out)'
    BY <2>3, SameGrads
  <2> QED
    BY <2>2, <2>4
<1>3. \A r \in Rank : Array(grads[r], Handed)'
  BY DEF GradsKnown, Array
<1> QED
  BY <1>1, <1>2, <1>3 DEF GradsKnown

LEMMA FormsStay ==
  ASSUME FormedGroups, UNCHANGED <<job, groups>>, Counted' = Counted PROVE FormedGroups'
<1>1. \A g : Formed(g)' = Formed(g)
  BY SameForm
<1> QED
  BY <1>1 DEF FormedGroups

\* A buffer that does not have microbatches that differ.
LEMMA SameUse ==
  ASSUME NEW c, NEW r, NEW g, NEW m, NEW us, NEW vs, \A b \in 1 .. m : us[b] = vs[b], NEW out,
         GradKnown(c, r, g, m, us, out)
  PROVE  GradKnown(c, r, g, m, vs, out)
<1>1. ASSUME NEW d, NEW Q, NEW a, NEW n, Sum(d, Q, 1 .. m, a, n, us) PROVE Sum(d, Q, 1 .. m, a, n, vs)
  BY <1>1 DEF Sum
<1>2. LocalHolds(c, r, g, m, us) => LocalHolds(c, r, g, m, vs)
  BY <1>1 DEF LocalHolds
<1>3. SpanHolds(c, r, g, m, us) => SpanHolds(c, r, g, m, vs)
  BY <1>1 DEF SpanHolds
<1>4. OwnHolds(c, r, g, m, us) => OwnHolds(c, r, g, m, vs)
  BY <1>1 DEF OwnHolds
<1> QED
  BY <1>2, <1>3, <1>4 DEF GradKnown, GradsHold

----------------------------------------------------------------------------
(* Buffers without gradients, and the groups that get them.                *)

LEMMA ZeroHolds ==
  ASSUME job \in Jobs, Hfsdp => Full, NEW g, Formed(g), NEW r \in Rank, NEW size, size = GradSize(g), NEW us
  PROVE  GradsHold(NoGradient(g, size), r, g, 0, us)
<1>1. PICK N \in Nat \ {0}, B \in Nat, w \in Nat, b \in Nat, p \in Nat, z \in Nat, v \in Nat, s \in Nat :
        GradLay(r, g, N, B, w, b, p, z, v, s)
  BY GradsLaidOut
<1>2. /\ BucketSize(g) = B /\ size = w /\ InnerBase(r, g) = b /\ Span(r, g) = p /\ SpanSize(r, g) = z
      /\ b <= p /\ p + z <= b + w /\ (w = B => b = 0)
  BY <1>1 DEF GradLay
<1>3. PICK c : c = NoGradient(g, size)
  OBVIOUS
<1>4. c = [k \in 1 .. w |-> [x \in Amounts |-> 0]]
  BY <1>2, <1>3 DEF NoGradient
<1>5. Array(c, size)
  BY <1>2, <1>4 DEF Array
<1>6. PICK M : M = 1 .. 0 /\ M = {}
  <2>1. 1 .. 0 = {}
    OBVIOUS
  <2> QED
    BY ONLY <2>1
<1>7. ASSUME NEW k \in 1 .. w, NEW Q, NEW a, NEW n PROVE Sum(c[k], Q, 1 .. 0, a, n, us)
  <2>1. \A x \in Amounts : c[k][x] = 0
    BY <1>4
  <2>2. PICK d : d = c[k]
    OBVIOUS
  <2>3. Sum(d, Q, M, a, n, us)
    BY <1>6, <2>1, <2>2, NoneAdded
  <2> QED
    BY <1>6, <2>2, <2>3
<1>8. size = B => LocalHolds(c, r, g, 0, us)
  BY <1>2, <1>7 DEF LocalHolds
<1>9. SpanHolds(c, r, g, 0, us)
  <2>1. \A k \in 1 .. z : p - b + k \in 1 .. w
    BY <1>2
  <2> QED
    BY <1>2, <1>7, <2>1 DEF SpanHolds
<1> QED
  BY <1>2, <1>3, <1>5, <1>8, <1>9 DEF GradsHold

LEMMA GInvInit ==
  ASSUME JobsAssumption, Init PROVE GInv
<1>1. /\ job \in Jobs /\ pc = "group" /\ used = <<>> /\ groups = <<>> /\ Counted = 0 /\ Handed = 0
      /\ \A r \in Rank : grads[r] = <<>>
  BY DEF Init, Counted, Handed
<1>2. Array(<<>>, 0) /\ Len(<<>>) = 0
  BY DEF Array
<1>3. PICK l \in Nat \ {0} : l = Len(job.uses)
  BY <1>1 DEF JobsAssumption
<1>4. FormedGroups
  BY <1>1 DEF FormedGroups
<1>5. GradsKnown
  BY <1>1, <1>2 DEF GradsKnown
<1>6. Passing
  <2>1. 0 <= l
    OBVIOUS
  <2> QED
    BY <1>1, <1>2, <1>3, <2>1 DEF Passing, Building, Computing
<1> QED
  BY <1>4, <1>5, <1>6 DEF GInv

\* A group of the program's, with its plan.
LEMMA PlannedFormed ==
  ASSUME GroupsOfParams, GroupsArePlanned, job \in Jobs,
         NEW i \in DOMAIN GetParameterGroups(job.model, job.strategy)
  PROVE  Formed(Planned(GetParameterGroups(job.model, job.strategy)[i]))
<1>1. PICK gs : gs = GetParameterGroups(job.model, job.strategy)
  OBVIOUS
<1>2. i \in 1 .. Len(gs)
  BY <1>1 DEF GroupsOfParams
<1>3. PICK g, p : g = gs[i] /\ p = Planned(g)
  OBVIOUS
<1>4. /\ g.attrs.requires_grad \in BOOLEAN /\ g.attrs.expert \in BOOLEAN
      /\ PlanFor(job, g).shard_size \in Nat
      /\ job.strategy # "no_shard" => PlanFor(job, g).shard_size # 0
  BY <1>1, <1>2, <1>3 DEF GroupsArePlanned
<1>5. PICK n \in Param : g.attrs = ParamAttrs(job.model, n)
  BY <1>1, <1>2, <1>3 DEF GroupsOfParams, Param
<1>6. g.attrs.expert = job.model.params[n].expert
  BY <1>5 DEF ParamAttrs
<1>7. PlanOf(g) = PlanFor(job, g)
  BY DEF PlanOf, PlanFor, GroupOver, ElementsFor, MainGroup, DpGroup, FsdpGroup, Hfsdp
<1>8. p.attrs = g.attrs /\ p.plan = PlanFor(job, g)
  BY <1>3, <1>7 DEF Planned
<1>9. Formed(p)
  BY <1>4, <1>5, <1>6, <1>8 DEF Formed, HasWeights
<1> QED
  BY <1>1, <1>3, <1>9

\* what steps that build, and leave gradients alone, keep
LEMMA BuildingG ==
  ASSUME GradsKnown, Passing, pc \in Building \cup {"cycle"}, pc' \in Building \cup {"cycle"},
         pc' # "group" => pc # "group" \/ (Hfsdp => Full),
         UNCHANGED <<job, used>>
  PROVE  Passing' /\ Added = 0 /\ Added' = 0 /\ Outside = FALSE /\ Outside' = FALSE
<1>1. Hfsdp' = Hfsdp /\ Full' = Full
  BY SameSizes
<1>2. /\ used = <<>> /\ Len(<<>>) = 0
      /\ pc \notin Computing \cup {"forward", "backward", "root_post_backward", "step", "reduce_outer"}
      /\ pc' \notin Computing \cup {"forward", "backward", "root_post_backward", "step", "reduce_outer"}
  BY DEF Passing, Building, Computing
<1>3. PICK us : us = used /\ us = used'
  OBVIOUS
<1>4. Array(us, Len(us)) /\ Len(us) \in Nat /\ Len(us) <= Len(job.uses)
  BY <1>3 DEF Passing
<1>5. Array(used, Len(used))'
  BY <1>3, <1>4 DEF Array
<1>6. Passing'
  <2>1. (pc # "group" /\ Hfsdp => Full)'
    BY <1>1 DEF Passing
  <2> QED
    BY <1>2, <1>3, <1>4, <1>5, <2>1 DEF Passing
<1> QED
  BY <1>2, <1>6 DEF Added, Outside

LEMMA QuietG ==
  ASSUME GInv, UNCHANGED <<job, groups, grads, used>>, Counted' = Counted, Handed' = Handed,
         pc \in Building \cup {"cycle"}, pc' \in Building \cup {"cycle"}, pc' # "group" => pc # "group"
  PROVE  GInv'
<1>1. GradsKnown /\ Passing /\ FormedGroups
  BY DEF GInv
<1>2. Passing' /\ Added' = Added /\ Outside' = Outside
  BY <1>1, BuildingG
<1>3. GradsKnown' /\ FormedGroups'
  BY <1>1, <1>2, GradsStay, FormsStay
<1> QED
  BY <1>2, <1>3 DEF GInv

LEMMA GroupParametersG ==
  ASSUME Inv, GInv, GroupParameters PROVE GInv'
<1>1. /\ pc = "group" /\ at = 1 /\ pc' \in {"group", "create"} /\ UNCHANGED <<job, at, grads, used>>
      /\ pc' = "group" \/ (Hfsdp => Full)
  BY DEF GroupParameters, At, trained, Inv, GroupsKnown, Full
<1>2. Handed = 0 /\ Handed' = 0 /\ Counted' = 0
  BY <1>1 DEF Handed, Counted
<1>3. GradsKnown /\ Passing
  BY DEF GInv
<1>4. Passing'
  <2>1. pc \in Building \cup {"cycle"} /\ pc' \in Building \cup {"cycle"}
    BY <1>1 DEF Building
  <2> QED
    BY <1>1, <1>3, <2>1, BuildingG
<1>5. FormedGroups'
  BY <1>2 DEF FormedGroups
<1>6. GradsKnown'
  <2>1. Rank' = Rank
    BY <1>1, SameSizes
  <2> QED
    BY <1>1, <1>2, <1>3, <2>1 DEF GradsKnown, Array
<1> QED
  BY <1>4, <1>5, <1>6 DEF GInv

LEMMA CreateBuffersG ==
  ASSUME GroupsOfParams, GroupsArePlanned, Inv, GInv, CreateBuffers
  PROVE  GInv'
<1>1. PICK gs : gs = GetParameterGroups(job.model, job.strategy)
  OBVIOUS
<1>2. /\ pc = "create" /\ job \in Jobs /\ at \in 1 .. Len(groups) /\ Len(groups) \in Nat
      /\ DOMAIN groups = DOMAIN gs /\ DOMAIN groups = 1 .. Len(groups)
      /\ Counted = at - 1 /\ groups[at] = gs[at]
  BY <1>1 DEF CreateBuffers, At, Inv, GroupsKnown, GroupsOfParams, Counted
<1>3. /\ groups' = [groups EXCEPT ![at] = Planned(gs[at])]
      /\ UNCHANGED <<job, grads, used>>
      /\ Len(groups') = Len(groups)
      /\ pc' \in {"create", "init"}
  BY <1>2, SameLength DEF CreateBuffers, Advance, trained
<1>4. Handed = 0 /\ Handed' = 0 /\ Counted' = at
  <2>1. PICK n \in Nat : n = Len(groups) /\ n = Len(groups') /\ at \in 1 .. n
    BY <1>2, <1>3
  <2>2. CASE at < n
    <3>1. at' = at + 1 /\ pc' = "create"
      BY <1>2, <2>1, <2>2 DEF CreateBuffers, Advance
    <3> QED
      BY <1>2, <2>1, <3>1 DEF Handed, Counted
  <2>3. CASE ~(at < n)
    <3>1. at' = 1 /\ pc' = "init" /\ at = n
      <4>1. at = n /\ ~(at < Len(groups))
        BY <2>1, <2>3
      <4>2. Advance("init")
        BY DEF CreateBuffers
      <4> QED
        BY ONLY <4>1, <4>2 DEF Advance
    <3> QED
      BY <1>2, <2>1, <3>1 DEF Handed, Counted
  <2> QED
    BY <2>2, <2>3
<1>5. Formed(Planned(gs[at]))
  BY <1>1, <1>2, PlannedFormed
<1>6. ASSUME NEW i \in 1 .. at PROVE Formed(groups[i])'
  <2>1. PICK g : g = groups'[i]
    OBVIOUS
  <2>2. Formed(g)
    <3>1. CASE i = at
      BY <1>2, <1>3, <1>5, <2>1, <3>1
    <3>2. CASE i # at
      <4>1. i \in 1 .. Counted /\ groups'[i] = groups[i]
        BY <1>2, <1>3, <3>2
      <4> QED
        BY <2>1, <4>1 DEF GInv, FormedGroups
    <3> QED
      BY <3>1, <3>2
  <2>3. Formed(g)'
    BY <1>3, <2>2, SameForm
  <2> QED
    BY <2>1, <2>3
<1>7. FormedGroups'
  BY <1>4, <1>6 DEF FormedGroups
<1>8. Passing'
  <2>1. GradsKnown /\ Passing
    BY DEF GInv
  <2>2. pc \in Building \cup {"cycle"} /\ pc' \in Building \cup {"cycle"} /\ pc # "group"
    BY <1>2, <1>3 DEF Building
  <2> QED
    BY <1>3, <2>1, <2>2, BuildingG
<1>9. GradsKnown'
  <2>1. Rank' = Rank
    BY <1>3, SameSizes
  <2> QED
    BY <1>3, <1>4, <2>1 DEF GInv, GradsKnown, Array
<1> QED
  BY <1>7, <1>8, <1>9 DEF GInv

\* What the buffers have after a step that leaves the groups alone.
LEMMA GradsAfter ==
  ASSUME UNCHANGED <<job, groups>>, NEW N, N = Handed', NEW m, m = Added', NEW us, us = used', NEW out, out = Outside',
         \A r \in Rank : Array(grads'[r], N),
         \A r \in Rank, n \in 1 .. N : GradKnown(grads'[r][n], r, groups[n], m, us, out)
  PROVE  GradsKnown'
<1>1. Rank' = Rank
  BY SameSizes
<1>2. ASSUME NEW r \in Rank, NEW n \in 1 .. N PROVE GradKnown(grads[r][n], r, groups[n], Added, used, Outside)'
  <2>1. PICK c, g : c = grads'[r][n] /\ g = groups[n]
    OBVIOUS
  <2>2. g = groups'[n]
    BY <2>1
  <2>3. GradKnown(c, r, g, m, us, out)
    BY <2>1
  <2>4. GradKnown(c, r, g, m, us, out)'
    BY <2>3, SameGrads
  <2> QED
    BY <2>1, <2>2, <2>4
<1> QED
  BY <1>1, <1>2 DEF GradsKnown

LEMMA InitWeightsG ==
  ASSUME GroupsOfParams, Inv, GInv, InitWeights PROVE GInv'
<1>1. PICK N \in Nat, m \in Nat : N = Len(groups) /\ m = at - 1 /\ m + 1 = at /\ at \in 1 .. N
  BY DEF InitWeights, At, Inv, GroupsKnown, GroupsOfParams
<1>2. pc = "init" /\ Handed = 0 /\ Counted = N
  BY <1>1 DEF InitWeights, At, Handed, Counted
<1>3. UNCHANGED <<job, groups, grads, used>> /\ Advance("alloc")
  BY DEF InitWeights, trained
<1>4. Handed' = 0 /\ Counted' = N /\ pc' \in {"init", "alloc"}
  <2>1. CASE at < Len(groups)
    <3>1. pc' = "init" /\ Len(groups') = N
      BY <1>1, <1>2, <1>3, <2>1 DEF Advance
    <3> QED
      BY <3>1 DEF Handed, Counted
  <2>2. CASE ~(at < Len(groups))
    <3>1. at' = 1 /\ pc' = "alloc"
      BY ONLY <1>3, <2>2 DEF Advance
    <3>2. Len(groups') = N
      BY <1>1, <1>3
    <3> QED
      BY <3>1, <3>2 DEF Handed, Counted
  <2> QED
    BY <2>1, <2>2
<1> QED
  BY <1>2, <1>3, <1>4, QuietG DEF Building

LEMMA AllocGradsG ==
  ASSUME GroupsOfParams, Inv, GInv, AllocGrads PROVE GInv'
<1>1. PICK N \in Nat, m \in Nat : N = Len(groups) /\ m = at - 1 /\ m + 1 = at /\ at \in 1 .. N
  BY DEF AllocGrads, At, Inv, GroupsKnown, GroupsOfParams
<1>2. pc = "alloc" /\ job \in Jobs /\ Handed = m /\ Counted = N /\ UNCHANGED <<job, groups, used>>
  BY <1>1 DEF AllocGrads, At, Handed, Counted, Inv, GroupsKnown, trained
<1>3. CASE UNCHANGED <<pc, at, grads>>
  <2>1. Handed' = m /\ Counted' = N
    BY <1>1, <1>2, <1>3 DEF Handed, Counted
  <2> QED
    BY <1>2, <1>3, <2>1, QuietG DEF Building
<1>4. CASE ~UNCHANGED <<pc, at, grads>>
  <2>1. PICK g, size : g = groups[at] /\ size = GradSize(g)
    OBVIOUS
  <2>2. PICK x : /\ Advance("register") /\ grads' = [r \in Rank |-> Append(grads[r], x)]
                 /\ x = IF HasGrads(g) THEN NoGradient(g, size) ELSE <<>>
    <3>1. CASE ~HasGrads(g)
      BY <1>4, <2>1, <3>1 DEF AllocGrads
    <3>2. CASE HasGrads(g)
      BY <1>4, <2>1, <3>2 DEF AllocGrads
    <3> QED
      BY <3>1, <3>2
  <2>3. Handed' = m + 1 /\ Counted' = N /\ pc' \in {"alloc", "register"}
    <3>1. CASE at < Len(groups)
      <4>1. at' = at + 1 /\ pc' = "alloc" /\ Len(groups') = N
        BY <1>1, <1>2, <2>2, <3>1 DEF Advance
      <4> QED
        BY <1>1, <4>1 DEF Handed, Counted
    <3>2. CASE ~(at < Len(groups))
      <4>1. at' = 1 /\ pc' = "register"
        BY ONLY <2>2, <3>2 DEF Advance
      <4>2. m + 1 = N /\ Len(groups') = N
        BY <1>1, <1>2, <3>2
      <4> QED
        BY <4>1, <4>2 DEF Handed, Counted
    <3> QED
      BY <3>1, <3>2
  <2>4. Passing /\ GradsKnown /\ FormedGroups /\ Formed(g) /\ (Hfsdp => Full)
    BY <1>1, <1>2, <2>1 DEF GInv, FormedGroups, Passing
  <2>5. Passing' /\ Added = 0 /\ Added' = 0 /\ Outside = FALSE /\ Outside' = FALSE
    BY <1>2, <2>3, <2>4, BuildingG DEF Building
  <2>6. ASSUME NEW r \in Rank
        PROVE  /\ Array(grads'[r], m + 1) /\ grads'[r][m + 1] = x
               /\ \A n \in 1 .. m : grads'[r][n] = grads[r][n]
    <3>1. PICK a : a = grads[r]
      OBVIOUS
    <3>2. a = [n \in 1 .. m |-> a[n]]
      BY <1>2, <2>4, <3>1 DEF GradsKnown, Array
    <3>3. PICK c : c = Append(a, x) /\ c = grads'[r]
      BY <2>2, <3>1
    <3>4. c = [n \in 1 .. m + 1 |-> c[n]] /\ c[m + 1] = x /\ \A n \in 1 .. m : c[n] = a[n]
      BY <3>2, <3>3, Appended
    <3> QED
      BY <3>1, <3>3, <3>4 DEF Array
  <2>7. PICK o, us : o = Outside /\ us = used
    OBVIOUS
  <2>8. ASSUME NEW r \in Rank, NEW n \in 1 .. m + 1 PROVE GradKnown(grads'[r][n], r, groups[n], 0, us, o)
    <3>1. CASE n = m + 1
      <4>1. grads'[r][n] = x /\ groups[n] = g
        BY <1>1, <2>1, <2>6, <3>1
      <4>2. HasGrads(g) => GradsHold(x, r, g, 0, us)
        BY <1>2, <2>1, <2>2, <2>4, ZeroHolds
      <4>3. GradKnown(x, r, g, 0, us, o)
        BY <2>5, <2>7, <4>2 DEF GradKnown
      <4> QED
        BY <4>1, <4>3
    <3>2. CASE n # m + 1
      <4>1. n \in 1 .. m
        BY <3>2
      <4>2. grads'[r][n] = grads[r][n] /\ GradKnown(grads[r][n], r, groups[n], 0, us, o)
        BY <1>2, <2>4, <2>5, <2>6, <2>7, <4>1 DEF GradsKnown
      <4> QED
        BY <4>2
    <3> QED
      BY <3>1, <3>2
  <2>9. GradsKnown'
    <3>1. Added' = 0 /\ us = used' /\ o = Outside' /\ Handed' = m + 1
      BY <1>2, <2>3, <2>5, <2>7
    <3>2. \A r \in Rank : Array(grads'[r], m + 1)
      BY <2>6
    <3> QED
      BY <1>2, <2>8, <3>1, <3>2, GradsAfter
  <2>10. FormedGroups'
    BY <1>2, <2>3, <2>4, FormsStay
  <2> QED
    BY <2>5, <2>9, <2>10 DEF GInv
<1> QED
  BY <1>3, <1>4

\* Once every group has its gradient buffer.
LEMMA AllHanded ==
  ASSUME pc \in DoneSteps PROVE Handed = Len(groups) /\ Counted = Len(groups)
BY DEF Handed, Counted, DoneSteps

LEMMA BeginCycleG ==
  ASSUME JobsAssumption, Inv, GInv, BeginCycle PROVE GInv'
<1>1. pc = "cycle" /\ pc' = "forward" /\ job \in Jobs /\ UNCHANGED <<job, groups, grads, used>>
  BY DEF BeginCycle, At, built, trained, Inv, GroupsKnown
<1>2. Handed' = Handed /\ Counted' = Counted
  BY <1>1 DEF Handed, Counted
<1>3. Passing /\ GradsKnown /\ FormedGroups
  BY DEF GInv
<1>4. used = <<>> /\ Len(<<>>) = 0
  BY <1>1, <1>3 DEF Passing
<1>5. Added' = Added /\ Outside' = FALSE /\ Outside = FALSE
  BY <1>1 DEF Added, Outside
<1>6. Passing'
  <2>1. Hfsdp' = Hfsdp /\ Full' = Full
    BY <1>1, SameSizes
  <2>2. PICK us : us = used /\ us = used'
    BY <1>1
  <2>3. Array(us, Len(us)) /\ Len(us) \in Nat /\ Len(us) <= Len(job.uses)
    BY <1>3, <2>2 DEF Passing
  <2>4. Array(used, Len(used))'
    BY <2>2, <2>3
  <2>5. Len(job.uses) \in Nat \ {0}
    BY <1>1 DEF JobsAssumption
  <2>6. Len(used') < Len(job'.uses)
    BY <1>1, <1>4, <2>5
  <2>7. (pc # "group" /\ Hfsdp => Full)'
    BY <1>1, <1>3, <2>1 DEF Passing
  <2> QED
    BY <1>1, <1>4, <2>2, <2>3, <2>4, <2>6, <2>7 DEF Passing, Building, Computing
<1> QED
  BY <1>1, <1>2, <1>3, <1>5, <1>6, GradsStay, FormsStay DEF GInv

LEMMA ForwardG ==
  ASSUME JobsAssumption, Inv, GInv, Forward PROVE GInv'
<1>1. /\ pc = "forward" /\ pc' = "backward" /\ job \in Jobs /\ UNCHANGED <<job, groups, grads>>
      /\ \E use : used' = Append(used, use)
  BY DEF Forward, At, built, Inv, GroupsKnown
<1>2. Handed' = Handed /\ Counted' = Counted
  BY <1>1 DEF Handed, Counted
<1>3. Passing /\ GradsKnown /\ FormedGroups
  BY DEF GInv
<1> PICK us, vs : us = used /\ vs = used'
  OBVIOUS
<1>4. PICK m \in Nat, l \in Nat : /\ m = Len(used) /\ l = Len(job.uses) /\ us = used /\ vs = used'
                                  /\ Array(us, m) /\ m < l
  BY <1>1, <1>3 DEF Passing, JobsAssumption
<1>5. PICK use : vs = Append(us, use)
  BY <1>1, <1>4
<1>6. Array(vs, m + 1) /\ \A b \in 1 .. m : vs[b] = us[b]
  <2>1. us = [b \in 1 .. m |-> us[b]]
    BY <1>4 DEF Array
  <2> QED
    BY <1>5, <2>1, Appended DEF Array
<1>7. Len(vs) = m + 1 /\ vs # <<>>
  <2>1. m + 1 \in Nat /\ m + 1 # 0
    OBVIOUS
  <2> QED
    BY <1>6, <2>1, LengthOf, EmptyArray
<1>8. Added = m /\ Added' = m /\ Outside = FALSE /\ Outside' = FALSE
  BY <1>1, <1>4, <1>7 DEF Added, Outside
<1>9. PICK o, N : o = Outside /\ N = Handed
  OBVIOUS
<1>10. ASSUME NEW r \in Rank, NEW n \in 1 .. N PROVE GradKnown(grads'[r][n], r, groups[n], m, vs, o)
  <2>1. PICK c, g : c = grads[r][n] /\ g = groups[n] /\ c = grads'[r][n]
    BY <1>1
  <2>2. GradKnown(c, r, g, m, us, o)
    BY <1>3, <1>4, <1>8, <1>9, <2>1 DEF GradsKnown
  <2>3. \A b \in 1 .. m : us[b] = vs[b]
    BY <1>6
  <2>4. GradKnown(c, r, g, m, vs, o)
    BY <2>2, <2>3, SameUse
  <2> QED
    BY <2>1, <2>4
<1>11. GradsKnown'
  <2>1. \A r \in Rank : Array(grads'[r], N)
    BY <1>1, <1>3, <1>9 DEF GradsKnown
  <2>2. N = Handed' /\ m = Added' /\ vs = used' /\ o = Outside'
    BY <1>2, <1>4, <1>8, <1>9
  <2> QED
    BY <1>1, <1>10, <2>1, <2>2, GradsAfter
<1>12. Passing'
  <2>1. Hfsdp' = Hfsdp /\ Full' = Full
    BY <1>1, SameSizes
  <2>2. (pc # "group" /\ Hfsdp => Full)'
    BY <1>1, <1>3, <2>1 DEF Passing
  <2>3. Len(used') = m + 1 /\ m + 1 \in Nat /\ m + 1 <= l /\ l = Len(job'.uses)
    BY <1>1, <1>4, <1>7
  <2>4. Array(used', Len(used'))
    BY <1>4, <1>6, <2>3
  <2> QED
    BY <1>1, <1>4, <1>7, <2>2, <2>3, <2>4 DEF Passing, Building, Computing
<1> QED
  BY <1>1, <1>2, <1>3, <1>11, <1>12, FormsStay DEF GInv

\* How microbatches go by in steps that use no other.
LEMMA PassesOn ==
  ASSUME Passing, UNCHANGED <<job, used>>, pc \in Computing, pc' \in Computing \cup {"forward", "step"},
         pc' = "forward" => Len(used) # Len(job.uses), pc' = "step" => Len(used) = Len(job.uses),
         pc' = "reduce_outer" => ReducesOuter, JobsAssumption, job \in Jobs
  PROVE  Passing'
<1>1. Hfsdp' = Hfsdp /\ Full' = Full
  BY SameSizes
<1>2. PICK us : us = used /\ us = used'
  OBVIOUS
<1>3. PICK m \in Nat, l \in Nat : m = Len(us) /\ l = Len(job.uses) /\ m <= l /\ Array(us, m)
  BY <1>2 DEF Passing, JobsAssumption
<1>4. Array(used', Len(used')) /\ Len(used') = m
  BY <1>2, <1>3
<1>5. pc' = "forward" => m < l
  BY <1>2, <1>3
<1>6. used # <<>> /\ pc # "group" /\ (Hfsdp => Full)
  BY DEF Passing, Computing
<1>7. ReducesOuter' = ReducesOuter
  BY DEF ReducesOuter, IsLastMicrobatch
<1> QED
  BY <1>1, <1>2, <1>3, <1>4, <1>5, <1>6, <1>7 DEF Passing, Building, Computing

LEMMA BackwardG ==
  ASSUME JobsAssumption, GroupsOfParams, ScaledOnce, Inv, GInv, Backward PROVE GInv'
<1>1. /\ pc = "backward" /\ job \in Jobs /\ UNCHANGED <<job, groups, used>>
      /\ pc' = IF ReducesOuter THEN "reduce_outer" ELSE "root_post_backward"
  BY DEF Backward, At, built, trained, Inv, GroupsKnown
<1>2. Passing /\ GradsKnown /\ FormedGroups
  BY DEF GInv
<1>3. PICK N : N = Len(groups) /\ Handed = N /\ Counted = N /\ Handed' = N /\ Counted' = N
  BY <1>1 DEF Handed, Counted
<1>4. N \in Nat /\ Group = 1 .. N
  BY <1>1, <1>3 DEF Inv, GroupsKnown, GroupsOfParams, Group
<1>5. used # <<>> /\ Len(used) \in Nat /\ Array(used, Len(used)) /\ Len(used) <= Len(job.uses)
      /\ (Hfsdp => Full)
  BY <1>1, <1>2 DEF Passing, Computing
<1>6. PICK m \in Nat \ {0}, l \in Nat : m = Len(used) /\ l = Len(job.uses) /\ m <= l
  BY <1>1, <1>5, EmptyArray DEF JobsAssumption
<1>7. Added = m - 1 /\ Added' = m /\ Outside = FALSE /\ Outside' = FALSE
  BY <1>1, <1>6 DEF Added, Outside, ReducesOuter, IsLastMicrobatch
<1>8. PICK us, o : us = used /\ o = Outside /\ o = FALSE
  BY <1>7
<1>9. ASSUME NEW r \in Rank, NEW n \in 1 .. N PROVE GradKnown(grads'[r][n], r, groups[n], m, us, o)
  <2>1. PICK g : g = groups[n] /\ Formed(g)
    BY <1>2, <1>3 DEF FormedGroups
  <2>2. CASE ~HasGrads(g)
    BY <2>1, <2>2 DEF GradKnown
  <2>3. CASE HasGrads(g)
    <3>1. \A q \in Rank : GradsHold(grads[q][n], q, g, m - 1, used)
      BY <1>2, <1>3, <1>7, <2>1, <2>3 DEF GradsKnown, GradKnown
    <3>2. grads'[r][n] = IF Reduces THEN ReduceInner(n)[r] ELSE Plus(grads[r][n], Contribution(r, g))
      BY <1>4, <2>1, <2>3 DEF Backward
    <3>3. Reduces => GradsHold(ReduceInner(n)[r], r, g, m, used)
      BY <1>1, <1>5, <1>6, <2>1, <3>1, ReducedInner
    <3>4. ~Reduces => GradsHold(Plus(grads[r][n], Contribution(r, g)), r, g, m, used)
      BY <1>1, <1>5, <1>6, <2>1, <3>1, AddedOnly
    <3>5. GradsHold(grads'[r][n], r, g, m, used)
      BY <3>2, <3>3, <3>4
    <3> QED
      BY <1>8, <2>1, <3>5 DEF GradKnown
  <2> QED
    BY <2>2, <2>3
<1>10. GradsKnown'
  <2>1. \A r \in Rank : Array(grads'[r], N)
    BY <1>4 DEF Backward, Array
  <2>2. N = Handed' /\ m = Added' /\ us = used' /\ o = Outside'
    BY <1>1, <1>3, <1>7, <1>8
  <2> QED
    BY <1>1, <1>9, <2>1, <2>2, GradsAfter
<1>11. Passing'
  BY <1>1, <1>2, PassesOn DEF Computing
<1> QED
  BY <1>1, <1>2, <1>3, <1>10, <1>11, FormsStay DEF GInv

LEMMA OuterReductionG ==
  ASSUME JobsAssumption, GroupsOfParams, ScaledOnce, Inv, GInv, OuterReduction PROVE GInv'
<1>1. pc = "reduce_outer" /\ pc' = "root_post_backward" /\ job \in Jobs /\ UNCHANGED <<job, groups, used>>
  BY DEF OuterReduction, At, built, trained, Inv, GroupsKnown
<1>2. Passing /\ GradsKnown /\ FormedGroups
  BY DEF GInv
<1>3. PICK N : N = Len(groups) /\ Handed = N /\ Counted = N /\ Handed' = N /\ Counted' = N
  BY <1>1 DEF Handed, Counted
<1>4. N \in Nat /\ Group = 1 .. N
  BY <1>1, <1>3 DEF Inv, GroupsKnown, GroupsOfParams, Group
<1>5. used # <<>> /\ Len(used) \in Nat /\ Array(used, Len(used)) /\ Len(used) <= Len(job.uses)
      /\ (Hfsdp => Full) /\ ReducesOuter
  BY <1>1, <1>2 DEF Passing, Computing
<1>6. PICK m \in Nat \ {0}, l \in Nat : m = Len(used) /\ l = Len(job.uses) /\ m <= l
  BY <1>1, <1>5, EmptyArray DEF JobsAssumption
<1>7. job.mesh.hybrid /\ m = l
  <2>1. job.mesh.hybrid /\ (m = l \/ job.auto_sync)
    BY <1>5, <1>6 DEF ReducesOuter, IsLastMicrobatch
  <2>2. l = 1 \/ (job.auto_sync => ~job.mesh.hybrid)
    BY <1>1, <1>6 DEF ScaledOnce
  <2>3. m = l \/ l = 1
    BY <2>1, <2>2
  <2>4. m = l
    BY ONLY <1>6, <2>3, m \in Nat \ {0}, l \in Nat
  <2> QED
    BY <2>1, <2>4
<1>8. Added = m /\ Added' = m /\ Outside = FALSE /\ Outside' = TRUE
  BY <1>1, <1>6, <1>7 DEF Added, Outside
<1>9. PICK us, o : us = used /\ o = Outside' /\ o = TRUE
  BY <1>8
<1>10. ASSUME NEW r \in Rank, NEW n \in 1 .. N PROVE GradKnown(grads'[r][n], r, groups[n], m, us, o)
  <2>1. PICK g : g = groups[n] /\ Formed(g)
    BY <1>2, <1>3 DEF FormedGroups
  <2>2. CASE ~HasGrads(g)
    BY <2>1, <2>2 DEF GradKnown
  <2>3. CASE HasGrads(g)
    <3>1. \A q \in Rank : GradsHold(grads[q][n], q, g, m, used)
      BY <1>2, <1>3, <1>8, <2>1, <2>3 DEF GradsKnown, GradKnown
    <3>2. grads'[r][n] = ReduceOuter(r, n)
      BY <1>4, <2>1, <2>3 DEF OuterReduction
    <3>3. Array(ReduceOuter(r, n), GradSize(g)) /\ OwnHolds(ReduceOuter(r, n), r, g, m, used)
      BY <1>1, <1>5, <1>6, <1>7, <2>1, <3>1, ReducedOuter
    <3> QED
      BY <1>9, <2>1, <3>2, <3>3 DEF GradKnown
  <2> QED
    BY <2>2, <2>3
<1>11. GradsKnown'
  <2>1. \A r \in Rank : Array(grads'[r], N)
    BY <1>4 DEF OuterReduction, Array
  <2>2. N = Handed' /\ m = Added' /\ us = used' /\ o = Outside'
    BY <1>1, <1>3, <1>8, <1>9
  <2> QED
    BY <1>1, <1>10, <2>1, <2>2, GradsAfter
<1>12. Passing'
  BY <1>1, <1>2, PassesOn DEF Computing
<1> QED
  BY <1>1, <1>2, <1>3, <1>11, <1>12, FormsStay DEF GInv

LEMMA RootPostBackwardG ==
  ASSUME JobsAssumption, Inv, GInv, RootPostBackward PROVE GInv'
<1>1. /\ pc = "root_post_backward" /\ job \in Jobs /\ UNCHANGED <<job, groups, grads, used>>
      /\ pc' = IF Len(used) = Len(job.uses) THEN "step" ELSE "forward"
  BY DEF RootPostBackward, At, built, Inv, GroupsKnown
<1>2. Handed' = Handed /\ Counted' = Counted
  BY <1>1 DEF Handed, Counted
<1>3. Added' = Added /\ Outside' = Outside
  BY <1>1 DEF Added, Outside
<1>4. Passing'
  BY <1>1, PassesOn DEF GInv, Computing
<1> QED
  BY <1>1, <1>2, <1>3, <1>4, GradsStay, FormsStay DEF GInv

LEMMA OptimizerStepG ==
  ASSUME JobsAssumption, GroupsOfParams, Inv, GInv, OptimizerStep PROVE GInv'
<1>1. pc = "step" /\ pc' = "cycle" /\ job \in Jobs /\ UNCHANGED <<job, groups>> /\ used' = <<>>
  BY DEF OptimizerStep, At, built, Inv, GroupsKnown
<1>2. Passing /\ GradsKnown /\ FormedGroups
  BY DEF GInv
<1>3. PICK N : N = Len(groups) /\ Handed = N /\ Counted = N /\ Handed' = N /\ Counted' = N
  BY <1>1 DEF Handed, Counted
<1>4. N \in Nat /\ Group = 1 .. N
  BY <1>1, <1>3 DEF Inv, GroupsKnown, GroupsOfParams, Group
<1>5. Hfsdp => Full
  BY <1>1, <1>2 DEF Passing
<1>6. Len(<<>>) = 0 /\ Array(<<>>, 0)
  BY DEF Array
<1>7. Added' = 0 /\ Outside' = FALSE
  BY <1>1, <1>6 DEF Added, Outside
<1>8. PICK us, o : us = used' /\ o = FALSE
  OBVIOUS
<1>9. ASSUME NEW r \in Rank, NEW n \in 1 .. N PROVE GradKnown(grads'[r][n], r, groups[n], 0, us, o)
  <2>1. PICK g, c : g = groups[n] /\ c = grads[r][n] /\ Formed(g)
    BY <1>2, <1>3 DEF FormedGroups
  <2>2. CASE ~HasGrads(g)
    BY <2>1, <2>2 DEF GradKnown
  <2>3. CASE HasGrads(g)
    <3>1. Array(c, GradSize(g))
      BY <1>2, <1>3, <2>1, <2>3 DEF GradsKnown, GradKnown, GradsHold
    <3>2. PICK size \in Nat : size = GradSize(g)
      BY <1>1, <1>5, <2>1, GradsLaidOut DEF GradLay
    <3>3. Len(c) = size
      BY <3>1, <3>2, LengthOf
    <3>4. grads'[r][n] = NoGradient(g, size)
      BY <1>4, <2>1, <3>3 DEF OptimizerStep
    <3>5. GradsHold(NoGradient(g, size), r, g, 0, us)
      BY <1>1, <1>5, <2>1, <3>2, ZeroHolds
    <3> QED
      BY <1>8, <2>1, <3>4, <3>5 DEF GradKnown
  <2> QED
    BY <2>2, <2>3
<1>10. GradsKnown'
  <2>1. \A r \in Rank : Array(grads'[r], N)
    BY <1>4 DEF OptimizerStep, Array
  <2>2. N = Handed' /\ 0 = Added' /\ us = used' /\ o = Outside'
    BY <1>3, <1>7, <1>8
  <2> QED
    BY <1>1, <1>9, <2>1, <2>2, GradsAfter
<1>11. Passing'
  <2>1. Hfsdp' = Hfsdp /\ Full' = Full
    BY <1>1, SameSizes
  <2>2. Array(used', Len(used')) /\ Len(used') = 0 /\ 0 \in Nat
    BY <1>1, <1>6
  <2>3. Len(job'.uses) \in Nat
    BY <1>1 DEF JobsAssumption
  <2> QED
    BY <1>1, <1>5, <2>1, <2>2, <2>3 DEF Passing, Building, Computing
<1> QED
  BY <1>1, <1>2, <1>3, <1>10, <1>11, FormsStay DEF GInv

LEMMA GInvNext ==
  ASSUME JobsAssumption, GroupsOfParams, GroupsArePlanned, ScaledOnce, Inv, GInv, [Next]_vars
  PROVE  GInv'
<1>1. CASE UNCHANGED vars
  <2>1. UNCHANGED <<job, pc, at, groups, grads, used>>
    BY <1>1 DEF vars, built, trained
  <2>2. Handed' = Handed /\ Counted' = Counted /\ Added' = Added /\ Outside' = Outside
    BY <2>1 DEF Handed, Counted, Added, Outside
  <2>3. Hfsdp' = Hfsdp /\ Full' = Full /\ ReducesOuter' = ReducesOuter
    BY <2>1, SameSizes DEF ReducesOuter, IsLastMicrobatch
  <2>4. Passing'
    BY <2>1, <2>3 DEF GInv, Passing, Array
  <2> QED
    BY <2>1, <2>2, <2>4, GradsStay, FormsStay DEF GInv
<1>2. CASE GroupParameters
  BY <1>2, GroupParametersG
<1>3. CASE CreateBuffers
  BY <1>3, CreateBuffersG
<1>4. CASE InitWeights
  BY <1>4, InitWeightsG
<1>5. CASE AllocGrads
  BY <1>5, AllocGradsG
<1>6. CASE InitDistributedParams
  <2>1. /\ pc = "register" /\ UNCHANGED <<job, groups, grads, used>>
        /\ UNCHANGED pc \/ Advance("wrap")
    BY <1>6 DEF InitDistributedParams, At, trained
  <2>2. pc' \in {"register", "wrap"}
    BY <2>1 DEF Advance
  <2>3. Handed' = Handed /\ Counted' = Counted
    BY <2>1, <2>2 DEF Handed, Counted
  <2> QED
    BY <2>1, <2>2, <2>3, QuietG DEF Building
<1>7. CASE FullyShardOptimizer
  <2>1. pc = "wrap" /\ pc' = "cycle" /\ UNCHANGED <<job, groups, grads, used>>
    BY <1>7 DEF FullyShardOptimizer, At, trained
  <2>2. Handed' = Handed /\ Counted' = Counted
    BY <2>1 DEF Handed, Counted
  <2> QED
    BY <2>1, <2>2, QuietG DEF Building
<1>8. CASE StateDict
  <2>1. pc = "cycle" /\ pc' = "cycle" /\ UNCHANGED <<job, groups, grads, used>>
    BY <1>8 DEF StateDict, At, trained
  <2>2. Handed' = Handed /\ Counted' = Counted
    BY <2>1 DEF Handed, Counted
  <2> QED
    BY <2>1, <2>2, QuietG DEF Building
<1>9. CASE BeginCycle
  BY <1>9, BeginCycleG
<1>10. CASE Forward
  BY <1>10, ForwardG
<1>11. CASE Backward
  BY <1>11, BackwardG
<1>12. CASE OuterReduction
  BY <1>12, OuterReductionG
<1>13. CASE RootPostBackward
  BY <1>13, RootPostBackwardG
<1>14. CASE OptimizerStep
  BY <1>14, OptimizerStepG
<1> QED
  BY <1>1, <1>2, <1>3, <1>4, <1>5, <1>6, <1>7, <1>8, <1>9, <1>10, <1>11, <1>12, <1>13, <1>14 DEF Next

----------------------------------------------------------------------------
(* Complete gradients.                                                     *)

LEMMA OwnGradients ==
  ASSUME GroupsOfParams, JobsAssumption, ScaledOnce, Inv, GInv, pc = "step", NEW r \in Rank,
         NEW n \in Group, NEW g, g = groups[n], HasGrads(g), NEW k \in 1 .. ShardSize(g)
  PROVE  Sum(grads[r][n][View(r, g) + k], Range(DpGroup(r, g)), 1 .. Len(job.uses), Share,
             ParamAt(g, ShardStart(r, g) + k), used)
<1>1. Passing /\ GradsKnown /\ FormedGroups /\ job \in Jobs /\ (Hfsdp => Full)
  BY DEF GInv, Inv, GroupsKnown, Passing
<1>2. PICK m \in Nat : m = Len(used) /\ m = Len(job.uses)
  BY <1>1 DEF Passing
<1>3. n \in 1 .. Handed /\ Formed(g)
  BY <1>1 DEF Inv, GroupsKnown, GroupsOfParams, Group, Handed, Counted, FormedGroups
<1>4. Added = m /\ (Outside <=> job.mesh.hybrid)
  BY <1>2 DEF Added, Outside
<1>5. PICK c, o : c = grads[r][n] /\ o = Outside
  OBVIOUS
<1>6. GradKnown(c, r, g, m, used, o)
  BY <1>1, <1>3, <1>4, <1>5 DEF GradsKnown
<1>7. CASE job.mesh.hybrid
  <2>1. OwnHolds(c, r, g, m, used)
    BY <1>4, <1>5, <1>6, <1>7 DEF GradKnown
  <2>2. OuterShare(r, g) = Share
    BY <1>1, <1>3, <1>7, SharesAre
  <2> QED
    BY <1>2, <1>5, <2>1, <2>2 DEF OwnHolds
<1>8. CASE ~job.mesh.hybrid
  <2>1. SpanHolds(c, r, g, m, used)
    <3>1. GradsHold(c, r, g, m, used)
      BY <1>4, <1>5, <1>6, <1>8 DEF GradKnown
    <3>2. ~(m < Len(job.uses))
      BY <1>2
    <3> QED
      BY <3>1, <3>2 DEF GradsHold
  <2>2. PICK N \in Nat \ {0}, B \in Nat, size \in Nat, b \in Nat, p \in Nat, z \in Nat, v \in Nat, s \in Nat :
          GradLay(r, g, N, B, size, b, p, z, v, s)
    BY <1>1, <1>3, GradsLaidOut
  <2>3. ~Hfsdp /\ FsdpGroup(r, g) = DpGroup(r, g)
    BY <1>8 DEF Hfsdp, FsdpGroup, DpGroup, GetDpGroup
  <2>4. /\ Span(r, g) = p /\ InnerBase(r, g) = b /\ SpanSize(r, g) = z /\ View(r, g) = v
        /\ ShardSize(g) = s /\ ShardStart(r, g) = p /\ p = b + v /\ z = s
    BY <2>2, <2>3 DEF GradLay
  <2>5. PICK i : i = k /\ i \in 1 .. z
    BY <2>4
  <2>6. p - b + i = v + i
    BY ONLY <2>4, <2>5, b \in Nat, p \in Nat, v \in Nat, z \in Nat
  <2>7. Sum(c[p - b + i], Range(FsdpGroup(r, g)), 1 .. m, InnerShare(r, g), ParamAt(g, p + i), used)
    BY <2>1, <2>4, <2>5 DEF SpanHolds
  <2>8. InnerShare(r, g) = Share
    BY <1>1, <1>3, <1>8, SharesAre
  <2> QED
    BY <1>2, <1>5, <2>3, <2>4, <2>5, <2>6, <2>7, <2>8
<1> QED
  BY <1>7, <1>8

LEMMA GradientsHold ==
  ASSUME GroupsOfParams, JobsAssumption, ScaledOnce, Inv, GInv PROVE GradientComplete
<1> SUFFICES ASSUME pc = "step", NEW r \in Rank, NEW n \in {i \in Group : HasGrads(groups[i])},
                    NEW k \in 1 .. ShardSize(groups[n]), NEW q \in Rank, NEW b \in DOMAIN used
             PROVE  LET g == groups[n]
                    IN grads[r][n][ViewStart(r, g, GradSize(g)) + k][<<q, b>>] =
                         IF q \in Range(DpGroup(r, g)) /\ ElementAt(g, ShardStart(r, g) + k).param \in used[b]
                         THEN Share ELSE 0
  BY DEF GradientComplete, Share
<1>1. PICK g : g = groups[n] /\ HasGrads(g) /\ n \in Group
  OBVIOUS
<1>2. PICK m \in Nat : m = Len(used) /\ m = Len(job.uses) /\ Array(used, m)
  BY DEF GInv, Passing
<1>3. b \in 1 .. m
  BY <1>2, LengthOf
<1>4. Sum(grads[r][n][View(r, g) + k], Range(DpGroup(r, g)), 1 .. Len(job.uses), Share,
          ParamAt(g, ShardStart(r, g) + k), used)
  BY <1>1, OwnGradients
<1>5. grads[r][n][View(r, g) + k][<<q, b>>] =
        IF q \in Range(DpGroup(r, g)) /\ ParamAt(g, ShardStart(r, g) + k) \in used[b] THEN Share ELSE 0
  BY <1>2, <1>3, <1>4 DEF Sum
<1> QED
  BY <1>1, <1>5 DEF View, ParamAt

\* _bucket_group_gradient_reduce: at every optimizer step, a rank's part of every
\* gradient has the share of each data-parallel rank with the parameter and of each
\* microbatch that used it, once, whatever the ranks and microbatches: for every
\* model, mesh, strategy and way of training in which gradients are added up and
\* divided once.
THEOREM GradientsComplete ==
  ASSUME ScaledOnce PROVE Spec => []GradientComplete
<1>0. GroupsOfParams /\ GroupsArePlanned
  BY ParamsGrouped, GroupsPlanned
<1>1. Init => Inv /\ GInv
  BY InvInit, GInvInit, JobsAssumption
<1>2. Inv /\ GInv /\ [Next]_vars => Inv' /\ GInv'
  BY <1>0, InvNext, GInvNext, JobsAssumption
<1>3. Inv /\ GInv => GradientComplete
  BY <1>0, GradientsHold, JobsAssumption
<1> QED
  BY <1>1, <1>2, <1>3, PTL DEF Spec
=============================================================================
