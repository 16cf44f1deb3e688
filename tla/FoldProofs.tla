----------------------------- MODULE FoldProofs -----------------------------
(***************************************************************************)
(* What sums over sequences and sets are, for the proofs about queues and  *)
(* storage: FoldLeft and MapThenSumSet of the community modules with the   *)
(* size of each element.                                                   *)
(*                                                                         *)
(* A set of numbers with 0 and, with each of them, the next one has them   *)
(* all: that is the form of induction the lemmas use.                      *)
(***************************************************************************)
EXTENDS Integers, Sequences, FiniteSets, Functions, FiniteSetsExt, SequencesExt,
        FiniteSetTheorems, SequenceTheorems, WellFoundedInduction, TLAPS

LEMMA Least ==
  ASSUME NEW S, S \subseteq Nat, S # {} PROVE \E n \in S : \A m \in S : n <= m
<1>1. IsWellFoundedOn(OpToRel(<, Nat), Nat)
  BY NatLessThanWellFounded
<1> DEFINE R == OpToRel(<, Nat)
<1>2. \A x, y \in Nat : <<x, y>> \in R <=> x < y
  BY DEF OpToRel
<1> HIDE DEF R
<1>3. PICK n \in S : \A m \in S : ~(<<m, n>> \in R)
  BY <1>1, WFMin DEF R
<1>4. \A m \in S : m \in Nat /\ ~(m < n)
  BY <1>2, <1>3
<1>5. \A m, k \in Nat : ~(m < k) => k <= m
  OBVIOUS
<1> QED
  BY <1>3, <1>4, <1>5

LEMMA Induct ==
  ASSUME NEW S, 0 \in S, \A n \in Nat : n \in S => n + 1 \in S PROVE Nat \subseteq S
<1>1. ASSUME Nat \ S # {} PROVE FALSE
  <2>1. PICK n \in Nat \ S : \A m \in Nat \ S : n <= m
    BY <1>1, Least
  <2>2. n # 0 /\ n - 1 \in Nat /\ n - 1 \in S
    BY <2>1
  <2> QED
    BY <2>1, <2>2
<1> QED
  BY <1>1

----------------------------------------------------------------------------
(* Sums over sequences.                                                    *)

SeqSum(f, q) == FoldLeft(LAMBDA n, x : n + f[x], 0, q)

\* the sums of the parts of 1 .. k, taken from the greatest down
Partial(f, q, k, g) ==
  g = [s \in SUBSET (1 .. k) |-> IF s = {} THEN 0 ELSE g[s \ {Max(s)}] + f[q[Max(s)]]]

LEMMA SeqSumChosen ==
  ASSUME NEW f, NEW q, NEW n \in Nat, DOMAIN q = 1 .. n
  PROVE  SeqSum(f, q) = (CHOOSE g : Partial(f, q, n, g))[1 .. n]
<1>1. SeqSum(f, q) = MapThenFoldSet(LAMBDA x, y : y + f[x], 0, LAMBDA i : q[i],
                                    LAMBDA S : Max(S), DOMAIN q)
  BY DEF SeqSum, FoldLeft
<1>2. MapThenFoldSet(LAMBDA x, y : y + f[x], 0, LAMBDA i : q[i], LAMBDA S : Max(S), DOMAIN q)
        = (CHOOSE g : g = [s \in SUBSET DOMAIN q |->
                             IF s = {} THEN 0 ELSE g[s \ {Max(s)}] + f[q[Max(s)]]])[DOMAIN q]
  BY DEF MapThenFoldSet
<1> QED
  BY <1>1, <1>2 DEF Partial

LEMMA MaxOf ==
  ASSUME NEW k \in Nat, NEW s, s \subseteq 1 .. k + 1, k + 1 \in s
  PROVE  Max(s) = k + 1
<1>1. \A y \in s : y \in Int /\ k + 1 >= y
  OBVIOUS
<1>2. ASSUME NEW x \in s, \A y \in s : x >= y PROVE x = k + 1
  <2>1. x >= k + 1 /\ k + 1 >= x /\ x \in Int
    BY <1>1, <1>2
  <2> QED
    BY <2>1
<1> DEFINE greatest(x) == \A y \in s : x >= y
<1>3. k + 1 \in s /\ greatest(k + 1)
  BY <1>1
<1>4. \A x \in s : greatest(x) => x = k + 1
  BY <1>2
<1>5. Max(s) = CHOOSE x \in s : greatest(x)
  BY DEF Max
<1> HIDE DEF greatest
<1> QED
  BY <1>3, <1>4, <1>5

LEMMA MaxIn ==
  ASSUME NEW k \in Nat, NEW s, s \subseteq 1 .. k, s # {}
  PROVE  Max(s) \in s
<1>0. \A x \in s : x \in Nat /\ x <= k
  <2>1. \A x \in 1 .. k : x \in Nat /\ x <= k
    OBVIOUS
  <2> QED
    BY <2>1
<1> DEFINE B == {k - x : x \in s}
<1>1. B \subseteq Nat /\ B # {}
  <2>1. \A x \in Nat : x <= k => k - x \in Nat
    OBVIOUS
  <2> QED
    BY <1>0, <2>1
<1>2. PICK m \in B : \A y \in B : m <= y
  BY <1>1, Least
<1>3. PICK x \in s : m = k - x
  BY <1>2
<1>4. ASSUME NEW y \in s PROVE x >= y
  <2>1. k - y \in B /\ m <= k - y
    BY <1>2
  <2>2. x \in Nat /\ y \in Nat
    BY <1>0
  <2> QED
    BY <1>3, <2>1, <2>2
<1> QED
  BY <1>4 DEF Max

LEMMA PartialExists ==
  ASSUME NEW f, NEW q PROVE \A n \in Nat : \E g : Partial(f, q, n, g)
<1> DEFINE Good == {n \in Nat : \E g : Partial(f, q, n, g)}
<1>1. 0 \in Good
  <2>1. Partial(f, q, 0, [s \in SUBSET (1 .. 0) |-> 0])
    <3>1. 1 .. 0 = {}
      OBVIOUS
    <3> QED
      BY <3>1 DEF Partial
  <2> QED
    BY <2>1
<1>2. ASSUME NEW n \in Nat, n \in Good PROVE n + 1 \in Good
  <2>1. PICK g : Partial(f, q, n, g)
    BY <1>2
  <2> DEFINE h == [s \in SUBSET (1 .. n + 1) |->
                     IF n + 1 \in s THEN g[s \ {n + 1}] + f[q[n + 1]] ELSE g[s]]
             rest(s) == IF s = {} THEN 0 ELSE h[s \ {Max(s)}] + f[q[Max(s)]]
  <2>2. ASSUME NEW s \in SUBSET (1 .. n + 1)
        PROVE  h[s] = rest(s)
    <3>1. CASE n + 1 \in s
      <4>1. Max(s) = n + 1
        BY <3>1, MaxOf
      <4>2. s \ {n + 1} \in SUBSET (1 .. n + 1) /\ n + 1 \notin s \ {n + 1}
        OBVIOUS
      <4> QED
        BY <3>1, <4>1, <4>2
    <3>2. CASE n + 1 \notin s /\ s # {}
      <4>1. s \in SUBSET (1 .. n)
        <5>1. \A i \in 1 .. n + 1 : i # n + 1 => i \in 1 .. n
          OBVIOUS
        <5> QED
          BY <3>2, <5>1
      <4>4. Max(s) \in s
        BY <3>2, <4>1, MaxIn
      <4>2. g[s] = g[s \ {Max(s)}] + f[q[Max(s)]]
        BY <2>1, <3>2, <4>1, <4>4 DEF Partial
      <4>3. h[s \ {Max(s)}] = g[s \ {Max(s)}] /\ h[s] = g[s]
        BY <3>2, <4>1, <4>4
      <4> QED
        BY <3>2, <4>2, <4>3
    <3>3. CASE s = {}
      BY <2>1, <3>3 DEF Partial
    <3> QED
      BY <3>1, <3>2, <3>3
  <2> HIDE DEF rest
  <2>3. h = [s \in SUBSET (1 .. n + 1) |-> rest(s)]
    BY <2>2
  <2> HIDE DEF h
  <2>4. Partial(f, q, n + 1, h)
    BY <2>3 DEF Partial, rest
  <2> QED
    BY <2>4
<1> HIDE DEF Good
<1>3. Nat \subseteq Good
  BY <1>1, <1>2, Induct
<1> QED
  BY <1>3 DEF Good

LEMMA PartialSums ==
  ASSUME NEW f, NEW q, NEW n \in Nat, NEW g, Partial(f, q, n, g)
  PROVE  /\ g[1 .. 0] = 0
         /\ \A k \in Nat : k + 1 <= n => g[1 .. k + 1] = g[1 .. k] + f[q[k + 1]]
<1>1. 1 .. 0 = {} /\ {} \in SUBSET (1 .. n)
  OBVIOUS
<1>2. g[1 .. 0] = 0
  BY <1>1 DEF Partial
<1>3. ASSUME NEW k \in Nat, k + 1 <= n PROVE g[1 .. k + 1] = g[1 .. k] + f[q[k + 1]]
  <2>1. 1 .. k + 1 \in SUBSET (1 .. n) /\ k + 1 \in 1 .. k + 1
    BY <1>3
  <2>2. Max(1 .. k + 1) = k + 1
    BY <2>1, MaxOf
  <2>3. (1 .. k + 1) \ {k + 1} = 1 .. k /\ 1 .. k + 1 # {}
    OBVIOUS
  <2> QED
    BY <2>1, <2>2, <2>3 DEF Partial
<1> QED
  BY <1>2, <1>3

\* the sums of the beginnings of a sequence
Running(f, q, s) ==
  /\ s[0] = 0
  /\ \A k \in Nat : k + 1 <= Len(q) => s[k + 1] = s[k] + f[q[k + 1]]

(* The sum of a sequence is the last of its running sums.                  *)
LEMMA SeqSumIsLast ==
  ASSUME NEW f, NEW D, NEW q \in Seq(D), NEW s, Running(f, q, s)
  PROVE  SeqSum(f, q) = s[Len(q)]
<1> DEFINE n == Len(q)
           g == CHOOSE h : Partial(f, q, n, h)
<1>1. n \in Nat /\ DOMAIN q = 1 .. n
  OBVIOUS
<1>2. SeqSum(f, q) = g[1 .. n]
  BY <1>1, SeqSumChosen
<1>3. Partial(f, q, n, g)
  BY <1>1, PartialExists
<1> HIDE DEF n, g
<1>4. /\ g[1 .. 0] = 0
      /\ \A k \in Nat : k + 1 <= n => g[1 .. k + 1] = g[1 .. k] + f[q[k + 1]]
  BY <1>1, <1>3, PartialSums
<1> DEFINE Same == {k \in Nat : k <= n => g[1 .. k] = s[k]}
<1>5. 0 \in Same
  BY <1>4 DEF Running
<1>6. ASSUME NEW k \in Nat, k \in Same PROVE k + 1 \in Same
  <2>1. CASE k + 1 <= n
    <3>1. k <= n
      BY <1>1, <2>1
    <3>2. s[k + 1] = s[k] + f[q[k + 1]]
      BY <2>1 DEF Running, n
    <3> QED
      BY <1>4, <1>6, <2>1, <3>1, <3>2
  <2>2. CASE ~(k + 1 <= n)
    BY <2>2
  <2> QED
    BY <2>1, <2>2
<1> HIDE DEF Same
<1>7. n \in Same
  BY <1>1, <1>5, <1>6, Induct
<1> QED
  BY <1>1, <1>2, <1>7 DEF Same, n

(* Every sequence has running sums, and those of numbers are numbers.      *)
LEMMA RunningExists ==
  ASSUME NEW D, NEW f \in [D -> Nat], NEW q \in Seq(D)
  PROVE  \E s : Running(f, q, s) /\ \A k \in 0 .. Len(q) : s[k] \in Nat
<1> DEFINE n == Len(q)
<1>1. n \in Nat /\ \A k \in Nat : k + 1 <= n => f[q[k + 1]] \in Nat
  <2>1. \A k \in Nat : k + 1 <= n => q[k + 1] \in D
    OBVIOUS
  <2> QED
    BY <2>1
<1> HIDE DEF n
<1>2. PICK g : Partial(f, q, n, g)
  BY <1>1, PartialExists
<1>3. /\ g[1 .. 0] = 0
      /\ \A k \in Nat : k + 1 <= n => g[1 .. k + 1] = g[1 .. k] + f[q[k + 1]]
  BY <1>1, <1>2, PartialSums
<1> DEFINE s == [k \in Nat |-> g[1 .. k]]
<1>4. Running(f, q, s)
  <2>1. s[0] = 0
    BY <1>3
  <2>2. \A k \in Nat : k + 1 <= n => s[k + 1] = s[k] + f[q[k + 1]]
    BY <1>3
  <2> HIDE DEF s
  <2> QED
    BY <2>1, <2>2 DEF Running, n
<1> HIDE DEF s
<1> DEFINE Good == {k \in Nat : k <= n => s[k] \in Nat}
<1>5. 0 \in Good
  BY <1>4 DEF Running
<1>6. ASSUME NEW k \in Nat, k \in Good PROVE k + 1 \in Good
  <2>1. CASE k + 1 <= n
    <3>1. k <= n /\ s[k + 1] = s[k] + f[q[k + 1]]
      BY <1>1, <1>4, <2>1 DEF Running, n
    <3> QED
      BY <1>1, <1>6, <2>1, <3>1
  <2>2. CASE ~(k + 1 <= n)
    BY <2>2
  <2> QED
    BY <2>1, <2>2
<1> HIDE DEF Good
<1>7. Nat \subseteq Good
  BY <1>5, <1>6, Induct
<1>8. ASSUME NEW k \in 0 .. n PROVE s[k] \in Nat
  BY <1>1, <1>7 DEF Good
<1> QED
  BY <1>4, <1>8 DEF n

----------------------------------------------------------------------------
(* What the sum is of the sequences a queue goes through.                  *)

LEMMA SeqSumEmpty == ASSUME NEW f PROVE SeqSum(f, <<>>) = 0
<1> DEFINE s == [k \in {0} |-> 0]
<1>1. <<>> \in Seq({}) /\ Len(<<>>) = 0
  OBVIOUS
<1>2. Running(f, <<>>, s)
  BY <1>1 DEF Running
<1> QED
  BY <1>1, <1>2, SeqSumIsLast

LEMMA SeqSumType ==
  ASSUME NEW D, NEW f \in [D -> Nat], NEW q \in Seq(D) PROVE SeqSum(f, q) \in Nat
<1>1. PICK s : Running(f, q, s) /\ \A k \in 0 .. Len(q) : s[k] \in Nat
  BY RunningExists
<1>2. Len(q) \in 0 .. Len(q)
  OBVIOUS
<1> QED
  BY <1>1, <1>2, SeqSumIsLast

LEMMA SeqSumConcat ==
  ASSUME NEW D, NEW f \in [D -> Nat], NEW q \in Seq(D), NEW r \in Seq(D)
  PROVE  SeqSum(f, q \o r) = SeqSum(f, q) + SeqSum(f, r)
<1>1. PICK s : Running(f, q, s) /\ \A k \in 0 .. Len(q) : s[k] \in Nat
  BY RunningExists
<1>2. PICK t : Running(f, r, t) /\ \A k \in 0 .. Len(r) : t[k] \in Nat
  BY RunningExists
<1> DEFINE u == [k \in Nat |-> IF k <= Len(q) THEN s[k] ELSE s[Len(q)] + t[k - Len(q)]]
<1>3. Len(q) \in Nat /\ Len(r) \in Nat /\ q \o r \in Seq(D) /\ Len(q \o r) = Len(q) + Len(r)
  OBVIOUS
<1>4. \A k \in Nat : k + 1 <= Len(q) + Len(r) =>
        (q \o r)[k + 1] = IF k + 1 <= Len(q) THEN q[k + 1] ELSE r[k + 1 - Len(q)]
  OBVIOUS
<1>5. t[0] = 0 /\ s[0] = 0 /\ s[Len(q)] \in Nat /\ t[Len(r)] \in Nat
  BY <1>1, <1>2, <1>3 DEF Running
<1>6. u[0] = 0
  BY <1>3, <1>5
<1>7. ASSUME NEW k \in Nat, k + 1 <= Len(q) + Len(r)
      PROVE  u[k + 1] = u[k] + f[(q \o r)[k + 1]]
  <2>1. CASE k + 1 <= Len(q)
    <3>1. s[k + 1] = s[k] + f[q[k + 1]]
      BY <1>1, <1>3, <2>1 DEF Running
    <3>2. u[k + 1] = s[k + 1] /\ u[k] = s[k] /\ (q \o r)[k + 1] = q[k + 1]
      BY <1>3, <1>4, <1>7, <2>1
    <3> QED
      BY <3>1, <3>2
  <2>2. CASE ~(k + 1 <= Len(q))
    <3> DEFINE j == k - Len(q)
    <3>1. j \in Nat /\ j + 1 <= Len(r) /\ j + 1 = k + 1 - Len(q)
      BY <1>3, <1>7, <2>2
    <3>2. t[j + 1] = t[j] + f[r[j + 1]]
      BY <1>2, <1>3, <3>1 DEF Running
    <3>3. (q \o r)[k + 1] = r[j + 1]
      BY <1>4, <1>7, <2>2, <3>1
    <3>4. u[k + 1] = s[Len(q)] + t[j + 1]
      BY <1>3, <2>2, <3>1
    <3>5. u[k] = s[Len(q)] + t[j]
      <4>1. CASE k = Len(q)
        BY <1>3, <1>5, <4>1
      <4>2. CASE k # Len(q)
        BY <1>3, <2>2, <4>2
      <4> QED
        BY <4>1, <4>2
    <3>6. r[j + 1] \in D /\ f[r[j + 1]] \in Nat
      BY <3>1
    <3>7. t[j] \in Nat
      BY <1>2, <1>3, <3>1
    <3> HIDE DEF j, u
    <3> QED
      BY <1>5, <3>2, <3>3, <3>4, <3>5, <3>6, <3>7
  <2> QED
    BY <2>1, <2>2
<1>8. u[Len(q) + Len(r)] = s[Len(q)] + t[Len(r)]
  <2>1. CASE Len(r) = 0
    BY <1>3, <1>5, <2>1
  <2>2. CASE Len(r) # 0
    BY <1>3, <2>2
  <2> QED
    BY <2>1, <2>2
<1> HIDE DEF u
<1>9. Running(f, q \o r, u)
  BY <1>3, <1>6, <1>7 DEF Running
<1> QED
  BY <1>1, <1>2, <1>3, <1>8, <1>9, SeqSumIsLast

LEMMA SeqSumTail ==
  ASSUME NEW D, NEW f \in [D -> Nat], NEW q \in Seq(D), q # <<>>
  PROVE  SeqSum(f, Tail(q)) <= SeqSum(f, q)
<1> DEFINE h == <<Head(q)>>
<1>1. h \in Seq(D) /\ Tail(q) \in Seq(D) /\ h \o Tail(q) = q
  <2>1. Head(q) \in D /\ Tail(q) \in Seq(D) /\ q = <<Head(q)>> \o Tail(q)
    BY HeadTailProperties
  <2> QED
    BY <2>1
<1> HIDE DEF h
<1>2. SeqSum(f, q) = SeqSum(f, h) + SeqSum(f, Tail(q))
  BY <1>1, SeqSumConcat
<1>3. SeqSum(f, h) \in Nat /\ SeqSum(f, Tail(q)) \in Nat
  BY <1>1, SeqSumType
<1> QED
  BY <1>2, <1>3

----------------------------------------------------------------------------
(* Folds over sets, which take the elements in an order nothing is known   *)
(* of: a table of what is folded from each subset.                         *)

Picked(s) == CHOOSE x \in s : TRUE

LEMMA PickedIn == ASSUME NEW s, s # {} PROVE Picked(s) \in s
BY DEF Picked

LEMMA Fewer ==
  ASSUME NEW S, IsFiniteSet(S), NEW x \in S
  PROVE  /\ IsFiniteSet(S \ {x}) /\ Cardinality(S) \in Nat /\ Cardinality(S \ {x}) \in Nat
         /\ Cardinality(S) = Cardinality(S \ {x}) + 1
<1>1. IsFiniteSet(S \ {x}) /\ Cardinality(S \ {x}) = Cardinality(S) - 1
  BY FS_RemoveElement
<1>2. Cardinality(S) \in Nat /\ Cardinality(S \ {x}) \in Nat
  BY <1>1, FS_CardinalityType
<1> QED
  BY <1>1, <1>2

\* what is true of the empty set and of a set when it is of its smaller ones is
\* true of all finite sets
LEMMA FiniteInduct ==
  ASSUME NEW S, IsFiniteSet(S), NEW Good, {} \in Good,
         \A s \in SUBSET S : s # {} /\ (\A t \in SUBSET S : Cardinality(t) < Cardinality(s) => t \in Good)
           => s \in Good
  PROVE  SUBSET S \subseteq Good
<1> DEFINE Upto == {n \in Nat : \A s \in SUBSET S : Cardinality(s) <= n => s \in Good}
<1>1. ASSUME NEW s \in SUBSET S PROVE IsFiniteSet(s) /\ Cardinality(s) \in Nat
  BY FS_Subset, FS_CardinalityType
<1>2. ASSUME NEW s \in SUBSET S PROVE Cardinality(s) = 0 <=> s = {}
  BY <1>1, FS_EmptySet
<1>3. 0 \in Upto
  <2>1. ASSUME NEW s \in SUBSET S, Cardinality(s) <= 0 PROVE s \in Good
    <3>1. Cardinality(s) = 0
      BY <1>1, <2>1
    <3> QED
      BY <1>2, <3>1
  <2> QED
    BY <2>1
<1>4. ASSUME NEW n \in Nat, n \in Upto PROVE n + 1 \in Upto
  <2>1. ASSUME NEW s \in SUBSET S, Cardinality(s) <= n + 1 PROVE s \in Good
    <3>1. CASE s = {}
      BY <3>1
    <3>2. CASE s # {}
      <4>1. ASSUME NEW t \in SUBSET S, Cardinality(t) < Cardinality(s) PROVE t \in Good
        <5>1. Cardinality(t) <= n
          BY <1>1, <2>1, <4>1
        <5> QED
          BY <1>4, <5>1
      <4> QED
        BY <3>2, <4>1
    <3> QED
      BY <3>1, <3>2
  <2> QED
    BY <2>1
<1> HIDE DEF Upto
<1>5. Nat \subseteq Upto
  BY <1>3, <1>4, Induct
<1>6. ASSUME NEW s \in SUBSET S PROVE s \in Good
  BY <1>1, <1>5 DEF Upto
<1> QED
  BY <1>6

Table(g, S, base, T) ==
  \A s \in SUBSET S : g[s] = IF s = {} THEN base ELSE T[<<Picked(s), g[s \ {Picked(s)}]>>]

LEMMA TableExists ==
  ASSUME NEW S, IsFiniteSet(S), NEW A, NEW base \in A, NEW T \in [S \X A -> A]
  PROVE  \E g \in [SUBSET S -> A] : Table(g, S, base, T)
<1> DEFINE Right(g, s) == g[s] = IF s = {} THEN base ELSE T[<<Picked(s), g[s \ {Picked(s)}]>>]
           Good == {n \in Nat : \E g \in [SUBSET S -> A] :
                      \A s \in SUBSET S : Cardinality(s) <= n => Right(g, s)}
<1>1. ASSUME NEW s \in SUBSET S
      PROVE  /\ Cardinality(s) \in Nat /\ (Cardinality(s) = 0 <=> s = {})
             /\ s # {} => /\ Picked(s) \in S /\ s \ {Picked(s)} \in SUBSET S
                          /\ Cardinality(s) = Cardinality(s \ {Picked(s)}) + 1
  <2>1. IsFiniteSet(s)
    BY FS_Subset
  <2>2. Cardinality(s) \in Nat /\ (Cardinality(s) = 0 <=> s = {})
    BY <2>1, FS_CardinalityType, FS_EmptySet
  <2>3. s # {} => Picked(s) \in s
    BY PickedIn
  <2>4. s # {} => Cardinality(s) = Cardinality(s \ {Picked(s)}) + 1
    BY <2>1, <2>3, Fewer
  <2> QED
    BY <2>2, <2>3, <2>4
<1>2. 0 \in Good
  <2> DEFINE g == [s \in SUBSET S |-> base]
  <2>1. g \in [SUBSET S -> A] /\ \A s \in SUBSET S : s = {} => Right(g, s)
    OBVIOUS
  <2>2. ASSUME NEW s \in SUBSET S, Cardinality(s) <= 0 PROVE s = {}
    <3>1. Cardinality(s) \in Nat
      BY <1>1
    <3>2. Cardinality(s) = 0
      BY <2>2, <3>1
    <3> QED
      BY <1>1, <3>2
  <2> HIDE DEF g, Right
  <2> QED
    BY <2>1, <2>2
<1>3. ASSUME NEW n \in Nat, n \in Good PROVE n + 1 \in Good
  <2>1. PICK g \in [SUBSET S -> A] : \A s \in SUBSET S : Cardinality(s) <= n => Right(g, s)
    BY <1>3
  <2> DEFINE Grown(s) == T[<<Picked(s), g[s \ {Picked(s)}]>>]
             h == [s \in SUBSET S |-> IF Cardinality(s) = n + 1 THEN Grown(s) ELSE g[s]]
  <2>2. ASSUME NEW s \in SUBSET S, s # {} PROVE Grown(s) \in A
    <3>1. Picked(s) \in S /\ g[s \ {Picked(s)}] \in A
      BY <1>1, <2>2
    <3> QED
      BY <3>1
  <2>3. ASSUME NEW s \in SUBSET S PROVE h[s] \in A
    <3>1. CASE Cardinality(s) = n + 1
      <4>0. Cardinality(s) # 0
        BY <3>1
      <4>1. s # {}
        BY <1>1, <4>0
      <4>2. Grown(s) \in A /\ h[s] = Grown(s)
        BY <2>2, <3>1, <4>1
      <4> QED
        BY <4>2
    <3> QED
      BY <3>1
  <2>6. h = [s \in SUBSET S |-> h[s]]
    OBVIOUS
  <2>4. h \in [SUBSET S -> A]
    <3> HIDE DEF h
    <3> QED
      BY <2>3, <2>6
  <2>5. ASSUME NEW s \in SUBSET S, Cardinality(s) <= n + 1 PROVE Right(h, s)
    <3>1. CASE Cardinality(s) = n + 1
      <4>0. Cardinality(s) # 0
        BY <3>1
      <4>1. s # {} /\ s \ {Picked(s)} \in SUBSET S /\ Cardinality(s \ {Picked(s)}) # n + 1
        <5>1. s # {}
          BY <1>1, <4>0
        <5>2. /\ s \ {Picked(s)} \in SUBSET S /\ Cardinality(s \ {Picked(s)}) \in Nat
              /\ Cardinality(s) = Cardinality(s \ {Picked(s)}) + 1
          BY <1>1, <5>1
        <5>3. Cardinality(s \ {Picked(s)}) # n + 1
          BY <3>1, <5>2
        <5> QED
          BY <5>1, <5>2, <5>3
      <4>2. h[s \ {Picked(s)}] = g[s \ {Picked(s)}] /\ h[s] = Grown(s)
        BY <3>1, <4>1
      <4> QED
        BY <4>1, <4>2
    <3>2. CASE Cardinality(s) # n + 1
      <4>0. Cardinality(s) \in Nat
        BY <1>1
      <4>4. Cardinality(s) <= n
        BY <2>5, <3>2, <4>0
      <4>1. Cardinality(s) <= n /\ h[s] = g[s]
        BY <3>2, <4>4
      <4>2. CASE s = {}
        BY <2>1, <4>1, <4>2
      <4>3. CASE s # {}
        <5>3. /\ s \ {Picked(s)} \in SUBSET S /\ Cardinality(s \ {Picked(s)}) \in Nat
              /\ Cardinality(s) = Cardinality(s \ {Picked(s)}) + 1
          BY <1>1, <4>3
        <5>1. s \ {Picked(s)} \in SUBSET S /\ Cardinality(s \ {Picked(s)}) # n + 1
          BY <4>4, <5>3
        <5>2. h[s \ {Picked(s)}] = g[s \ {Picked(s)}]
          BY <5>1
        <5> QED
          BY <2>1, <4>1, <4>3, <5>2
      <4> QED
        BY <4>2, <4>3
    <3> QED
      BY <3>1, <3>2
  <2> HIDE DEF h, Right
  <2> QED
    BY <2>4, <2>5
<1> HIDE DEF Good, Right
<1>4. Cardinality(S) \in Good
  BY <1>1, <1>2, <1>3, Induct
<1>5. PICK g \in [SUBSET S -> A] : \A s \in SUBSET S : Cardinality(s) <= Cardinality(S) => Right(g, s)
  BY <1>4 DEF Good
<1>6. \A s \in SUBSET S : Cardinality(s) <= Cardinality(S)
  BY FS_Subset
<1> QED
  BY <1>5, <1>6 DEF Table, Right

\* a table of sums
SumTable(g, f, S) ==
  \A s \in SUBSET S : g[s] = IF s = {} THEN 0 ELSE f[Picked(s)] + g[s \ {Picked(s)}]

LEMMA SumTableExists ==
  ASSUME NEW S, IsFiniteSet(S), NEW f \in [S -> Int]
  PROVE  \E g \in [SUBSET S -> Int] : SumTable(g, f, S)
<1> DEFINE T == [p \in S \X Int |-> f[p[1]] + p[2]]
<1>1. T \in [S \X Int -> Int]
  OBVIOUS
<1>2. \A x \in S, n \in Int : T[<<x, n>>] = f[x] + n
  OBVIOUS
<1> HIDE DEF T
<1>5. 0 \in Int
  OBVIOUS
<1>3. \E g \in [SUBSET S -> Int] : Table(g, S, 0, T)
  BY <1>1, <1>5, TableExists
<1>6. PICK g \in [SUBSET S -> Int] : Table(g, S, 0, T)
  BY <1>3
<1>4. ASSUME NEW s \in SUBSET S, s # {}
      PROVE  T[<<Picked(s), g[s \ {Picked(s)}]>>] = f[Picked(s)] + g[s \ {Picked(s)}]
  <2>1. Picked(s) \in S /\ g[s \ {Picked(s)}] \in Int
    BY <1>4, <1>6, PickedIn
  <2> QED
    BY <1>2, <2>1
<1> QED
  BY <1>4, <1>6 DEF Table, SumTable

\* ... which takes its elements in any order
SumsUp(g, f, S) ==
  /\ g[{}] = 0
  /\ \A s \in SUBSET S : g[s] \in Int /\ \A x \in s : g[s] = f[x] + g[s \ {x}]

LEMMA SumAnyOrder ==
  ASSUME NEW S, IsFiniteSet(S), NEW f \in [S -> Int], NEW g, SumTable(g, f, S)
  PROVE  SumsUp(g, f, S)
<1> DEFINE Good == {s \in SUBSET S : g[s] \in Int /\ \A x \in s : g[s] = f[x] + g[s \ {x}]}
<1>1. g[{}] = 0 /\ {} \in Good
  BY DEF SumTable
<1>2. ASSUME NEW s \in SUBSET S, s # {},
             \A t \in SUBSET S : Cardinality(t) < Cardinality(s) => t \in Good
      PROVE  s \in Good
  <2> DEFINE y == Picked(s)
  <2>1. y \in s /\ y \in S
    BY <1>2, PickedIn
  <2>2. g[s] = f[y] + g[s \ {y}]
    BY <1>2 DEF SumTable
  <2>3. ASSUME NEW x \in s PROVE s \ {x} \in Good
    <3>1. Cardinality(s \ {x}) < Cardinality(s)
      <4>1. IsFiniteSet(s)
        BY FS_Subset
      <4>2. /\ Cardinality(s) \in Nat /\ Cardinality(s \ {x}) \in Nat
            /\ Cardinality(s) = Cardinality(s \ {x}) + 1
        BY <4>1, Fewer
      <4> QED
        BY <4>2
    <3>2. s \ {x} \in SUBSET S
      OBVIOUS
    <3> HIDE DEF Good
    <3> QED
      BY <1>2, <3>1, <3>2
  <2> HIDE DEF y
  <2>4. g[s] \in Int
    BY <2>1, <2>2, <2>3
  <2>5. ASSUME NEW x \in s PROVE g[s] = f[x] + g[s \ {x}]
    <3>1. CASE x = y
      BY <2>2, <3>1
    <3>2. CASE x # y
      <4> DEFINE r == (s \ {x}) \ {y}
      <4>1. r = (s \ {y}) \ {x}
        OBVIOUS
      <4>2. g[s \ {x}] = f[y] + g[r] /\ g[s \ {x}] \in Int
        BY <2>1, <2>3, <3>2
      <4>3. g[s \ {y}] = f[x] + g[r] /\ g[s \ {y}] \in Int
        BY <2>1, <2>3, <3>2, <4>1
      <4>4. f[x] \in Int /\ f[y] \in Int
        BY <2>1
      <4>5. g[r] \in Int
        <5>1. r \in SUBSET S /\ Cardinality(r) < Cardinality(s)
          <6>1. IsFiniteSet(s) /\ IsFiniteSet(s \ {x})
            BY FS_Subset
          <6>2. y \in s \ {x}
            BY <2>1, <3>2
          <6>3. /\ Cardinality(s) \in Nat /\ Cardinality(s \ {x}) \in Nat /\ Cardinality(r) \in Nat
                /\ Cardinality(s) = Cardinality(s \ {x}) + 1
                /\ Cardinality(s \ {x}) = Cardinality(r) + 1
            BY <6>1, <6>2, Fewer
          <6> QED
            BY <6>3
        <5> HIDE DEF Good, r
        <5>2. r \in Good
          BY <1>2, <5>1
        <5> QED
          BY <5>2 DEF Good
      <4> HIDE DEF r
      <4> QED
        BY <2>2, <4>2, <4>3, <4>4, <4>5
    <3> QED
      BY <3>1, <3>2
  <2> QED
    BY <2>4, <2>5
<1> HIDE DEF Good
<1>3. SUBSET S \subseteq Good
  BY <1>1, <1>2, FiniteInduct
<1> QED
  BY <1>1, <1>3 DEF Good, SumsUp

(* The sum of the differences between neighbours.                          *)
LEMMA Telescopes ==
  ASSUME NEW n \in Nat, NEW f \in [0 .. n - 1 -> Int], NEW c \in [0 .. n -> Int],
         \A k \in 0 .. n - 1 : f[k] = c[k + 1] - c[k],
         NEW g, SumTable(g, f, 0 .. n - 1)
  PROVE  g[0 .. n - 1] = c[n] - c[0]
<1> DEFINE R == 0 .. n - 1
<1>1. IsFiniteSet(R) /\ f \in [R -> Int] /\ SumTable(g, f, R)
  BY FS_Interval
<1> HIDE DEF R
<1>2. /\ g[{}] = 0
      /\ \A s \in SUBSET R : g[s] \in Int /\ \A x \in s : g[s] = f[x] + g[s \ {x}]
  <2>1. SumsUp(g, f, R)
    BY <1>1, SumAnyOrder
  <2> QED
    BY <2>1 DEF SumsUp
<1> DEFINE Good == {k \in Nat : k <= n => g[0 .. k - 1] = c[k] - c[0]}
<1>3. 0 \in Good
  <2>1. 0 .. 0 - 1 = {} /\ c[0] \in Int
    OBVIOUS
  <2> QED
    BY <1>2, <2>1
<1>4. ASSUME NEW k \in Nat, k \in Good PROVE k + 1 \in Good
  <2>1. CASE k + 1 <= n
    <3> DEFINE s == 0 .. k
    <3>1. s \in SUBSET R /\ k \in s /\ k \in R
      BY <2>1 DEF R
    <3>2. s \ {k} = 0 .. k - 1
      OBVIOUS
    <3> HIDE DEF s
    <3>9. g[s] = f[k] + g[s \ {k}]
      BY <1>2, <3>1
    <3>3. g[0 .. k] = f[k] + g[0 .. k - 1]
      BY <3>2, <3>9 DEF s
    <3>4. f[k] = c[k + 1] - c[k]
      BY <3>1 DEF R
    <3>5. g[0 .. k - 1] = c[k] - c[0]
      BY <1>4, <2>1
    <3>6. c[k] \in Int /\ c[k + 1] \in Int /\ c[0] \in Int
      BY <2>1
    <3>7. g[0 .. k] = c[k + 1] - c[0]
      BY <3>3, <3>4, <3>5, <3>6
    <3>8. (k + 1) - 1 = k
      OBVIOUS
    <3> QED
      BY <3>7, <3>8
  <2>2. CASE ~(k + 1 <= n)
    BY <2>2
  <2> QED
    BY <2>1, <2>2
<1> HIDE DEF Good
<1>5. n \in Good
  BY <1>3, <1>4, Induct
<1> QED
  BY <1>5 DEF Good
=============================================================================
