------------------------- MODULE ReductionOrderProofs -------------------------
(***************************************************************************)
(* Any number of ranks launch the collectives of every process group in    *)
(* one order and never wait for each other in a circle, for every layout   *)
(* of buckets, bucket groups and process groups, if they agree on the      *)
(* buckets that have a parameter left to the root hook.                    *)
(*                                                                         *)
(* Two facts carry the proof.  A rank hands over its parameters in an      *)
(* order of its own, Earlier, but the order this induces on bucket groups, *)
(* GroupEarlier, is that of every rank in the same pass.  And ranks of a   *)
(* process group have executed the same collectives of it in their passes, *)
(* or one is at the end of the pass before (Lockstep).                     *)
(***************************************************************************)
EXTENDS ReductionOrder, SequenceTheorems, FiniteSetTheorems, WellFoundedInduction, TLAPS

\* All ranks leave parameters of the same buckets to the root hook.
AgreedUses ==
  \A u \in Uses : \A r, s \in Rank : LeftToRoot(u[r]) = LeftToRoot(u[s])

\* Some bucket is reduced over all ranks, as those without experts are.
SomeDense == \E b \in Bucket : Rank \in ProcessGroups[b]

----------------------------------------------------------------------------
(* The order in which parameters are handed over.                          *)

\* With these parameters in use, the hook of p fires before that of q, or q is
\* left to the root hook and p comes before it there or has a hook.
Earlier(used, p, q) ==
  IF q \in used \ Shared THEN p \in used \ Shared /\ Before(p, q)
  ELSE p \in used \ Shared \/ p < q

Members(b) == {p \in Param : GroupOf[BucketOf[p]] = GroupOf[b]}

\* A parameter of the group of c comes after all of the group of b.
GroupEarlier(used, b, c) ==
  \E q \in Members(c) : \A p \in Members(b) : Earlier(used, p, q)

Using(r) == uses[pass[r]][r]

----------------------------------------------------------------------------
(* The invariant.                                                          *)

Types ==
  /\ uses \in [Pass -> Uses]
  /\ pass \in [Rank -> Pass]
  /\ at_root \in [Rank -> BOOLEAN]
  /\ require_handle \in [Rank -> SUBSET Param]
  /\ ready \in [Rank -> [Bucket -> SUBSET Param]]
  /\ launching \in [Rank -> {<<>>} \cup {GroupOf[b] : b \in Bucket}]
  /\ grad_reduce_queue \in [Rank -> Seq(Bucket)]
  /\ rs_stream \in [Rank -> Seq({GroupOf[b] : b \in Bucket})]

Marked(r, b) == Members(b) \cap require_handle[r] = {}
Launched(r, b) == Marked(r, b) /\ launching[r] # GroupOf[b]
InStream(r, b) == \E i \in 1 .. Len(rs_stream[r]) : rs_stream[r][i] = GroupOf[b]
Executed(r, b) == Launched(r, b) /\ ~InStream(r, b)
Queued(r, b) == b \in Range(grad_reduce_queue[r])

\* Parameters are handed over in the order of Earlier.
HandedInOrder ==
  \A r \in Rank :
    /\ at_root[r] => require_handle[r] \cap (Using(r) \ Shared) = {}
    /\ \A p \in require_handle[r], q \in Param :
         Earlier(Using(r), p, q) => q \in require_handle[r]

\* What is about to be launched has just been completed.
LaunchingLast ==
  \A r \in Rank : \A b \in Bucket : launching[r] = GroupOf[b] =>
    /\ Marked(r, b)
    /\ \E p \in Members(b) : \A q \in Param \ require_handle[r] :
         q # p => Earlier(Using(r), q, p)

\* Marked and ready parameters agree until a group is launched, and what was
\* launched is queued until its collective has been executed.
QueueSound ==
  \A r \in Rank, b \in Bucket :
    /\ ~Launched(r, b) => ready[r][b] = ParamsOf(b) \ require_handle[r]
    /\ Launched(r, b) /\ ~Queued(r, b) => ready[r][b] = {}
    /\ Queued(r, b) => Launched(r, b)
    /\ InStream(r, b) => Queued(r, b)

\* The stream is in the order in which groups were completed.
StreamSorted ==
  \A r \in Rank : \A i, j \in 1 .. Len(rs_stream[r]) : i < j =>
    \A b, c \in Bucket : rs_stream[r][i] = GroupOf[b] /\ rs_stream[r][j] = GroupOf[c]
                           => GroupEarlier(Using(r), b, c)

On(ranks) == {b \in Bucket : ranks \in ProcessGroups[b]}

\* Two ranks in one pass that have executed the same collectives of a process
\* group, and a rank that has begun the pass after the other's.
Even(r, s, ranks) ==
  /\ pass[r] = pass[s]
  /\ \A b \in On(ranks) : Executed(r, b) <=> Executed(s, b)
Ahead(r, s, ranks) ==
  /\ pass[r] = (pass[s] + 1) % NumPasses
  /\ \A b \in On(ranks) : ~Executed(r, b) /\ Executed(s, b)

Lockstep ==
  /\ \A ranks \in ProcessGroup : \A r, s \in ranks :
       Even(r, s, ranks) \/ Ahead(r, s, ranks) \/ Ahead(s, r, ranks)
  /\ \A ranks, others \in ProcessGroup : \A r, s \in ranks \cap others :
       Ahead(r, s, ranks) => Ahead(r, s, others)

Inv == Types /\ HandedInOrder /\ LaunchingLast /\ QueueSound /\ StreamSorted /\ Lockstep

----------------------------------------------------------------------------
(* Groups of buckets.                                                      *)

LEMMA InGroup ==
  ASSUME NEW b \in Bucket, NEW c
  PROVE  c \in Range(GroupOf[b]) <=> c \in Bucket /\ GroupOf[c] = GroupOf[b]
<1>1. Range(GroupOf[b]) \subseteq Bucket
  BY OrderAssumption DEF Range
<1> QED
  BY <1>1, OrderAssumption

LEMMA GroupHead ==
  ASSUME NEW b \in Bucket
  PROVE  /\ GroupOf[b] \in Seq(Bucket) /\ GroupOf[b] # <<>>
         /\ ProcessGroups[GroupOf[b][1]] = ProcessGroups[b]
<1>1. GroupOf[b] \in Seq(Bucket) /\ b \in Range(GroupOf[b])
  BY OrderAssumption
<1>2. GroupOf[b] # <<>>
  BY <1>1 DEF Range
<1>3. GroupOf[b][1] \in Range(GroupOf[b])
  BY <1>1, <1>2 DEF Range
<1> QED
  BY <1>1, <1>2, <1>3, OrderAssumption

LEMMA GroupMembers ==
  ASSUME NEW b \in Bucket
  PROVE  /\ Members(b) \subseteq Param /\ Members(b) # {}
         /\ ParamsOf(b) \subseteq Members(b)
         /\ \A c \in Bucket : GroupOf[c] # GroupOf[b] => Members(b) \cap Members(c) = {}
         /\ \A c \in Bucket : GroupOf[c] = GroupOf[b] =>
              ProcessGroups[c] = ProcessGroups[b] /\ Members(c) = Members(b)
<1>1. \A c \in Bucket : GroupOf[c] = GroupOf[b] => ProcessGroups[c] = ProcessGroups[b]
  BY OrderAssumption, InGroup
<1> QED
  BY <1>1, OrderAssumption DEF Members, ParamsOf

----------------------------------------------------------------------------
(* The orders of one rank.                                                 *)

LEMMA BeforeOrder ==
  /\ \A p \in Param : ~Before(p, p)
  /\ \A p, q \in Param : p # q => Before(p, q) \/ Before(q, p)
  /\ \A p, q \in Param : Before(p, q) => ~Before(q, p)
  /\ \A p, q, t \in Param : Before(p, q) /\ Before(q, t) => Before(p, t)
<1>1. /\ Len(HookOrder) \in Nat
      /\ \A i, j \in 1 .. Len(HookOrder) : HookOrder[i] = HookOrder[j] => i = j
  BY OrderAssumption
<1>2. \A p \in Param : \E i \in 1 .. Len(HookOrder) : HookOrder[i] = p
  BY OrderAssumption DEF Range
<1>3. \A p, q \in Param : p # q => Before(p, q) \/ Before(q, p)
  <2> SUFFICES ASSUME NEW p \in Param, NEW q \in Param, p # q
               PROVE  Before(p, q) \/ Before(q, p)
    OBVIOUS
  <2>1. PICK i \in 1 .. Len(HookOrder) : HookOrder[i] = p
    BY <1>2
  <2>2. PICK j \in 1 .. Len(HookOrder) : HookOrder[j] = q
    BY <1>2
  <2>3. i < j \/ j < i
    BY <2>1, <2>2, <1>1
  <2> QED
    BY <2>1, <2>2, <2>3 DEF Before
<1>4. \A p, q, t \in Param : Before(p, q) /\ Before(q, t) => Before(p, t)
  <2> SUFFICES ASSUME NEW p, NEW q, NEW t, Before(p, q), Before(q, t)
               PROVE  Before(p, t)
    OBVIOUS
  <2>1. PICK i, j \in 1 .. Len(HookOrder) : i < j /\ HookOrder[i] = p /\ HookOrder[j] = q
    BY DEF Before
  <2>2. PICK k, m \in 1 .. Len(HookOrder) : k < m /\ HookOrder[k] = q /\ HookOrder[m] = t
    BY DEF Before
  <2>3. i < m
    BY <1>1, <2>1, <2>2
  <2> QED
    BY <2>1, <2>2, <2>3 DEF Before
<1>5. \A p \in Param : ~Before(p, p)
  BY <1>1 DEF Before
<1> QED
  BY <1>3, <1>4, <1>5

LEMMA EarlierOrder ==
  ASSUME NEW used
  PROVE  /\ \A p \in Param : ~Earlier(used, p, p)
         /\ \A p, q \in Param : p # q => Earlier(used, p, q) \/ Earlier(used, q, p)
         /\ \A p, q \in Param : Earlier(used, p, q) => ~Earlier(used, q, p)
         /\ \A p, q, t \in Param :
              Earlier(used, p, q) /\ Earlier(used, q, t) => Earlier(used, p, t)
<1>1. Param \subseteq Int
  BY DEF Param
<1> QED
  BY <1>1, BeforeOrder DEF Earlier

LEMMA GroupEarlierOrder ==
  ASSUME NEW used, NEW b \in Bucket, NEW c \in Bucket
  PROVE  /\ GroupEarlier(used, b, c) => ~GroupEarlier(used, c, b)
         /\ \A d \in Bucket :
              GroupEarlier(used, b, c) /\ GroupEarlier(used, c, d) => GroupEarlier(used, b, d)
<1>1. Members(b) \subseteq Param /\ Members(c) \subseteq Param
  BY GroupMembers
<1>2. GroupEarlier(used, b, c) => ~GroupEarlier(used, c, b)
  BY <1>1, EarlierOrder DEF GroupEarlier
<1>3. ASSUME NEW d \in Bucket, GroupEarlier(used, b, c), GroupEarlier(used, c, d)
      PROVE  GroupEarlier(used, b, d)
  <2>1. Members(d) \subseteq Param
    BY GroupMembers
  <2>2. PICK q \in Members(c) : \A p \in Members(b) : Earlier(used, p, q)
    BY <1>3 DEF GroupEarlier
  <2>3. PICK t \in Members(d) : \A p \in Members(c) : Earlier(used, p, t)
    BY <1>3 DEF GroupEarlier
  <2>4. \A p \in Members(b) : Earlier(used, p, t)
    BY <1>1, <2>1, <2>2, <2>3, EarlierOrder
  <2> QED
    BY <2>4 DEF GroupEarlier
<1> QED
  BY <1>2, <1>3

\* What is left to the root hook decides the order of the groups: which of the
\* parameters of a bucket it is does not matter.
LEMMA OneOrder ==
  ASSUME NEW used, NEW others, LeftToRoot(used) = LeftToRoot(others),
         NEW b \in Bucket, NEW c \in Bucket, GroupOf[b] # GroupOf[c],
         GroupEarlier(used, b, c)
  PROVE  GroupEarlier(others, b, c)
<1>1. PICK q \in Members(c) : \A p \in Members(b) : Earlier(used, p, q)
  BY DEF GroupEarlier
<1>2. Members(b) \subseteq Param /\ Members(c) \subseteq Param
  BY GroupMembers
<1>3. ASSUME NEW p \in Param, p \notin others \ Shared
      PROVE  \E t \in Param : t \notin used \ Shared /\ BucketOf[t] = BucketOf[p]
  <2>1. BucketOf[p] \in LeftToRoot(others)
    BY <1>3 DEF LeftToRoot
  <2>2. PICK t \in Shared \cup (Param \ used) : BucketOf[t] = BucketOf[p]
    BY <2>1 DEF LeftToRoot
  <2> QED
    BY <2>2, OrderAssumption
<1>4. ASSUME NEW p \in Param, p \notin used \ Shared
      PROVE  \E t \in Param : t \notin others \ Shared /\ BucketOf[t] = BucketOf[p]
  <2>1. BucketOf[p] \in LeftToRoot(used)
    BY <1>4 DEF LeftToRoot
  <2>2. PICK t \in Shared \cup (Param \ others) : BucketOf[t] = BucketOf[p]
    BY <2>1 DEF LeftToRoot
  <2> QED
    BY <2>2, OrderAssumption
<1>5. CASE q \in used \ Shared
  <2>1. \A p \in Members(b) : p \in used \ Shared /\ Before(p, q)
    BY <1>1, <1>5 DEF Earlier
  <2>2. \A p \in Members(b) : p \in others \ Shared
    BY <1>2, <1>3, <2>1 DEF Members
  <2>3. \A p \in Members(b) : Earlier(others, p, q)
    BY <2>1, <2>2 DEF Earlier
  <2> QED
    BY <2>3 DEF GroupEarlier
<1>6. CASE q \notin used \ Shared
  <2>1. PICK t \in Param : t \notin others \ Shared /\ BucketOf[t] = BucketOf[q]
    BY <1>2, <1>4, <1>6
  <2>2. t \in Members(c)
    BY <2>1 DEF Members
  <2>3. ASSUME NEW p \in Members(b), p \notin others \ Shared
        PROVE  p < t
    <3>1. PICK o \in Param : o \notin used \ Shared /\ BucketOf[o] = BucketOf[p]
      BY <1>2, <1>3, <2>3
    <3>2. o \in Members(b)
      BY <3>1 DEF Members
    <3>3. o < q
      BY <1>1, <1>6, <3>1, <3>2 DEF Earlier
    <3>4. BucketOf[o] <= BucketOf[q]
      BY <1>2, <3>1, <3>3, OrderAssumption
    <3>5. BucketOf[p] # BucketOf[t]
      BY <2>2 DEF Members
    <3>6. BucketOf[p] \in Int /\ BucketOf[t] \in Int /\ p \in Param /\ p \in Int /\ t \in Int
      <4>1. BucketOf[p] \in Bucket /\ BucketOf[t] \in Bucket /\ p \in Param
        BY <1>2, OrderAssumption
      <4>2. Bucket \subseteq Int /\ Param \subseteq Int
        BY OrderAssumption DEF Bucket, Param
      <4> QED
        BY <4>1, <4>2
    <3>7. BucketOf[p] < BucketOf[t]
      BY <2>1, <3>1, <3>4, <3>5, <3>6
    <3>8. t < p => BucketOf[t] <= BucketOf[p]
      BY <3>6, OrderAssumption
    <3>9. t # p
      BY <3>5
    <3> QED
      BY <3>6, <3>7, <3>8, <3>9
  <2>4. \A p \in Members(b) : Earlier(others, p, t)
    BY <2>1, <2>3 DEF Earlier
  <2> QED
    BY <2>2, <2>4 DEF GroupEarlier
<1> QED
  BY <1>5, <1>6

----------------------------------------------------------------------------
(* What the steps keep.                                                    *)

LEMMA RanksOfGroup ==
  ASSUME NEW ranks \in ProcessGroup
  PROVE  ranks \subseteq Rank /\ On(ranks) \subseteq Bucket /\ On(ranks) # {}
BY OrderAssumption DEF ProcessGroup, On

\* A step that executes no collective and begins no pass keeps the ranks in step.
LEMMA LockstepKept ==
  ASSUME Lockstep, pass' = pass,
         \A s \in Rank, b \in Bucket : Executed(s, b)' <=> Executed(s, b)
  PROVE  Lockstep'
<1>1. ASSUME NEW ranks \in ProcessGroup, NEW s \in ranks, NEW t \in ranks
      PROVE  /\ Even(s, t, ranks)' <=> Even(s, t, ranks)
             /\ Ahead(s, t, ranks)' <=> Ahead(s, t, ranks)
  <2>1. s \in Rank /\ t \in Rank /\ \A b \in On(ranks) : b \in Bucket
    BY RanksOfGroup
  <2> QED
    BY <2>1 DEF Even, Ahead, On
<1>2. ASSUME NEW ranks \in ProcessGroup, NEW s \in ranks, NEW t \in ranks
      PROVE  (Even(s, t, ranks) \/ Ahead(s, t, ranks) \/ Ahead(t, s, ranks))'
  BY <1>1 DEF Lockstep
<1>3. ASSUME NEW ranks \in ProcessGroup, NEW others \in ProcessGroup,
             NEW s \in ranks \cap others, NEW t \in ranks \cap others, Ahead(s, t, ranks)'
      PROVE  Ahead(s, t, others)'
  <2>1. Ahead(s, t, ranks)
    BY <1>1, <1>3
  <2>2. Ahead(s, t, others)
    BY <2>1 DEF Lockstep
  <2> QED
    BY <1>1, <2>2
<1>4. ProcessGroup' = ProcessGroup
  BY DEF ProcessGroup
<1> QED
  BY <1>2, <1>3, <1>4 DEF Lockstep

\* The next parameter is the earliest of those left.
LEMMA NextIsFirst ==
  ASSUME Types, HandedInOrder, NEW r \in Rank, NEW p \in Param, IsNext(r, p)
  PROVE  /\ p \in require_handle[r]
         /\ \A q \in require_handle[r] : q # p => Earlier(Using(r), p, q)
         /\ \A q \in Param \ require_handle[r] : Earlier(Using(r), q, p)
<1>1. require_handle[r] \subseteq Param /\ Param \subseteq Int
  BY DEF Types, Param
<1>2. p \in require_handle[r]
  BY DEF IsNext, Coming
<1>3. ASSUME NEW q \in require_handle[r], q # p
      PROVE  Earlier(Using(r), p, q)
  <2>1. CASE at_root[r]
    <3>1. p <= q /\ q \in Int /\ p \in Int
      BY <1>1, <1>2, <1>3, <2>1 DEF IsNext
    <3>2. q \notin Using(r) \ Shared
      BY <1>3, <2>1 DEF HandedInOrder
    <3> QED
      BY <1>3, <3>1, <3>2 DEF Earlier
  <2>2. CASE ~at_root[r]
    BY <1>1, <1>3, <2>2 DEF IsNext, Coming, Earlier, Using
  <2> QED
    BY <2>1, <2>2
<1>4. ASSUME NEW q \in Param \ require_handle[r]
      PROVE  Earlier(Using(r), q, p)
  <2>1. q # p /\ ~Earlier(Using(r), p, q)
    BY <1>2, <1>4 DEF HandedInOrder
  <2> QED
    BY <2>1, EarlierOrder
<1> QED
  BY <1>2, <1>3, <1>4

LEMMA MarkReadyInv ==
  ASSUME Inv, NEW r \in Rank, MarkReady(r)
  PROVE  Inv'
<1>1. launching[r] = <<>>
  BY DEF MarkReady
<1>2. PICK p \in Param :
        /\ IsNext(r, p)
        /\ ready' = [ready EXCEPT ![r][BucketOf[p]] = @ \cup {p}]
        /\ require_handle' = [require_handle EXCEPT ![r] = @ \ {p}]
        /\ launching' = [launching EXCEPT ![r] = IF GroupReady(BucketOf[p], ready'[r])
                                                 THEN GroupOf[BucketOf[p]] ELSE <<>>]
  BY DEF MarkReady
<1>3. UNCHANGED <<uses, pass, at_root, grad_reduce_queue, rs_stream>>
  BY DEF MarkReady
<1>4. \A s \in Rank : Using(s)' = Using(s)
  BY <1>3 DEF Using
<1> DEFINE o == BucketOf[p]
<1>5. /\ p \in require_handle[r]
      /\ \A q \in require_handle[r] : q # p => Earlier(Using(r), p, q)
      /\ \A q \in Param \ require_handle[r] : Earlier(Using(r), q, p)
  BY <1>2, NextIsFirst DEF Inv
<1>6. o \in Bucket /\ p \in Members(o) /\ p \in ParamsOf(o)
  BY OrderAssumption DEF Members, ParamsOf
<1>7. Types'
  BY <1>2, <1>3, <1>6 DEF Inv, Types
<1>8. /\ require_handle'[r] = require_handle[r] \ {p}
      /\ ready'[r][o] = ready[r][o] \cup {p}
      /\ \A c \in Bucket : c # o => ready'[r][c] = ready[r][c]
      /\ launching'[r] = IF GroupReady(o, ready'[r]) THEN GroupOf[o] ELSE <<>>
  BY <1>2, <1>6 DEF Inv, Types
<1>9. \A s \in Rank : s # r => /\ require_handle'[s] = require_handle[s]
                                /\ ready'[s] = ready[s] /\ launching'[s] = launching[s]
  BY <1>2 DEF Inv, Types
\* the group of p was not ready before, and is launched when it is
<1>10. ASSUME NEW b \in Bucket, GroupOf[b] = GroupOf[o]
       PROVE  /\ ~Launched(r, b)
              /\ ready'[r][b] = ParamsOf(b) \ require_handle'[r]
  <2>1. p \in Members(b)
    BY <1>6, <1>10, GroupMembers
  <2>2. ~Launched(r, b)
    BY <1>5, <2>1 DEF Launched, Marked
  <2>3. ready[r][b] = ParamsOf(b) \ require_handle[r]
    BY <2>2 DEF Inv, QueueSound
  <2>4. CASE b = o
    <3>1. ready'[r][b] = ready[r][b] \cup {p} /\ p \in ParamsOf(b)
      BY <1>6, <1>8, <2>4
    <3> QED
      BY <1>8, <2>2, <2>3, <3>1
  <2>5. CASE b # o
    <3>1. ready'[r][b] = ready[r][b] /\ p \notin ParamsOf(b)
      BY <1>8, <2>5 DEF ParamsOf
    <3> QED
      BY <1>8, <2>2, <2>3, <3>1
  <2> QED
    BY <2>2, <2>4, <2>5
<1>11. GroupReady(o, ready'[r]) <=> Members(o) \cap require_handle'[r] = {}
  <2>1. ASSUME GroupReady(o, ready'[r]), NEW q \in Members(o)
        PROVE  q \notin require_handle'[r]
    <3>1. BucketOf[q] \in Bucket /\ GroupOf[BucketOf[q]] = GroupOf[o] /\ q \in ParamsOf(BucketOf[q])
      BY OrderAssumption DEF Members, ParamsOf
    <3>2. ready'[r][BucketOf[q]] = ParamsOf(BucketOf[q])
      BY <1>6, <2>1, <3>1, InGroup DEF GroupReady
    <3> QED
      BY <1>10, <3>1, <3>2
  <2>2. ASSUME Members(o) \cap require_handle'[r] = {}, NEW c \in Range(GroupOf[o])
        PROVE  ready'[r][c] = ParamsOf(c)
    <3>1. c \in Bucket /\ GroupOf[c] = GroupOf[o]
      BY <1>6, InGroup
    <3>2. ParamsOf(c) \subseteq Members(o)
      BY <3>1 DEF ParamsOf, Members
    <3> QED
      BY <1>10, <2>2, <3>1, <3>2
  <2> QED
    BY <2>1, <2>2 DEF GroupReady
<1>12. ASSUME NEW s \in Rank, NEW b \in Bucket
       PROVE  Launched(s, b)' <=> Launched(s, b)
  <2>1. CASE s # r
    BY <1>9, <2>1 DEF Launched, Marked, Members
  <2>2. CASE s = r /\ GroupOf[b] # GroupOf[o]
    <3>1. p \notin Members(b)
      BY <1>6, <2>2, GroupMembers
    <3>2. launching'[r] # GroupOf[b] /\ launching[r] # GroupOf[b]
      BY <1>1, <1>8, <2>2, GroupHead
    <3>3. Members(b)' = Members(b)
      BY DEF Members
    <3> QED
      BY <1>8, <2>2, <3>1, <3>2, <3>3 DEF Launched, Marked
  <2>3. CASE s = r /\ GroupOf[b] = GroupOf[o]
    <3>1. ~Launched(r, b)
      BY <1>10, <2>3
    <3>2. Members(b)' = Members(o)
      BY <2>3 DEF Members
    <3>3. Marked(r, b)' => launching'[r] = GroupOf[b]
      BY <1>8, <1>11, <2>3, <3>2 DEF Marked
    <3> QED
      BY <2>3, <3>1, <3>3 DEF Launched
  <2> QED
    BY <2>1, <2>2, <2>3
<1>13. HandedInOrder'
  <2>1. ASSUME NEW s \in Rank
        PROVE  /\ at_root[s] => require_handle'[s] \cap (Using(s) \ Shared) = {}
               /\ \A q \in require_handle'[s], t \in Param :
                    Earlier(Using(s), q, t) => t \in require_handle'[s]
    <3>1. CASE s # r
      BY <1>9, <3>1 DEF Inv, HandedInOrder
    <3>2. CASE s = r
      <4>1. at_root[r] => require_handle'[r] \cap (Using(r) \ Shared) = {}
        BY <1>8 DEF Inv, HandedInOrder
      <4>2. ASSUME NEW q \in require_handle'[r], NEW t \in Param, Earlier(Using(r), q, t)
            PROVE  t \in require_handle'[r]
        <5>1. q \in require_handle[r] /\ q # p /\ t \in require_handle[r] /\ q \in Param
          BY <1>8, <4>2 DEF Inv, HandedInOrder, Types
        <5>2. Earlier(Using(r), p, q)
          BY <1>5, <5>1
        <5>3. t # p
          BY <4>2, <5>1, <5>2, EarlierOrder
        <5> QED
          BY <1>8, <5>1, <5>3
      <4> QED
        BY <3>2, <4>1, <4>2
    <3> QED
      BY <3>1, <3>2
  <2> QED
    BY <1>3, <1>4, <2>1 DEF HandedInOrder, Earlier, Before
<1>14. LaunchingLast'
  <2>1. ASSUME NEW s \in Rank, NEW b \in Bucket, launching'[s] = GroupOf[b]
        PROVE  /\ Members(b) \cap require_handle'[s] = {}
               /\ \E q \in Members(b) : \A t \in Param \ require_handle'[s] :
                    t # q => Earlier(Using(s), t, q)
    <3>1. CASE s # r
      BY <1>9, <2>1, <3>1 DEF Inv, LaunchingLast, Marked
    <3>2. CASE s = r
      <4>1. GroupReady(o, ready'[r]) /\ GroupOf[b] = GroupOf[o]
        BY <1>8, <2>1, <3>2, GroupHead
      <4>2. Members(b) = Members(o)
        BY <4>1, <1>6, GroupMembers
      <4>3. \A t \in Param \ require_handle'[r] : t # p => Earlier(Using(r), t, p)
        BY <1>5, <1>8
      <4> QED
        BY <1>6, <1>11, <3>2, <4>1, <4>2, <4>3
    <3> QED
      BY <3>1, <3>2
  <2> QED
    BY <1>4, <2>1 DEF LaunchingLast, Marked, Members, Earlier, Before
<1>15. QueueSound'
  <2>1. ASSUME NEW s \in Rank, NEW b \in Bucket
        PROVE  /\ ~Launched(s, b) => ready'[s][b] = ParamsOf(b) \ require_handle'[s]
               /\ Launched(s, b) /\ ~Queued(s, b) => ready'[s][b] = {}
    <3>1. CASE s # r
      BY <1>9, <3>1 DEF Inv, QueueSound
    <3>2. CASE s = r /\ GroupOf[b] = GroupOf[o]
      BY <1>10, <3>2
    <3>3. CASE s = r /\ GroupOf[b] # GroupOf[o]
      <4>1. p \notin ParamsOf(b) /\ b # o
        BY <3>3 DEF ParamsOf
      <4> QED
        BY <1>8, <3>3, <4>1 DEF Inv, QueueSound
    <3> QED
      BY <3>1, <3>2, <3>3
  <2>2. ASSUME NEW s \in Rank, NEW b \in Bucket
        PROVE  /\ Queued(s, b)' <=> Queued(s, b)
               /\ InStream(s, b)' <=> InStream(s, b)
    BY <1>3 DEF Queued, InStream
  <2> QED
    BY <1>12, <2>1, <2>2 DEF Inv, QueueSound, ParamsOf
<1>16. StreamSorted'
  BY <1>3, <1>4 DEF Inv, StreamSorted, GroupEarlier, Members, Earlier, Before
<1>17. Lockstep'
  <2>1. \A s \in Rank, b \in Bucket : Executed(s, b)' <=> Executed(s, b)
    BY <1>3, <1>12 DEF Executed, InStream
  <2> QED
    BY <1>3, <2>1, LockstepKept DEF Inv
<1> QED
  BY <1>7, <1>13, <1>14, <1>15, <1>16, <1>17 DEF Inv

LEMMA LaunchInv ==
  ASSUME Inv, NEW r \in Rank, Launch(r)
  PROVE  Inv'
<1>1. PICK o \in Bucket : launching[r] = GroupOf[o]
  BY DEF Launch, Inv, Types
<1>2. /\ launching' = [launching EXCEPT ![r] = <<>>]
      /\ rs_stream' = [rs_stream EXCEPT ![r] = Append(@, launching[r])]
      /\ grad_reduce_queue' = [grad_reduce_queue EXCEPT ![r] = @ \o launching[r]]
      /\ UNCHANGED <<uses, pass, at_root, require_handle, ready>>
  BY DEF Launch
<1>3. \A s \in Rank : Using(s)' = Using(s)
  BY <1>2 DEF Using
<1>4. \A s \in Rank : s # r => /\ launching'[s] = launching[s]
                                /\ rs_stream'[s] = rs_stream[s]
                                /\ grad_reduce_queue'[s] = grad_reduce_queue[s]
  BY <1>2 DEF Inv, Types
<1> DEFINE old == rs_stream[r]
<1>5. /\ launching'[r] = <<>>
      /\ rs_stream'[r] = Append(old, GroupOf[o])
      /\ grad_reduce_queue'[r] = grad_reduce_queue[r] \o GroupOf[o]
  BY <1>1, <1>2 DEF Inv, Types
<1>6. old \in Seq({GroupOf[b] : b \in Bucket}) /\ grad_reduce_queue[r] \in Seq(Bucket)
  BY DEF Inv, Types
<1>7. GroupOf[o] \in Seq(Bucket) /\ GroupOf[o] # <<>>
  BY GroupHead
<1>8. /\ rs_stream'[r] \in Seq({GroupOf[b] : b \in Bucket})
      /\ Len(old) \in Nat /\ Len(rs_stream'[r]) = Len(old) + 1
      /\ \A i \in 1 .. Len(old) : rs_stream'[r][i] = old[i]
      /\ rs_stream'[r][Len(old) + 1] = GroupOf[o]
  BY <1>5, <1>6, AppendProperties
<1>9. /\ grad_reduce_queue'[r] \in Seq(Bucket)
      /\ \A b \in Bucket : Queued(r, b)' <=> Queued(r, b) \/ GroupOf[b] = GroupOf[o]
  <2>1. Range(grad_reduce_queue'[r]) = Range(grad_reduce_queue[r]) \cup Range(GroupOf[o])
    BY <1>5, <1>6, <1>7, RangeConcatenation
  <2>2. \A b \in Bucket : b \in Range(GroupOf[o]) <=> GroupOf[b] = GroupOf[o]
    BY InGroup
  <2> QED
    BY <1>5, <1>6, <1>7, <2>1, <2>2, ConcatProperties DEF Queued
<1>10. Types'
  <2>1. /\ uses' \in [Pass -> Uses] /\ pass' \in [Rank -> Pass]
        /\ at_root' \in [Rank -> BOOLEAN] /\ require_handle' \in [Rank -> SUBSET Param]
        /\ ready' \in [Rank -> [Bucket -> SUBSET Param]]
        /\ launching' \in [Rank -> {<<>>} \cup {GroupOf[b] : b \in Bucket}]
    BY <1>2 DEF Inv, Types
  <2>2. rs_stream' \in [Rank -> Seq({GroupOf[b] : b \in Bucket})]
    BY <1>2, <1>5, <1>8 DEF Inv, Types
  <2>3. grad_reduce_queue' \in [Rank -> Seq(Bucket)]
    BY <1>2, <1>5, <1>9 DEF Inv, Types
  <2> QED
    BY <2>1, <2>2, <2>3 DEF Types
<1>11. ASSUME NEW s \in Rank, NEW b \in Bucket
       PROVE  Members(b)' = Members(b) /\ (Marked(s, b)' <=> Marked(s, b))
  BY <1>2 DEF Marked, Members
<1>12. ASSUME NEW s \in Rank, NEW b \in Bucket, s # r \/ GroupOf[b] # GroupOf[o]
       PROVE  /\ Launched(s, b)' <=> Launched(s, b)
              /\ InStream(s, b)' <=> InStream(s, b)
              /\ Queued(s, b)' <=> Queued(s, b)
  <2>1. CASE s # r
    BY <1>4, <1>11, <2>1 DEF Launched, InStream, Queued
  <2>2. CASE s = r /\ GroupOf[b] # GroupOf[o]
    <3>1. Launched(r, b)' <=> Launched(r, b)
      BY <1>1, <1>5, <1>11, <2>2, GroupHead DEF Launched
    <3>2. InStream(r, b)' <=> InStream(r, b)
      <4>1. \A i \in 1 .. Len(old) + 1 : rs_stream'[r][i] = GroupOf[b] => i \in 1 .. Len(old)
        BY <1>8, <2>2
      <4>2. \A i \in 1 .. Len(old) : i \in 1 .. Len(old) + 1
        BY <1>8
      <4> QED
        BY <1>8, <4>1, <4>2 DEF InStream
    <3> QED
      BY <1>9, <2>2, <3>1, <3>2
  <2> QED
    BY <1>12, <2>1, <2>2
<1>13. ASSUME NEW b \in Bucket, GroupOf[b] = GroupOf[o]
       PROVE  /\ ~Launched(r, b) /\ Launched(r, b)'
              /\ Queued(r, b)' /\ InStream(r, b)'
  <2>1. Marked(r, b)
    BY <1>1, <1>13 DEF Inv, LaunchingLast
  <2>2. ~Launched(r, b) /\ Launched(r, b)'
    BY <1>1, <1>5, <1>11, <1>13, <2>1, GroupHead DEF Launched
  <2>3. InStream(r, b)'
    <3>1. Len(old) + 1 \in 1 .. Len(rs_stream'[r])
      BY <1>8
    <3> QED
      BY <1>8, <1>13, <3>1 DEF InStream
  <2> QED
    BY <1>9, <1>13, <2>2, <2>3
<1>14. HandedInOrder'
  BY <1>2, <1>3 DEF Inv, HandedInOrder, Earlier, Before
<1>15. LaunchingLast'
  <2>1. ASSUME NEW s \in Rank, NEW b \in Bucket, launching'[s] = GroupOf[b]
        PROVE  launching[s] = GroupOf[b]
    BY <1>4, <1>5, <2>1, GroupHead
  <2> QED
    BY <1>2, <1>3, <2>1 DEF Inv, LaunchingLast, Marked, Members, Earlier, Before
<1>16. QueueSound'
  <2>1. ASSUME NEW s \in Rank, NEW b \in Bucket
        PROVE  /\ ~Launched(s, b)' => ready[s][b] = ParamsOf(b) \ require_handle[s]
               /\ Launched(s, b)' /\ ~Queued(s, b)' => ready[s][b] = {}
               /\ Queued(s, b)' => Launched(s, b)'
               /\ InStream(s, b)' => Queued(s, b)'
    <3>1. CASE s # r \/ GroupOf[b] # GroupOf[o]
      BY <1>12, <3>1 DEF Inv, QueueSound
    <3>2. CASE s = r /\ GroupOf[b] = GroupOf[o]
      BY <1>13, <3>2
    <3> QED
      BY <3>1, <3>2
  <2> QED
    BY <1>2, <2>1 DEF QueueSound, ParamsOf
\* what is in the stream was completed before the group that is launched
<1>17. StreamSorted'
  <2>1. ASSUME NEW i \in 1 .. Len(old), NEW b \in Bucket, old[i] = GroupOf[b],
               NEW c \in Bucket, GroupOf[c] = GroupOf[o]
        PROVE  GroupEarlier(Using(r), b, c)
    <3>1. InStream(r, b)
      BY <2>1 DEF InStream
    <3>2. Launched(r, b)
      BY <3>1 DEF Inv, QueueSound
    <3>3. Members(b) \subseteq Param \ require_handle[r] /\ GroupOf[b] # GroupOf[o]
      BY <1>1, <3>2, GroupMembers DEF Launched, Marked
    <3>4. PICK p \in Members(c) : \A q \in Param \ require_handle[r] :
                                    q # p => Earlier(Using(r), q, p)
      BY <1>1, <2>1 DEF Inv, LaunchingLast
    <3>5. p \notin Members(b)
      BY <2>1, <3>3, GroupMembers
    <3>6. \A q \in Members(b) : Earlier(Using(r), q, p)
      BY <3>3, <3>4, <3>5
    <3> QED
      BY <3>6 DEF GroupEarlier
  <2>2. ASSUME NEW s \in Rank, NEW i \in 1 .. Len(rs_stream'[s]), NEW j \in 1 .. Len(rs_stream'[s]),
               i < j, NEW b \in Bucket, NEW c \in Bucket,
               rs_stream'[s][i] = GroupOf[b], rs_stream'[s][j] = GroupOf[c]
        PROVE  GroupEarlier(Using(s), b, c)
    <3>1. CASE s # r
      BY <1>4, <2>2, <3>1 DEF Inv, StreamSorted
    <3>2. CASE s = r /\ j = Len(old) + 1
      <4>1. i \in 1 .. Len(old) /\ GroupOf[c] = GroupOf[o] /\ old[i] = GroupOf[b]
        BY <1>8, <2>2, <3>2
      <4> QED
        BY <2>1, <3>2, <4>1
    <3>3. CASE s = r /\ j # Len(old) + 1
      <4>1. i \in 1 .. Len(old) /\ j \in 1 .. Len(old) /\ old[i] = GroupOf[b] /\ old[j] = GroupOf[c]
        BY <1>8, <2>2, <3>3
      <4> QED
        BY <2>2, <3>3, <4>1 DEF Inv, StreamSorted
    <3> QED
      BY <3>1, <3>2, <3>3
  <2> QED
    BY <1>3, <2>2 DEF StreamSorted, GroupEarlier, Members, Earlier, Before
<1>18. Lockstep'
  <2>1. ASSUME NEW s \in Rank, NEW b \in Bucket
        PROVE  Executed(s, b)' <=> Executed(s, b)
    BY <1>12, <1>13 DEF Executed
  <2> QED
    BY <1>2, <2>1, LockstepKept DEF Inv
<1> QED
  BY <1>10, <1>14, <1>15, <1>16, <1>17, <1>18 DEF Inv

LEMMA RootPostBackwardInv ==
  ASSUME Inv, NEW r \in Rank, RootPostBackward(r)
  PROVE  Inv'
<1>1. /\ UNCHANGED <<uses, pass, require_handle, ready, launching, grad_reduce_queue, rs_stream>>
      /\ at_root' = [at_root EXCEPT ![r] = TRUE] /\ Coming(r) = {}
  BY DEF RootPostBackward
<1>2. \A s \in Rank : Using(s)' = Using(s)
  BY <1>1 DEF Using
<1>3. Types'
  BY <1>1 DEF Inv, Types
<1>4. HandedInOrder'
  <2>1. \A s \in Rank : at_root'[s] => require_handle[s] \cap (Using(s) \ Shared) = {}
    BY <1>1 DEF Inv, Types, HandedInOrder, Coming, Using
  <2> QED
    BY <1>1, <1>2, <2>1 DEF Inv, HandedInOrder, Earlier, Before
<1>5. LaunchingLast' /\ QueueSound'
  BY <1>1, <1>2 DEF Inv, LaunchingLast, Marked, Members, Earlier, Before, QueueSound,
                    Launched, Queued, InStream, ParamsOf
<1>6. StreamSorted'
  BY <1>1, <1>2 DEF Inv, StreamSorted, GroupEarlier, Members, Earlier, Before
<1>7. Lockstep'
  <2>1. \A s \in Rank, b \in Bucket : Executed(s, b)' <=> Executed(s, b)
    BY <1>1 DEF Executed, Launched, Marked, Members, InStream
  <2> QED
    BY <1>1, <2>1, LockstepKept DEF Inv
<1> QED
  BY <1>3, <1>4, <1>5, <1>6, <1>7 DEF Inv

LEMMA PopInv ==
  ASSUME Inv, NEW r \in Rank, Pop(r)
  PROVE  Inv'
<1> DEFINE o == Head(grad_reduce_queue[r])
<1>1. /\ UNCHANGED <<uses, pass, at_root, require_handle, launching, rs_stream>>
      /\ grad_reduce_queue[r] # <<>>
      /\ \A i \in 1 .. Len(rs_stream[r]) : o \notin Range(rs_stream[r][i])
      /\ ready' = [ready EXCEPT ![r][o] = {}]
      /\ grad_reduce_queue' = [grad_reduce_queue EXCEPT ![r] = Tail(@)]
  BY DEF Pop
<1>2. grad_reduce_queue[r] \in Seq(Bucket)
  BY DEF Inv, Types
<1>3. o \in Bucket /\ Tail(grad_reduce_queue[r]) \in Seq(Bucket)
  BY <1>1, <1>2, HeadTailProperties
<1>4. \A s \in Rank : Using(s)' = Using(s)
  BY <1>1 DEF Using
<1>5. Types'
  BY <1>1, <1>3 DEF Inv, Types
<1>6. HandedInOrder' /\ LaunchingLast'
  BY <1>1, <1>4 DEF Inv, HandedInOrder, LaunchingLast, Marked, Members, Earlier, Before
<1>7. StreamSorted'
  BY <1>1, <1>4 DEF Inv, StreamSorted, GroupEarlier, Members, Earlier, Before
<1>8. ASSUME NEW s \in Rank, NEW b \in Bucket
      PROVE  /\ Launched(s, b)' <=> Launched(s, b)
             /\ InStream(s, b)' <=> InStream(s, b)
  BY <1>1 DEF Launched, Marked, Members, InStream
<1>9. Queued(r, o) /\ Launched(r, o) /\ ~InStream(r, o)
  <2>1. Queued(r, o)
    BY <1>1, <1>2, HeadTailProperties DEF Queued, Range
  <2>2. Launched(r, o)
    BY <1>3, <2>1 DEF Inv, QueueSound
  <2>3. ~InStream(r, o)
    BY <1>1, <1>3, InGroup DEF InStream
  <2> QED
    BY <2>1, <2>2, <2>3
<1>10. ASSUME NEW s \in Rank, NEW b \in Bucket, s # r \/ b # o
       PROVE  /\ Queued(s, b)' <=> Queued(s, b)
              /\ ready'[s][b] = ready[s][b]
  <2>1. ready'[s][b] = ready[s][b]
    BY <1>1, <1>3, <1>10 DEF Inv, Types
  <2>2. CASE s # r
    BY <1>1, <2>2 DEF Queued, Inv, Types
  <2>3. CASE s = r /\ b # o
    <3> DEFINE q == grad_reduce_queue[r]
    <3>1. grad_reduce_queue'[r] = Tail(q)
      BY <1>1 DEF Inv, Types
    <3>2. /\ Len(Tail(q)) = Len(q) - 1 /\ Len(q) \in Nat
          /\ \A i \in 1 .. Len(Tail(q)) : Tail(q)[i] = q[i + 1]
          /\ DOMAIN q = 1 .. Len(q) /\ DOMAIN Tail(q) = 1 .. Len(Tail(q))
          /\ q[1] = o
      BY <1>1, <1>2, HeadTailProperties, LenProperties
    <3>3. \A i \in 1 .. Len(q) : q[i] = b => i - 1 \in 1 .. Len(q) - 1 /\ Tail(q)[i - 1] = b
      BY <2>3, <3>2
    <3>4. \A i \in 1 .. Len(q) - 1 : Tail(q)[i] = b => i + 1 \in 1 .. Len(q) /\ q[i + 1] = b
      BY <3>2
    <3> HIDE DEF q
    <3>5. /\ b \in Range(Tail(q)) <=> \E i \in 1 .. Len(q) - 1 : Tail(q)[i] = b
          /\ b \in Range(q) <=> \E i \in 1 .. Len(q) : q[i] = b
      BY <3>2 DEF Range
    <3>6. b \in Range(Tail(q)) <=> b \in Range(q)
      BY <3>3, <3>4, <3>5
    <3> QED
      BY <2>1, <2>3, <3>1, <3>6 DEF Queued, q
  <2> QED
    BY <1>10, <2>1, <2>2, <2>3
<1>11. QueueSound'
  <2>1. ready'[r][o] = {}
    BY <1>1, <1>3 DEF Inv, Types
  <2>2. ASSUME NEW s \in Rank, NEW b \in Bucket
        PROVE  /\ ~Launched(s, b) => ready'[s][b] = ParamsOf(b) \ require_handle[s]
               /\ Launched(s, b) /\ ~Queued(s, b)' => ready'[s][b] = {}
               /\ Queued(s, b)' => Launched(s, b)
               /\ InStream(s, b) => Queued(s, b)'
    <3>1. CASE s # r \/ b # o
      BY <1>10, <3>1 DEF Inv, QueueSound
    <3>2. CASE s = r /\ b = o
      BY <1>9, <2>1, <3>2
    <3> QED
      BY <3>1, <3>2
  <2> QED
    BY <1>1, <1>8, <2>2 DEF QueueSound, ParamsOf
<1>12. Lockstep'
  <2>1. \A s \in Rank, b \in Bucket : Executed(s, b)' <=> Executed(s, b)
    BY <1>8 DEF Executed
  <2> QED
    BY <1>1, <2>1, LockstepKept DEF Inv
<1> QED
  BY <1>5, <1>6, <1>7, <1>11, <1>12 DEF Inv

\* A rank that begins the next pass has executed everything.
LEMMA NextPassInv ==
  ASSUME Inv, NEW r \in Rank, NextPass(r)
  PROVE  Inv'
<1>1. /\ Draining(r) /\ grad_reduce_queue[r] = <<>>
      /\ UNCHANGED <<uses, ready, launching, grad_reduce_queue, rs_stream>>
      /\ pass' = [pass EXCEPT ![r] = (@ + 1) % NumPasses]
      /\ at_root' = [at_root EXCEPT ![r] = FALSE]
      /\ require_handle' = [require_handle EXCEPT ![r] = Param]
  BY DEF NextPass
<1>2. /\ pass'[r] = (pass[r] + 1) % NumPasses
      /\ at_root'[r] = FALSE /\ require_handle'[r] = Param
  BY <1>1 DEF Inv, Types
<1>3. \A s \in Rank : s # r => /\ pass'[s] = pass[s] /\ at_root'[s] = at_root[s]
                                /\ require_handle'[s] = require_handle[s]
                                /\ Using(s)' = Using(s)
  BY <1>1 DEF Inv, Types, Using
<1>4. require_handle[r] = {} /\ launching[r] = <<>>
  BY <1>1 DEF Draining
<1>5. ASSUME NEW b \in Bucket
      PROVE  /\ Executed(r, b) /\ ~Executed(r, b)' /\ ~Launched(r, b)'
             /\ ~Queued(r, b) /\ ready[r][b] = {} /\ ~InStream(r, b)
  <2>1. Launched(r, b)
    BY <1>4, GroupHead DEF Launched, Marked
  <2>2. ~Queued(r, b)
    BY <1>1 DEF Queued, Range
  <2>3. ~InStream(r, b) /\ ready[r][b] = {}
    BY <2>1, <2>2 DEF Inv, QueueSound
  <2>4. Members(b) # {} /\ Members(b) \subseteq Param /\ Members(b)' = Members(b)
    BY GroupMembers DEF Members
  <2>5. ~Launched(r, b)'
    BY <1>2, <2>4 DEF Launched, Marked
  <2> QED
    BY <2>1, <2>2, <2>3, <2>5 DEF Executed
<1>6. ASSUME NEW s \in Rank, s # r, NEW b \in Bucket
      PROVE  /\ Launched(s, b)' <=> Launched(s, b)
             /\ Executed(s, b)' <=> Executed(s, b)
  BY <1>1, <1>3, <1>6 DEF Executed, Launched, Marked, Members, InStream
<1>7. ASSUME NEW s \in Rank, NEW b \in Bucket
      PROVE  /\ InStream(s, b)' <=> InStream(s, b)
             /\ Queued(s, b)' <=> Queued(s, b)
  BY <1>1 DEF InStream, Queued
<1>8. Types'
  <2>1. pass' \in [Rank -> Pass]
    <3>1. pass[r] \in Pass
      BY DEF Inv, Types
    <3>2. (pass[r] + 1) % NumPasses \in Pass
      BY <3>1, OrderAssumption DEF Pass
    <3> QED
      BY <1>1, <3>2 DEF Inv, Types
  <2> QED
    BY <1>1, <2>1 DEF Inv, Types
<1>9. HandedInOrder'
  <2>1. ASSUME NEW s \in Rank
        PROVE  /\ at_root'[s] => require_handle'[s] \cap (Using(s)' \ Shared) = {}
               /\ \A p \in require_handle'[s], q \in Param :
                    Earlier(Using(s)', p, q) => q \in require_handle'[s]
    <3>1. CASE s = r
      BY <1>2, <3>1
    <3>2. CASE s # r
      BY <1>3, <3>2 DEF Inv, HandedInOrder
    <3> QED
      BY <3>1, <3>2
  <2> QED
    BY <2>1 DEF HandedInOrder, Earlier, Before
<1>10. LaunchingLast'
  <2>1. ASSUME NEW s \in Rank, NEW b \in Bucket, launching'[s] = GroupOf[b]
        PROVE  s # r
    BY <1>1, <1>4, <2>1, GroupHead
  <2>2. ASSUME NEW s \in Rank, NEW b \in Bucket, launching'[s] = GroupOf[b]
        PROVE  /\ Members(b) \cap require_handle'[s] = {}
               /\ \E p \in Members(b) : \A q \in Param \ require_handle'[s] :
                    q # p => Earlier(Using(s)', q, p)
    BY <1>1, <1>3, <2>1, <2>2 DEF Inv, LaunchingLast, Marked
  <2> QED
    BY <2>2 DEF LaunchingLast, Marked, Members, Earlier, Before
<1>11. QueueSound'
  <2>1. ASSUME NEW s \in Rank, NEW b \in Bucket
        PROVE  /\ ~Launched(s, b)' => ready[s][b] = ParamsOf(b) \ require_handle'[s]
               /\ Launched(s, b)' /\ ~Queued(s, b) => ready[s][b] = {}
               /\ Queued(s, b) => Launched(s, b)'
               /\ InStream(s, b) => Queued(s, b)
    <3>1. CASE s = r
      BY <1>2, <1>5, <3>1 DEF ParamsOf
    <3>2. CASE s # r
      BY <1>3, <1>6, <3>2 DEF Inv, QueueSound
    <3> QED
      BY <3>1, <3>2
  <2> QED
    BY <1>1, <1>7, <2>1 DEF QueueSound, ParamsOf
<1>12. StreamSorted'
  <2>1. ASSUME NEW s \in Rank, NEW i \in 1 .. Len(rs_stream[s]), NEW b \in Bucket,
               rs_stream[s][i] = GroupOf[b]
        PROVE  s # r
    BY <1>5, <2>1 DEF InStream
  <2>2. ASSUME NEW s \in Rank, NEW i \in 1 .. Len(rs_stream[s]), NEW j \in 1 .. Len(rs_stream[s]),
               i < j, NEW b \in Bucket, NEW c \in Bucket,
               rs_stream[s][i] = GroupOf[b], rs_stream[s][j] = GroupOf[c]
        PROVE  GroupEarlier(Using(s)', b, c)
    BY <1>3, <2>1, <2>2 DEF Inv, StreamSorted
  <2> QED
    BY <1>1, <2>2 DEF StreamSorted, GroupEarlier, Members, Earlier, Before
\* what the pairs of ranks become
<1>13. ASSUME NEW ranks \in ProcessGroup, NEW s \in ranks, NEW t \in ranks
       PROVE  /\ s \in Rank /\ t \in Rank
              /\ On(ranks) \subseteq Bucket /\ On(ranks) # {} /\ On(ranks)' = On(ranks)
  BY RanksOfGroup DEF On
<1>14. ASSUME NEW ranks \in ProcessGroup, NEW s \in ranks, NEW t \in ranks, s # r, t # r
       PROVE  /\ Even(s, t, ranks)' <=> Even(s, t, ranks)
              /\ Ahead(s, t, ranks)' <=> Ahead(s, t, ranks)
  BY <1>3, <1>6, <1>13, <1>14 DEF Even, Ahead
<1>15. ASSUME NEW ranks \in ProcessGroup, NEW s \in ranks, r \in ranks, s # r
       PROVE  /\ ~Ahead(r, s, ranks) /\ ~Ahead(s, r, ranks)'
              /\ Even(r, s, ranks) => Ahead(r, s, ranks)'
              /\ Ahead(s, r, ranks) => Even(r, s, ranks)' /\ Even(s, r, ranks)'
              /\ Ahead(r, s, ranks)' => ~Ahead(s, r, ranks)
  <2>1. s \in Rank /\ On(ranks) \subseteq Bucket /\ On(ranks) # {} /\ On(ranks)' = On(ranks)
    BY <1>13, <1>15
  <2>2. \A b \in On(ranks) : Executed(r, b) /\ ~Executed(r, b)'
    BY <1>5, <2>1
  <2>3. \A b \in On(ranks) : Executed(s, b)' <=> Executed(s, b)
    BY <1>6, <1>15, <2>1
  <2>4. pass'[r] = (pass[r] + 1) % NumPasses /\ pass'[s] = pass[s]
    BY <1>2, <1>3, <1>15, <2>1
  <2> QED
    BY <2>1, <2>2, <2>3, <2>4 DEF Even, Ahead
<1>16. Lockstep'
  <2>1. ASSUME NEW ranks \in ProcessGroup, NEW s \in ranks, NEW t \in ranks
        PROVE  (Even(s, t, ranks) \/ Ahead(s, t, ranks) \/ Ahead(t, s, ranks))'
    <3>1. Even(s, t, ranks) \/ Ahead(s, t, ranks) \/ Ahead(t, s, ranks)
      BY DEF Inv, Lockstep
    <3>2. CASE s = t
      BY <3>2 DEF Even
    <3>3. CASE s # r /\ t # r
      BY <1>14, <3>1, <3>3
    <3>4. CASE s = r /\ t # r
      BY <1>15, <3>1, <3>4
    <3>5. CASE s # r /\ t = r
      <4>1. Even(s, r, ranks) => Even(r, s, ranks)
        BY DEF Even
      <4> QED
        BY <1>15, <3>1, <3>5, <4>1
    <3> QED
      BY <3>2, <3>3, <3>4, <3>5
  <2>2. ASSUME NEW ranks \in ProcessGroup, NEW others \in ProcessGroup,
               NEW s \in ranks \cap others, NEW t \in ranks \cap others, Ahead(s, t, ranks)'
        PROVE  Ahead(s, t, others)'
    <3>1. CASE s # r /\ t # r
      <4>1. Ahead(s, t, ranks)
        BY <1>14, <2>2, <3>1
      <4>2. Ahead(s, t, others)
        BY <4>1 DEF Inv, Lockstep
      <4> QED
        BY <1>14, <3>1, <4>2
    <3>2. CASE s = r /\ t # r
      <4>1. ~Ahead(t, r, ranks)
        BY <1>15, <2>2, <3>2
      <4>2. ~Ahead(t, r, others)
        BY <3>2, <4>1 DEF Inv, Lockstep
      <4>3. Even(r, t, others)
        BY <1>15, <3>2, <4>2 DEF Inv, Lockstep
      <4> QED
        BY <1>15, <3>2, <4>3
    <3>3. CASE t = r
      <4>1. PICK b \in On(ranks) : b \in Bucket
        BY <1>13
      <4>2. Executed(r, b)'
        BY <1>13, <2>2, <3>3, <4>1 DEF Ahead
      <4> QED
        BY <1>5, <4>1, <4>2
    <3> QED
      BY <3>1, <3>2, <3>3
  <2>3. ProcessGroup' = ProcessGroup
    BY DEF ProcessGroup
  <2> QED
    BY <2>1, <2>2, <2>3 DEF Lockstep
<1> QED
  BY <1>8, <1>9, <1>10, <1>11, <1>12, <1>16 DEF Inv

\* A collective takes the ranks of one of its process groups on together.
LEMMA CollectiveInv ==
  ASSUME Inv, NEW o \in Bucket, NEW ranks \in ProcessGroups[o], Collective(ranks, GroupOf[o])
  PROVE  Inv'
<1>1. /\ UNCHANGED <<uses, pass, at_root, require_handle, ready, launching, grad_reduce_queue>>
      /\ \A r \in ranks : rs_stream[r] # <<>> /\ Head(rs_stream[r]) = GroupOf[o]
      /\ rs_stream' = [r \in Rank |-> IF r \in ranks THEN Tail(rs_stream[r]) ELSE rs_stream[r]]
  BY DEF Collective, AtHead
<1>2. ranks \in ProcessGroup /\ ranks \subseteq Rank /\ o \in On(ranks)
  BY RanksOfGroup DEF ProcessGroup, On
<1>3. \A r \in Rank : Using(r)' = Using(r)
  BY <1>1 DEF Using
<1>4. \A r \in Rank : r \notin ranks => rs_stream'[r] = rs_stream[r]
  BY <1>1
<1> DEFINE Groups == {GroupOf[b] : b \in Bucket}
<1>a. ASSUME NEW r \in ranks
      PROVE  rs_stream'[r] = Tail(rs_stream[r]) /\ rs_stream[r] \in Seq(Groups)
  BY <1>1, <1>2 DEF Inv, Types
<1> HIDE DEF Groups
<1>b. ASSUME NEW r \in ranks
      PROVE  rs_stream'[r] \in Seq(Groups)
  BY <1>1, <1>a, HeadTailProperties
<1>5. ASSUME NEW r \in ranks
      PROVE  /\ Len(rs_stream[r]) \in Nat /\ Len(rs_stream[r]) > 0
             /\ Len(rs_stream'[r]) = Len(rs_stream[r]) - 1
             /\ rs_stream[r][1] = GroupOf[o]
             /\ \A i \in 1 .. Len(rs_stream[r]) - 1 : rs_stream'[r][i] = rs_stream[r][i + 1]
  <2>1. Len(rs_stream[r]) \in Nat /\ Len(rs_stream[r]) > 0
    BY <1>1, <1>a, EmptySeq
  <2>2. Head(rs_stream[r]) = rs_stream[r][1]
    BY <1>1, <1>a
  <2>3. /\ Len(Tail(rs_stream[r])) = Len(rs_stream[r]) - 1
        /\ \A i \in 1 .. Len(Tail(rs_stream[r])) : Tail(rs_stream[r])[i] = rs_stream[r][i + 1]
    BY <1>1, <1>a, HeadTailProperties
  <2> QED
    BY <1>1, <1>a, <2>1, <2>2, <2>3
<1>6. Types'
  <2>1. rs_stream' \in [Rank -> Seq(Groups)]
    BY <1>1, <1>4, <1>b DEF Inv, Types, Groups
  <2> QED
    BY <1>1, <2>1 DEF Inv, Types, Groups
<1>7. HandedInOrder' /\ LaunchingLast'
  BY <1>1, <1>3 DEF Inv, HandedInOrder, LaunchingLast, Marked, Members, Earlier, Before
<1>8. ASSUME NEW r \in Rank, NEW b \in Bucket
      PROVE  /\ Launched(r, b)' <=> Launched(r, b)
             /\ Queued(r, b)' <=> Queued(r, b)
  BY <1>1 DEF Launched, Marked, Members, Queued
<1>9. ASSUME NEW r \in Rank, NEW b \in Bucket
      PROVE  InStream(r, b)' <=> InStream(r, b) /\ ~(r \in ranks /\ GroupOf[b] = GroupOf[o])
  <2>1. CASE r \notin ranks
    BY <1>4, <2>1 DEF InStream
  <2>2. CASE r \in ranks /\ GroupOf[b] = GroupOf[o]
    <3>1. ASSUME NEW i \in 1 .. Len(rs_stream'[r]), rs_stream'[r][i] = GroupOf[b]
          PROVE  FALSE
      <4>1. rs_stream[r][i + 1] = GroupOf[o] /\ i + 1 \in 1 .. Len(rs_stream[r]) /\ 1 < i + 1
        BY <1>5, <2>2, <3>1
      <4>2. GroupEarlier(Using(r), o, o)
        BY <1>5, <2>2, <4>1 DEF Inv, StreamSorted
      <4> QED
        BY <4>2, GroupEarlierOrder
    <3> QED
      BY <2>2, <3>1 DEF InStream
  <2>3. CASE r \in ranks /\ GroupOf[b] # GroupOf[o]
    <3>1. \A i \in 1 .. Len(rs_stream[r]) : rs_stream[r][i] = GroupOf[b] =>
            i - 1 \in 1 .. Len(rs_stream'[r]) /\ rs_stream'[r][i - 1] = GroupOf[b]
      BY <1>5, <2>3
    <3>2. \A i \in 1 .. Len(rs_stream'[r]) : rs_stream'[r][i] = GroupOf[b] =>
            i + 1 \in 1 .. Len(rs_stream[r]) /\ rs_stream[r][i + 1] = GroupOf[b]
      BY <1>5, <2>3
    <3> QED
      BY <2>3, <3>1, <3>2 DEF InStream
  <2> QED
    BY <2>1, <2>2, <2>3
<1>10. QueueSound'
  BY <1>1, <1>8, <1>9 DEF Inv, QueueSound, ParamsOf
<1>11. StreamSorted'
  <2>1. ASSUME NEW r \in Rank, NEW i \in 1 .. Len(rs_stream'[r]), NEW j \in 1 .. Len(rs_stream'[r]),
               i < j, NEW b \in Bucket, NEW c \in Bucket,
               rs_stream'[r][i] = GroupOf[b], rs_stream'[r][j] = GroupOf[c]
        PROVE  GroupEarlier(Using(r), b, c)
    <3>1. CASE r \notin ranks
      BY <1>4, <2>1, <3>1 DEF Inv, StreamSorted
    <3>2. CASE r \in ranks
      <4>1. /\ i + 1 \in 1 .. Len(rs_stream[r]) /\ j + 1 \in 1 .. Len(rs_stream[r]) /\ i + 1 < j + 1
            /\ rs_stream[r][i + 1] = GroupOf[b] /\ rs_stream[r][j + 1] = GroupOf[c]
        BY <1>5, <2>1, <3>2
      <4> QED
        BY <4>1 DEF Inv, StreamSorted
    <3> QED
      BY <3>1, <3>2
  <2> QED
    BY <1>3, <2>1 DEF StreamSorted, GroupEarlier, Members, Earlier, Before
<1>12. ASSUME NEW r \in Rank, NEW b \in Bucket
       PROVE  Executed(r, b)' <=> Executed(r, b) \/ (r \in ranks /\ GroupOf[b] = GroupOf[o])
  <2>1. CASE r \in ranks /\ GroupOf[b] = GroupOf[o]
    <3>1. InStream(r, b)
      BY <1>5, <2>1 DEF InStream
    <3>2. Launched(r, b)
      BY <3>1 DEF Inv, QueueSound
    <3> QED
      BY <1>8, <1>9, <2>1, <3>2 DEF Executed
  <2>2. CASE ~(r \in ranks /\ GroupOf[b] = GroupOf[o])
    BY <1>8, <1>9, <2>2 DEF Executed
  <2> QED
    BY <2>1, <2>2
<1>13. \A r \in ranks : ~Executed(r, o)
  BY <1>2, <1>5 DEF Executed, InStream
\* process groups of other buckets and of other ranks see no change
<1>14. ASSUME NEW others \in ProcessGroup, others # ranks, NEW r \in others, NEW b \in On(others)
       PROVE  Executed(r, b)' <=> Executed(r, b)
  <2>1. r \in Rank /\ b \in Bucket /\ others \in ProcessGroups[b]
    BY RanksOfGroup DEF On
  <2>2. GroupOf[b] = GroupOf[o] => r \notin ranks
    <3>1. GroupOf[b] = GroupOf[o] => ProcessGroups[b] = ProcessGroups[o]
      BY <2>1, GroupMembers
    <3> QED
      BY <1>14, <2>1, <3>1, OrderAssumption
  <2> QED
    BY <1>12, <2>1, <2>2
<1>15. ASSUME NEW others \in ProcessGroup, others # ranks, NEW r \in others, NEW s \in others
       PROVE  /\ Even(r, s, others)' <=> Even(r, s, others)
              /\ Ahead(r, s, others)' <=> Ahead(r, s, others)
  BY <1>1, <1>14, <1>15 DEF Even, Ahead, On
<1>16. ASSUME NEW r \in ranks, NEW s \in ranks
       PROVE  ~Ahead(r, s, ranks) /\ ~Ahead(r, s, ranks)' /\ Even(r, s, ranks)'
  <2>1. ~Ahead(r, s, ranks)
    BY <1>2, <1>13 DEF Ahead
  <2>2. ~Ahead(s, r, ranks)
    BY <1>2, <1>13 DEF Ahead
  <2>3. Even(r, s, ranks)
    BY <1>2, <2>1, <2>2 DEF Inv, Lockstep
  <2>4. On(ranks)' = On(ranks) /\ r \in Rank /\ s \in Rank
    BY <1>2 DEF On
  <2>5. Even(r, s, ranks)'
    BY <1>1, <1>12, <2>3, <2>4 DEF Even, On
  <2>6. Executed(r, o)'
    BY <1>12, <2>4
  <2>7. ~Ahead(r, s, ranks)'
    BY <1>2, <2>4, <2>6 DEF Ahead
  <2> QED
    BY <2>1, <2>5, <2>7
<1>17. Lockstep'
  <2>1. ASSUME NEW others \in ProcessGroup, NEW r \in others, NEW s \in others
        PROVE  (Even(r, s, others) \/ Ahead(r, s, others) \/ Ahead(s, r, others))'
    <3>1. CASE others = ranks
      BY <1>16, <3>1
    <3>2. CASE others # ranks
      BY <1>15, <3>2 DEF Inv, Lockstep
    <3> QED
      BY <3>1, <3>2
  <2>2. ASSUME NEW some \in ProcessGroup, NEW others \in ProcessGroup,
               NEW r \in some \cap others, NEW s \in some \cap others, Ahead(r, s, some)'
        PROVE  Ahead(r, s, others)'
    <3>1. some # ranks /\ Ahead(r, s, some)
      BY <1>15, <1>16, <2>2
    <3>2. Ahead(r, s, others)
      BY <3>1 DEF Inv, Lockstep
    <3>3. others # ranks
      BY <1>16, <3>2
    <3> QED
      BY <1>15, <3>2, <3>3
  <2>3. ProcessGroup' = ProcessGroup
    BY DEF ProcessGroup
  <2> QED
    BY <2>1, <2>2, <2>3 DEF Lockstep
<1> QED
  BY <1>6, <1>7, <1>10, <1>11, <1>17 DEF Inv

LEMMA InitInv == Init => Inv
<1> SUFFICES ASSUME Init
             PROVE  Inv
  OBVIOUS
<1>1. Types
  BY OrderAssumption DEF Init, Types, Pass
<1>2. ASSUME NEW r \in Rank, NEW b \in Bucket
      PROVE  /\ launching[r] = <<>> /\ launching[r] # GroupOf[b]
             /\ rs_stream[r] = <<>> /\ require_handle[r] = Param /\ ready[r][b] = {}
             /\ ~Launched(r, b) /\ ~InStream(r, b) /\ ~Queued(r, b)
  BY GroupMembers, GroupHead DEF Init, Launched, Marked, InStream, Queued, Range
<1>3. HandedInOrder /\ LaunchingLast /\ StreamSorted
  BY <1>2 DEF Init, HandedInOrder, LaunchingLast, StreamSorted
<1>4. QueueSound
  BY <1>2 DEF QueueSound, ParamsOf
<1>5. ASSUME NEW ranks \in ProcessGroup, NEW r \in ranks, NEW s \in ranks
      PROVE  Even(r, s, ranks) /\ ~Ahead(r, s, ranks)
  <2>1. r \in Rank /\ s \in Rank /\ On(ranks) \subseteq Bucket /\ On(ranks) # {}
    BY RanksOfGroup
  <2>2. pass[r] = pass[s]
    BY <2>1 DEF Init
  <2> QED
    BY <1>2, <2>1, <2>2 DEF Even, Ahead, Executed
<1> QED
  BY <1>1, <1>3, <1>4, <1>5 DEF Inv, Lockstep

LEMMA NextInv == Inv /\ [Next]_vars => Inv'
<1> SUFFICES ASSUME Inv, [Next]_vars
             PROVE  Inv'
  OBVIOUS
<1>1. CASE \E r \in Rank : MarkReady(r) \/ Launch(r) \/ RootPostBackward(r) \/ Pop(r) \/ NextPass(r)
  BY <1>1, MarkReadyInv, LaunchInv, RootPostBackwardInv, PopInv, NextPassInv
<1>2. CASE \E b \in Bucket : \E ranks \in ProcessGroups[b] : Collective(ranks, GroupOf[b])
  BY <1>2, CollectiveInv
<1>3. CASE UNCHANGED vars
  <2>1. UNCHANGED <<uses, pass, at_root, require_handle, ready, launching, grad_reduce_queue, rs_stream>>
    BY <1>3 DEF vars
  <2>2. \A r \in Rank : Using(r)' = Using(r)
    BY <2>1 DEF Using
  <2>3. Types'
    BY <2>1 DEF Inv, Types
  <2>4. HandedInOrder' /\ LaunchingLast'
    BY <2>1, <2>2 DEF Inv, HandedInOrder, LaunchingLast, Marked, Members, Earlier, Before
  <2>5. StreamSorted'
    BY <2>1, <2>2 DEF Inv, StreamSorted, GroupEarlier, Members, Earlier, Before
  <2>6. QueueSound'
    BY <2>1 DEF Inv, QueueSound, Launched, Marked, Members, InStream, Queued, ParamsOf
  <2>7. \A r \in Rank, b \in Bucket : Executed(r, b)' <=> Executed(r, b)
    BY <2>1 DEF Executed, Launched, Marked, Members, InStream
  <2>8. Lockstep'
    BY <2>1, <2>7, LockstepKept DEF Inv
  <2> QED
    BY <2>3, <2>4, <2>5, <2>6, <2>8 DEF Inv
<1> QED
  BY <1>1, <1>2, <1>3 DEF Next

\* The ranks hand over, launch and execute as Inv says, whatever they use.
THEOREM Invariance == Spec => []Inv
<1>1. Init => Inv
  BY InitInv
<1>2. Inv /\ [Next]_vars => Inv'
  BY NextInv
<1> QED
  BY <1>1, <1>2, PTL DEF Spec

----------------------------------------------------------------------------
(* The order of the launches.                                              *)

LEMMA GroupOn ==
  ASSUME Types, NEW r \in Rank, NEW i \in 1 .. Len(rs_stream[r])
  PROVE  \E b \in Bucket :
           /\ rs_stream[r][i] = GroupOf[b] /\ InStream(r, b)
           /\ ProcessGroups[rs_stream[r][i][1]] = ProcessGroups[b]
<1>1. rs_stream[r] \in Seq({GroupOf[b] : b \in Bucket})
  BY DEF Types
<1>2. PICK b \in Bucket : rs_stream[r][i] = GroupOf[b]
  BY <1>1
<1> QED
  BY <1>2, GroupHead DEF InStream

LEMMA OneOrderOfRanks ==
  ASSUME AgreedUses, Types, NEW r \in Rank, NEW s \in Rank, pass[r] = pass[s],
         NEW b \in Bucket, NEW c \in Bucket, GroupOf[b] # GroupOf[c],
         GroupEarlier(Using(r), b, c)
  PROVE  GroupEarlier(Using(s), b, c)
<1>1. uses[pass[r]] \in Uses
  BY DEF Types
<1>2. LeftToRoot(Using(r)) = LeftToRoot(Using(s))
  BY <1>1 DEF AgreedUses, Using
<1> QED
  BY <1>2, OneOrder

\* What a rank has not executed comes after what it has launched.
LEMMA NotExecutedYet ==
  ASSUME Inv, NEW r \in Rank, NEW b \in Bucket, NEW c \in Bucket, GroupOf[b] # GroupOf[c],
         InStream(r, b), ~Executed(r, c)
  PROVE  InStream(r, c) \/ GroupEarlier(Using(r), b, c)
<1>1. Members(b) \subseteq Param /\ Members(b) \cap Members(c) = {} /\ Members(c) \subseteq Param
  BY GroupMembers
<1>2. Members(b) \subseteq Param \ require_handle[r]
  BY <1>1 DEF Inv, QueueSound, Launched, Marked
<1>3. CASE Launched(r, c)
  BY <1>3 DEF Executed
<1>4. CASE ~Marked(r, c)
  <2>1. PICK q \in Members(c) : q \in require_handle[r]
    BY <1>4 DEF Marked
  <2>2. ASSUME NEW p \in Members(b)
        PROVE  Earlier(Using(r), p, q)
    <3>1. p # q /\ ~Earlier(Using(r), q, p)
      BY <1>1, <1>2, <2>1 DEF Inv, HandedInOrder
    <3> QED
      BY <1>1, <3>1, EarlierOrder
  <2> QED
    BY <2>2 DEF GroupEarlier
<1>5. CASE launching[r] = GroupOf[c]
  <2>1. PICK q \in Members(c) : \A p \in Param \ require_handle[r] :
                                  p # q => Earlier(Using(r), p, q)
    BY <1>5 DEF Inv, LaunchingLast
  <2>2. \A p \in Members(b) : Earlier(Using(r), p, q)
    BY <1>1, <1>2, <2>1
  <2> QED
    BY <2>2 DEF GroupEarlier
<1> QED
  BY <1>3, <1>4, <1>5 DEF Launched

LEMMA PendingOrder ==
  ASSUME Inv, NEW ranks \in ProcessGroup, NEW r \in ranks, NEW s \in ranks,
         NEW i \in 1 .. Len(rs_stream[r]), NEW j \in 1 .. Len(rs_stream[s]),
         IsOn(r, i, ranks), IsOn(s, j, ranks),
         PendingBefore(r, i, ranks) = PendingBefore(s, j, ranks),
         NEW b \in Bucket, NEW c \in Bucket, GroupOf[b] # GroupOf[c],
         rs_stream[r][i] = GroupOf[b], rs_stream[s][j] = GroupOf[c]
  PROVE  pass[r] = pass[s] /\ GroupEarlier(Using(s), c, b)
<1>1. r \in Rank /\ s \in Rank
  BY RanksOfGroup
<1>2. InStream(r, b) /\ InStream(s, c)
  BY DEF InStream
<1>3. b \in On(ranks) /\ c \in On(ranks)
  BY GroupHead DEF IsOn, On
<1>4. ~Executed(r, b) /\ ~Executed(s, c)
  BY <1>2 DEF Executed
<1>5. Even(r, s, ranks)
  BY <1>3, <1>4 DEF Inv, Lockstep, Ahead
<1>6. ~Executed(s, b) /\ pass[r] = pass[s]
  BY <1>3, <1>4, <1>5 DEF Even
<1>7. ASSUME NEW k \in 1 .. Len(rs_stream[s]), rs_stream[s][k] = GroupOf[b]
      PROVE  GroupEarlier(Using(s), c, b)
  <2>1. Len(rs_stream[s]) \in Nat /\ Len(rs_stream[r]) \in Nat
    BY <1>1 DEF Inv, Types
  <2>2. k # j
    BY <1>7
  <2>3. ~(k < j)
    <3>1. SUFFICES ASSUME k < j
                   PROVE  FALSE
      OBVIOUS
    <3>2. ranks \in ProcessGroups[rs_stream[s][k][1]]
      BY <1>3, <1>7, GroupHead DEF On
    <3>3. k \in 1 .. j - 1
      BY <2>1, <3>1
    <3>4. GroupOf[b] \in PendingBefore(s, j, ranks)
      BY <1>7, <3>2, <3>3 DEF PendingBefore, IsOn
    <3>5. PICK m \in 1 .. i - 1 : rs_stream[r][m] = GroupOf[b]
      BY <3>4 DEF PendingBefore
    <3>6. m \in 1 .. Len(rs_stream[r]) /\ m < i
      BY <2>1
    <3>7. GroupEarlier(Using(r), b, b)
      BY <1>1, <3>5, <3>6 DEF Inv, StreamSorted
    <3> QED
      BY <3>7, GroupEarlierOrder
  <2>4. j < k
    BY <2>1, <2>2, <2>3
  <2> QED
    BY <1>1, <1>7, <2>4 DEF Inv, StreamSorted
<1>8. CASE InStream(s, b)
  BY <1>6, <1>7, <1>8 DEF InStream
<1> QED
  BY <1>1, <1>2, <1>6, <1>8, NotExecutedYet

\* The ranks of a process group launch its collectives in one order, if all
\* leave parameters of the same buckets to the root hook.
THEOREM LaunchOrder ==
  ASSUME AgreedUses
  PROVE  Spec => []SameOrder
<1>1. Inv => SameOrder
  <2> SUFFICES ASSUME Inv, NEW ranks \in ProcessGroup, NEW r \in ranks, NEW s \in ranks,
                      NEW i \in 1 .. Len(rs_stream[r]), NEW j \in 1 .. Len(rs_stream[s]),
                      IsOn(r, i, ranks), IsOn(s, j, ranks),
                      PendingBefore(r, i, ranks) = PendingBefore(s, j, ranks),
                      rs_stream[r][i] # rs_stream[s][j]
               PROVE  FALSE
    BY DEF SameOrder
  <2>1. r \in Rank /\ s \in Rank
    BY RanksOfGroup
  <2>2. PICK b \in Bucket : rs_stream[r][i] = GroupOf[b]
    BY <2>1, GroupOn DEF Inv
  <2>3. PICK c \in Bucket : rs_stream[s][j] = GroupOf[c]
    BY <2>1, GroupOn DEF Inv
  <2>4. pass[r] = pass[s] /\ GroupEarlier(Using(s), c, b)
    BY <2>2, <2>3, PendingOrder
  <2>5. GroupEarlier(Using(r), b, c)
    BY <2>2, <2>3, PendingOrder
  <2>6. GroupEarlier(Using(s), b, c)
    BY <2>1, <2>2, <2>3, <2>4, <2>5, OneOrderOfRanks DEF Inv
  <2> QED
    BY <2>4, <2>6, GroupEarlierOrder
<1> QED
  BY <1>1, Invariance, PTL

----------------------------------------------------------------------------
(* Waiting.                                                                *)

LEMMA EarliestGroup ==
  ASSUME NEW used, NEW chosen, chosen \subseteq Bucket, chosen # {}
  PROVE  \E b \in chosen : \A c \in chosen : ~GroupEarlier(used, c, b)
<1> DEFINE below(b) == {c \in Bucket : GroupEarlier(used, c, b)}
           lower == {below(b) : b \in chosen}
<1>1. IsWellFoundedOn(StrictSubsetOrdering(Bucket), FiniteSubsetsOf(Bucket))
  BY FS_StrictSubsetOrderingWellFounded
<1>2. lower \subseteq FiniteSubsetsOf(Bucket) /\ lower # {}
  <2>1. NumBuckets - 1 \in Int
    BY OrderAssumption
  <2>2. IsFiniteSet(Bucket)
    BY <2>1, FS_Interval DEF Bucket
  <2>3. ASSUME NEW b \in chosen
        PROVE  below(b) \in SUBSET Bucket /\ IsFiniteSet(below(b))
    BY <2>2, FS_Subset
  <2> HIDE DEF below
  <2> QED
    BY <2>3 DEF FiniteSubsetsOf
<1>3. PICK low \in lower : \A set \in lower : <<set, low>> \notin StrictSubsetOrdering(Bucket)
  BY <1>1, <1>2, WFMin
<1>4. PICK b \in chosen : low = below(b)
  OBVIOUS
<1>5. ASSUME NEW c \in chosen, GroupEarlier(used, c, b)
      PROVE  FALSE
  <2>1. below(c) \subseteq below(b) /\ c \in below(b) /\ c \notin below(c)
    BY <1>5, GroupEarlierOrder
  <2>2. below(c) \in lower /\ below(c) \in SUBSET Bucket /\ below(b) \in SUBSET Bucket
    OBVIOUS
  <2> HIDE DEF below
  <2>3. <<below(c), below(b)>> \in StrictSubsetOrdering(Bucket)
    BY <2>1, <2>2 DEF StrictSubsetOrdering
  <2> QED
    BY <1>3, <1>4, <2>2, <2>3
<1> QED
  BY <1>5

\* The group a rank has at the head of its stream.
HeadIs(r, b) == rs_stream[r] # <<>> /\ rs_stream[r][1] = GroupOf[b]

LEMMA HeadIsFirst ==
  ASSUME Inv, NEW r \in Rank, NEW b \in Bucket, NEW c \in Bucket, GroupOf[b] # GroupOf[c],
         HeadIs(r, b), ~Executed(r, c)
  PROVE  GroupEarlier(Using(r), b, c)
<1>1. Len(rs_stream[r]) \in Nat /\ 1 \in 1 .. Len(rs_stream[r])
  BY EmptySeq DEF Inv, Types, HeadIs
<1>2. InStream(r, b)
  BY <1>1 DEF HeadIs, InStream
<1>3. CASE InStream(r, c)
  <2>1. PICK k \in 1 .. Len(rs_stream[r]) : rs_stream[r][k] = GroupOf[c]
    BY <1>3 DEF InStream
  <2>2. 1 < k
    BY <1>1, <2>1 DEF HeadIs
  <2> QED
    BY <1>1, <2>1, <2>2 DEF Inv, StreamSorted, HeadIs
<1> QED
  BY <1>2, <1>3, NotExecutedYet

\* A rank waits for one that is behind a pass, or whose next collective comes earlier.
LEMMA WaitsForEarlier ==
  ASSUME AgreedUses, Inv, NEW r \in Rank, NEW s \in Rank, WaitsFor(r, s), rs_stream[s] # <<>>
  PROVE  \E ranks \in ProcessGroup :
           /\ r \in ranks /\ s \in ranks
           /\ \/ Ahead(r, s, ranks)
              \/ /\ Even(r, s, ranks)
                 /\ \A b, c \in Bucket : HeadIs(r, b) /\ HeadIs(s, c)
                                           => GroupEarlier(Using(r), c, b)
<1>1. /\ Len(rs_stream[r]) \in Nat /\ 1 \in 1 .. Len(rs_stream[r])
      /\ Head(rs_stream[r]) = rs_stream[r][1] /\ Head(rs_stream[s]) = rs_stream[s][1]
  BY EmptySeq DEF Inv, Types, WaitsFor
<1>2. PICK o \in Bucket : /\ rs_stream[r][1] = GroupOf[o] /\ InStream(r, o)
                           /\ ProcessGroups[rs_stream[r][1][1]] = ProcessGroups[o]
  BY <1>1, GroupOn DEF Inv
<1>3. PICK ranks \in ProcessGroups[o] : r \in ranks /\ s \in ranks
  BY <1>1, <1>2 DEF WaitsFor
<1>4. ranks \in ProcessGroup /\ o \in On(ranks)
  BY DEF ProcessGroup, On
<1>5. ~Ahead(s, r, ranks)
  BY <1>2, <1>4 DEF Ahead, Executed
<1>6. ASSUME Even(r, s, ranks), NEW b \in Bucket, NEW c \in Bucket, HeadIs(r, b), HeadIs(s, c)
      PROVE  GroupEarlier(Using(r), c, b)
  <2>1. GroupOf[b] = GroupOf[o]
    BY <1>2, <1>6 DEF HeadIs
  <2>2. GroupOf[c] # GroupOf[b]
    BY <1>1, <1>2, <1>6, <2>1 DEF WaitsFor, AtHead, HeadIs
  <2>3. InStream(r, b) /\ b \in On(ranks)
    BY <1>2, <1>4, <2>1, GroupMembers DEF InStream, On
  <2>4. ~Executed(s, b) /\ pass[r] = pass[s]
    BY <1>6, <2>3 DEF Executed, Even
  <2>5. GroupEarlier(Using(s), c, b)
    BY <1>6, <2>2, <2>4, HeadIsFirst
  <2> QED
    BY <2>2, <2>4, <2>5, OneOrderOfRanks DEF Inv
<1> QED
  BY <1>3, <1>4, <1>5, <1>6 DEF Inv, Lockstep

\* Blocked ranks never wait for each other in a circle, if in addition some
\* bucket is reduced over all ranks, which keeps the passes together.
THEOREM NoDeadlock ==
  ASSUME AgreedUses, SomeDense
  PROVE  Spec => []NoCircularWait
<1>1. Inv => NoCircularWait
  <2> SUFFICES ASSUME Inv, NEW ranks \in SUBSET Rank, ranks # {},
                      \A r \in ranks : Blocked(r) /\ \E s \in ranks : WaitsFor(r, s)
               PROVE  FALSE
    BY DEF NoCircularWait
  <2>1. Rank \in ProcessGroup
    BY DEF SomeDense, ProcessGroup
  <2>2. PICK o \in On(Rank) : TRUE
    BY <2>1, RanksOfGroup
  <2>3. \A r, s \in Rank : Even(r, s, Rank) \/ Ahead(r, s, Rank) \/ Ahead(s, r, Rank)
    BY <2>1 DEF Inv, Lockstep
  <2>4. ASSUME NEW some \in ProcessGroup, NEW r \in some, NEW s \in some
        PROVE  Ahead(r, s, some) <=> Ahead(r, s, Rank)
    <3>1. r \in Rank /\ s \in Rank
      BY RanksOfGroup
    <3> QED
      BY <2>1, <3>1 DEF Inv, Lockstep
  <2>5. \A r, s, t \in Rank : Ahead(r, s, Rank) => ~Ahead(s, t, Rank)
    BY <2>2 DEF Ahead
  <2>6. \A r, s, t \in Rank : Ahead(r, s, Rank) /\ Even(s, t, Rank) => Ahead(r, t, Rank)
    BY DEF Ahead, Even
  <2>7. \A r, s, t \in Rank : Even(r, s, Rank) <=> Even(s, r, Rank)
    BY DEF Even
  <2>8. \A r \in ranks : rs_stream[r] # <<>>
    BY DEF WaitsFor
  <2>9. \A r \in ranks : \E b \in Bucket : HeadIs(r, b)
    <3> SUFFICES ASSUME NEW r \in ranks
                 PROVE  \E b \in Bucket : HeadIs(r, b)
      OBVIOUS
    <3>1. 1 \in 1 .. Len(rs_stream[r])
      BY <2>8, EmptySeq DEF Inv, Types
    <3> QED
      BY <2>8, <3>1, GroupOn DEF Inv, HeadIs
  \* the ranks that are behind, or all if none is
  <2> DEFINE behind == {s \in ranks : \E r \in ranks : Ahead(r, s, Rank)}
             last == IF behind = {} THEN ranks ELSE behind
  <2>10. last # {} /\ last \subseteq ranks
    OBVIOUS
  <2>11. \A r, s \in last : ~Ahead(r, s, Rank) /\ Even(r, s, Rank)
    <3>1. CASE behind = {}
      BY <2>3, <3>1
    <3>2. CASE behind # {}
      BY <2>3, <2>5, <3>2
    <3> QED
      BY <3>1, <3>2
  <2>12. ASSUME NEW r \in last, NEW s \in ranks, WaitsFor(r, s)
         PROVE  /\ s \in last
                /\ \A b, c \in Bucket : HeadIs(r, b) /\ HeadIs(s, c) => GroupEarlier(Using(r), c, b)
    <3>1. PICK some \in ProcessGroup :
            /\ r \in some /\ s \in some
            /\ \/ Ahead(r, s, some)
               \/ /\ Even(r, s, some)
                  /\ \A b, c \in Bucket : HeadIs(r, b) /\ HeadIs(s, c)
                                            => GroupEarlier(Using(r), c, b)
      BY <2>8, <2>10, <2>12, WaitsForEarlier
    <3>2. ~Ahead(r, s, Rank)
      <4>1. CASE behind = {}
        BY <2>10, <4>1
      <4>2. CASE behind # {}
        BY <2>5, <4>2
      <4> QED
        BY <4>1, <4>2
    <3>3. /\ Even(r, s, some)
          /\ \A b, c \in Bucket : HeadIs(r, b) /\ HeadIs(s, c) => GroupEarlier(Using(r), c, b)
      BY <2>4, <3>1, <3>2
    <3>4. s \in last
      <4>1. CASE behind = {}
        BY <4>1
      <4>2. CASE behind # {}
        <5>1. PICK t \in ranks : Ahead(t, r, Rank)
          BY <4>2
        <5>2. ~Ahead(s, r, some)
          BY <3>3, RanksOfGroup DEF Even, Ahead
        <5>3. Even(r, s, Rank)
          BY <2>3, <2>4, <2>10, <3>1, <3>2, <5>2
        <5>4. Ahead(t, s, Rank)
          BY <2>6, <2>10, <5>1, <5>3
        <5> QED
          BY <4>2, <5>4
      <4> QED
        BY <4>1, <4>2
    <3> QED
      BY <3>3, <3>4
  <2> HIDE DEF last
  <2>13. PICK r \in last : TRUE
    BY <2>10
  <2> DEFINE heads == {b \in Bucket : \E s \in last : HeadIs(s, b)}
  <2>14. PICK b \in heads : \A c \in heads : ~GroupEarlier(Using(r), c, b)
    <3>1. heads # {}
      BY <2>9, <2>10, <2>13
    <3> QED
      BY <3>1, EarliestGroup
  <2>15. PICK s \in last : HeadIs(s, b)
    OBVIOUS
  <2>16. PICK t \in ranks : WaitsFor(s, t)
    BY <2>10
  <2>17. PICK c \in Bucket : HeadIs(t, c)
    BY <2>9
  <2>18. t \in last /\ GroupEarlier(Using(s), c, b)
    BY <2>12, <2>15, <2>16, <2>17
  <2>19. GroupOf[c] # GroupOf[b]
    <3>1. GroupOf[c] = GroupOf[b] => GroupEarlier(Using(s), b, b)
      BY <2>14, <2>17, <2>18, GroupMembers DEF GroupEarlier
    <3> QED
      BY <2>14, <3>1, GroupEarlierOrder
  <2>20. GroupEarlier(Using(r), c, b)
    BY <2>10, <2>11, <2>18, <2>19, OneOrderOfRanks DEF Even, Inv
  <2> QED
    BY <2>14, <2>17, <2>18, <2>20
<1> QED
  BY <1>1, Invariance, PTL
=============================================================================
