-------------------------- MODULE MCReductionOrder --------------------------
(* Bucket 0 belongs to no unit; unit 1 has two dense buckets, reduced as one   *)
(* group, and one of experts between them; unit 2 has one dense bucket.        *)
EXTENDS ReductionOrder

MCRank == 0 .. 3
MCBucketOf == [p \in Param |-> <<0, 1, 1, 2, 3, 4>>[p + 1]]
MCGroupOf == [b \in Bucket |-> <<<<0>>, <<1, 3>>, <<2>>, <<1, 3>>, <<4>>>>[b + 1]]
\* experts are sharded over the inner group, pairs of ranks
MCProcessGroups == [b \in Bucket |-> IF b = 2 THEN {{0, 1}, {2, 3}} ELSE {MCRank}]
MCBucketSize == [b \in Bucket |-> Cardinality(ParamsOf(b))]
MCShared == {0}
MCHookOrder == Reverse([i \in 1 .. NumParams |-> i - 1])

\* Ranks agree on the buckets with an unused parameter, not on the parameter.
Pairs == {<<Param, Param>>, <<Param \ {1, 3}, Param \ {2, 3}>>}
\* the members of a pair of ranks may differ, the pairs are alike
MCUses ==
  {u \in {[r \in Rank |-> pair[1 + (r % 2)]] : pair \in Pairs} :
     \A r, s \in Rank : LeftToRoot(u[r]) = LeftToRoot(u[s])}
=============================================================================
