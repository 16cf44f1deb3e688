-------------------------- MODULE DistributedIndex --------------------------
(***************************************************************************)
(* The process groups of a data-parallel mesh (FSDPDistributedIndex).  The *)
(* ranks of dense parameters form a mesh of outer x shard ranks, counted   *)
(* row by row.  With expert parallelism the shard dimension is split into  *)
(* expert shards x ep, and a rank shares an expert parameter only with the *)
(* ranks of its own ep coordinate.                                         *)
(*                                                                         *)
(* A mesh is [outer, shard, ep, hybrid]: the three sizes, and whether      *)
(* there is an outer dimension at all.  A group is the sequence of its     *)
(* ranks.                                                                  *)
(***************************************************************************)
EXTENDS Integers, Sequences, FiniteSets, SequencesExt

Ranks(mesh) == 0 .. mesh.outer * mesh.shard - 1

OuterRank(mesh, r) == r \div mesh.shard
InnerRank(mesh, r) == r % mesh.shard
EpRank(mesh, r)    == r % mesh.ep

\* the ranks that hold replicas or shards of the parameters a rank holds
Peers(mesh, r, expert) == {q \in Ranks(mesh) : expert => EpRank(mesh, q) = EpRank(mesh, r)}

\* the ranks of a group in ascending order
InOrder(ranks) ==
  [k \in 1 .. Cardinality(ranks) |-> CHOOSE r \in ranks : Cardinality({q \in ranks : q < r}) = k - 1]

GetFsdpGroup(mesh, r, expert) ==
  InOrder({q \in Peers(mesh, r, expert) : OuterRank(mesh, q) = OuterRank(mesh, r)})

GetOuterFsdpGroup(mesh, r, expert) ==
  InOrder({q \in Peers(mesh, r, expert) : InnerRank(mesh, q) = InnerRank(mesh, r)})

\* the flattened (outer, shard) group in a hybrid mesh
GetDpGroup(mesh, r, expert) ==
  IF mesh.hybrid THEN InOrder(Peers(mesh, r, expert)) ELSE GetFsdpGroup(mesh, r, expert)

GroupRank(group, r) == (CHOOSE k \in DOMAIN group : group[k] = r) - 1

\* the flat rank, as if outer were the first dimension to shard over
GetLogicalHybridFsdpRank_Mutant(mesh, r, expert) == GroupRank(GetDpGroup(mesh, r, expert), r)

\* The rank in the order (shard, outer): parameters are sharded over the inner
\* group first, and each inner shard over the outer group.
GetLogicalHybridFsdpRank(mesh, r, expert) ==
  LET inner == GetFsdpGroup(mesh, r, expert)
      outer == GetOuterFsdpGroup(mesh, r, expert)
      flat  == GroupRank(GetDpGroup(mesh, r, expert), r)
  IN (flat % Len(inner)) * Len(outer) + flat \div Len(inner)
=============================================================================
