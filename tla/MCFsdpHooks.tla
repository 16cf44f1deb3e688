---------------------------- MODULE MCFsdpHooks ----------------------------
(* A chain embedding - units - head: the embedding and the head are not units *)
(* and share bucket 0; unit n has the bucket n or, in the grouped variant,    *)
(* unit 2 has the two buckets 2 and 3, gathered as one group.                 *)
EXTENDS FsdpHooks, TLC

MCUnit == [b \in Bucket |-> b]  \* bucket 0 belongs to no unit: NoUnit = 0
MCGroup == [b \in Bucket |-> {b}]
MCSize == [b \in Bucket |-> 1]
GroupedUnit == [b \in Bucket |-> IF b < 3 THEN b ELSE b - 1]
GroupedGroup == [b \in Bucket |-> {c \in Bucket : GroupedUnit[c] = GroupedUnit[b]}]
GroupedUnits == 1 .. NumBuckets - 2
MCNoTranspose == [b \in Bucket |-> FALSE]
MCTranspose == [b \in Bucket |-> b # 0]
MCUnits == 1 .. NumBuckets - 1

\* embedding, one module per unit, head
MCIsUnit == [m \in Module |-> m # 1 /\ m # NumModules]
MCModuleBuckets == [m \in Module |-> IF m = 1 \/ m = NumModules THEN {0} ELSE {m - 1}]
GroupedModuleBuckets ==
  [m \in Module |-> IF m = 1 \/ m = NumModules THEN {0}
                    ELSE {b \in Bucket : GroupedUnit[b] = m - 1}]
NoCheckpoint == [m \in Module |-> {}]
\* units 1 and 2 are recomputed together, unit 3 on its own
CheckpointPairs == [m \in Module |-> IF m \in 2 .. 3 THEN 2 .. 3
                                     ELSE IF m = 4 THEN {4} ELSE {}]
\* units 1 to 3 are recomputed together
CheckpointThree == [m \in Module |-> IF m \in 2 .. 4 THEN 2 .. 4 ELSE {}]

\* token ids never require grad; the first unit's input does unless the
\* embedding is frozen
Trainable == [m \in Module |-> m # 1]
FrozenEmbedding == [m \in Module |-> m > 2]

SetupsWith(checkpoints, reentrant, grad_inputs, auto_sync, outstanding, eval, force) ==
  [checkpoint : checkpoints, reentrant : reentrant, has_grad_input : grad_inputs,
   auto_sync : auto_sync, outstanding : outstanding, eval : eval,
   force_sync : force]

AllCheckpoints == {NoCheckpoint, CheckpointPairs, CheckpointThree}

\* one microbatch at a time in all ways; or two forward passes in flight and
\* evaluation passes, synchronised by optimizer.step()
AllSetups ==
  SetupsWith(AllCheckpoints, BOOLEAN, {Trainable, FrozenEmbedding}, BOOLEAN, {1}, {FALSE}, BOOLEAN)
  \cup
  SetupsWith(AllCheckpoints, BOOLEAN, {Trainable}, {FALSE}, {2}, {TRUE}, {FALSE})

\* stretches of at most two units, which fit a double buffer
PairSetups ==
  SetupsWith({NoCheckpoint, CheckpointPairs}, BOOLEAN, {Trainable}, BOOLEAN, {1}, {FALSE},
             {FALSE})

\* what the theorems assume of models and setups holds of these
ASSUME HooksProved ==
  /\ UnitsInOrder /\ OneUnitAhead /\ UnitsReturned
  /\ FsdpDoubleBuffer => \A s \in Setups : PoolServes(s)
============================================================================
