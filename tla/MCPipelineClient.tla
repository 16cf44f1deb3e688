-------------------------- MODULE MCPipelineClient --------------------------
(* A non-unit bucket 0 and three units of one bucket each, the first of      *)
(* which is also kept transposed; the fixed pool has room for one unit.      *)
EXTENDS PipelineClient, TLC

MCUnitOf == (0 :> "none") @@ (1 :> "u1") @@ (2 :> "u2") @@ (3 :> "u3")
MCGroupOf == [b \in Bucket |-> {b}]
MCBucketSize == [b \in Bucket |-> 2]
MCHasTranspose == [b \in Bucket |-> b = 1]
MCDoubleBufUnits == {"u1", "u2", "u3"}
============================================================================
