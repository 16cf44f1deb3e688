--------------------------- MODULE MCRaggedTensor ---------------------------
(* A matrix and a tensor with three dimensions on three ranks, and one on two   *)
(* by two ranks.                                              *)
EXTENDS RaggedTensor, TLC

\* units of equal and unequal size, and ranks without any
LineJob ==
  [mesh |-> <<3>>, shape |-> <<3, 2>>,
   placements |-> {<<Replicate>>, <<Shard(1)>>, <<Shard(2)>>,
                   <<Ragged(2, <<1, 2, 3>>)>>, <<Ragged(2, <<3, 0, 3>>)>>,
                   <<Ragged(1, <<2, 0, 1>>)>>, <<Ragged(1, <<0, 0, 1>>)>>,
                   <<Ragged(0, <<0, 1, 0>>)>>}]

SquareJob ==
  [mesh |-> <<2, 2>>, shape |-> <<2, 2, 3>>,
   placements |-> {<<Replicate, Replicate>>, <<Replicate, Partial>>,
                   <<Replicate, Shard(3)>>, <<Shard(1), Shard(2)>>,
                   <<Ragged(2, <<1, 3>>), Replicate>>, <<Ragged(1, <<2, 0>>), Replicate>>,
                   <<Ragged(2, <<3, 1>>), Partial>>, <<Ragged(2, <<1, 3>>), Partial>>,
                   <<Ragged(3, <<5, 1>>), Shard(1)>>, <<Ragged(3, <<1, 5>>), Shard(2)>>,
                   <<Ragged(2, <<0, 2>>), Shard(2)>>,
                   <<Ragged(1, <<1, 1>>), Shard(3)>>, <<Replicate, Ragged(3, <<7, 5>>)>>}]

\* slices that begin and end inside a row, so that they are cut into several boxes
CubeJob ==
  [mesh |-> <<3>>, shape |-> <<2, 2, 3>>,
   placements |-> {<<Replicate>>, <<Shard(3)>>, <<Ragged(3, <<4, 1, 7>>)>>,
                   <<Ragged(3, <<5, 5, 2>>)>>, <<Ragged(3, <<0, 8, 4>>)>>,
                   <<Ragged(2, <<1, 0, 3>>)>>}]

MCJobs == {LineJob, CubeJob, SquareJob}
NoWays == {}
=============================================================================
