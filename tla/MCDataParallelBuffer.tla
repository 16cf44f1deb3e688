------------------------ MODULE MCDataParallelBuffer ------------------------
(* Small tensors with and without blocks, on up to three ranks.              *)
EXTENDS DataParallelBuffer, TLC

T(shape, block) == [shape |-> shape, block |-> block]

\* element-wise, the default; tensors that share a block size; row-wise blocks,
\* of different sizes
Elementwise == {<<T(<<1>>, 1)>>, <<T(<<5>>, 1), T(<<2>>, 1)>>,
                <<T(<<1>>, 1), T(<<2, 2>>, 1), T(<<3>>, 1)>>}
Blocked == {<<T(<<6>>, 2)>>, <<T(<<2>>, 2), T(<<4>>, 2)>>, <<T(<<3, 2>>, 3), T(<<3>>, 3)>>}
Rowwise == {<<T(<<2, 2>>, 2), T(<<4>>, 1)>>, <<T(<<3>>, 1), T(<<2, 2>>, 2), T(<<2>>, 1)>>,
            <<T(<<3>>, 3), T(<<2>>, 2), T(<<4>>, 1)>>, <<T(<<4>>, 4), T(<<3>>, 3), T(<<3>>, 1)>>,
            <<T(<<3>>, 3), T(<<3>>, 3), T(<<2>>, 1)>>}
\* a matrix that spans every shard of three
Wide == {<<T(<<1>>, 1), T(<<4, 2>>, 2)>>}
\* a block size that does not divide its tensor, which the planner rejects
Misfit == {<<T(<<5>>, 2)>>}

Group(elements, ranks, strategy, main, unit, order) ==
  [elements |-> elements, ranks |-> ranks, strategy |-> strategy, main_weights |-> main,
   unit |-> unit, order |-> order]

\* no tensor is larger than a rank's share: the row-wise jobs that are kept, as a
\* larger tensor may overrun the bucket: sizes 2 and 4 with blocks of 1 and 2 do on
\* two ranks
Even(g) ==
  \A i \in DOMAIN g.elements : Size(g.elements[i]) <= CeilDiv(TotalSize(g.elements), g.ranks)

SoundJobs ==
  {Group(e, n, s, m, 1, "default") :
     e \in Elementwise, n \in 1 .. 3, s \in Strategies, m \in BOOLEAN}
  \cup {Group(e, n, s, FALSE, u, "default") :
     e \in Blocked, n \in 2 .. 3, s \in Strategies \ {"no_shard"}, u \in {1, 4}}
  \cup {g \in {Group(e, n, "optim_grads_params", TRUE, 1, o) :
                 e \in Rowwise, n \in 2 .. 3, o \in TensorOrders} : Even(g)}
  \cup {Group(e, 3, s, TRUE, 1, "default") : e \in Wide, s \in Strategies \ {"no_shard"}}
  \cup {Group(e, 2, "optim", FALSE, 1, "default") : e \in Misfit}
============================================================================
