------------------------ MODULE MCParamAndGradBuffer ------------------------
(* Models of three to six small parameters on one, two or four ranks.         *)
EXTENDS ParamAndGradBuffer, TLC

Parameter(dtype, rows, row) ==
  [dtype |-> dtype, expert |-> FALSE, requires_grad |-> TRUE, shared_embedding |-> FALSE,
   rows |-> rows, row |-> row]
Expert(p) == [p EXCEPT !.expert = TRUE]
Frozen(p) == [p EXCEPT !.requires_grad = FALSE]
Shared(p) == [p EXCEPT !.shared_embedding = TRUE]

Model(params, units, module, suggested) ==
  [params |-> params, units |-> units, module |-> module, suggested_bucket_size |-> suggested]

\* embedding, a unit with a matrix, a bias and a frozen scale, and a head
Dense ==
  Model(<<Parameter("bf16", 1, 3), Parameter("bf16", 3, 2), Parameter("bf16", 1, 2),
          Frozen(Parameter("bf16", 1, 2)), Parameter("fp32", 1, 3)>>,
        << {2, 3, 4} >>, <<1, 2, 2, 2, 3>>, 8)
\* an embedding tied to the head and tensors that fill small buckets; two units,
\* one inside the other
Nested ==
  Model(<<Shared(Parameter("bf16", 2, 2)), Parameter("bf16", 1, 3), Parameter("bf16", 1, 2),
          Parameter("float8", 1, 3), Parameter("bf16", 2, 1), Parameter("bf16", 1, 1)>>,
        << {2, 4, 5}, {4} >>, <<1, 2, 3, 4, 2, 3>>, 2)
\* a router and experts in a unit, and a bias outside
Moe ==
  Model(<<Parameter("bf16", 1, 3), Parameter("bf16", 1, 2), Expert(Parameter("bf16", 2, 2)),
          Expert(Parameter("bf16", 1, 1))>>,
        << {2, 3, 4} >>, <<1, 2, 3, 3>>, 0)

\* the same with vectors for matrices
Vectors(model) ==
  [model EXCEPT !.params = [n \in DOMAIN @ |-> [@[n] EXCEPT !.rows = NumelOf(model.params[n]), !.row = 1]]]

Mesh(outer, shard, ep, hybrid) == [outer |-> outer, shard |-> shard, ep |-> ep, hybrid |-> hybrid]
Flat(shard, ep) == Mesh(1, shard, ep, FALSE)
Hybrid(shard, ep) == Mesh(2, shard, ep, TRUE)

Way(model, mesh, strategy) ==
  [model |-> model, mesh |-> mesh, strategy |-> strategy, outer_strategy |-> "no_shard",
   main_grads |-> "none", meta |-> FALSE, per_token |-> FALSE, average |-> FALSE,
   inplace |-> FALSE, auto_sync |-> FALSE, force |-> FALSE,
   uses |-> << {DOMAIN model.params, DOMAIN model.params \ {2}}, {DOMAIN model.params, {1}} >>]
\* with the optimizer sharded over the outer group, the first microbatch uses
\* everything and gradients are not averaged
FullyHybrid(way) ==
  [way EXCEPT !.outer_strategy = "optim", !.per_token = TRUE,
              !.uses = << {DOMAIN way.model.params}, {DOMAIN way.model.params, {1}} >>]
Once(way) == [way EXCEPT !.uses = <<way.uses[1]>>]

MCJobs ==
  {[Way(model, Flat(2, 1), strategy) EXCEPT !.average = average] :
     model \in {Dense, Nested}, strategy \in Strategies, average \in BOOLEAN}
  \cup {[Way(Vectors(model), Hybrid(2, 1), strategy) EXCEPT !.average = average] :
     model \in {Dense, Nested}, strategy \in Strategies, average \in BOOLEAN}
  \cup {[Way(Dense, Flat(2, 1), "optim_grads_params") EXCEPT !.meta = TRUE, !.force = TRUE, !.average = TRUE],
        [Way(Moe, Flat(4, 2), "optim_grads_params") EXCEPT !.main_grads = "fp32"],
        Way(Dense, Flat(1, 1), "optim_grads_params"),
        Way(Dense, Hybrid(2, 1), "no_shard"),
        [Way(Nested, Flat(2, 1), "optim_grads_params") EXCEPT !.auto_sync = TRUE],
        Once([Way(Moe, Flat(2, 2), "optim_grads") EXCEPT !.inplace = TRUE, !.auto_sync = TRUE]),
        Once(Way(Vectors(Moe), Hybrid(2, 2), "optim_grads_params")),
        FullyHybrid(Way(Dense, Hybrid(2, 1), "optim")),
        FullyHybrid([Way(Vectors(Dense), Hybrid(2, 1), "optim_grads_params") EXCEPT !.meta = TRUE]),
        FullyHybrid([Way(Vectors(Moe), Hybrid(2, 2), "optim_grads_params") EXCEPT !.main_grads = "fp32"]),
        Once(FullyHybrid([Way(Vectors(Nested), Hybrid(1, 1), "optim_grads_params") EXCEPT !.auto_sync = TRUE]))}

\* experts of which every rank of the inner group holds its own
ExpertsAlone == {Way(Moe, Flat(2, 2), "optim_grads_params")}

\* what the theorems assume of jobs holds of these; that gradients are scaled
\* once does not where the experts stand alone
ASSUME JobsProved == OuterRefreshed /\ (Jobs = MCJobs => ScaledOnce)
=============================================================================
