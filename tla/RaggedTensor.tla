---------------------------- MODULE RaggedTensor ----------------------------
(***************************************************************************)
(* A DTensor of veScale (src/veScale/vescale/dtensor) on the ranks of a      *)
(* mesh, through what a program does to it: distribution, wrapping of local  *)
(* tensors, redistribution and its backward pass, operators that are          *)
(* dispatched to the local tensors, saving and loading.  A local tensor is a  *)
(* sequence of cells; a cell is marked with the element of the logical tensor *)
(* it is meant to hold and with the contributions that are summed in it, so   *)
(* that data that went astray is recognised wherever it turns up.            *)
(*                                                                         *)
(* "Ways" names uses that the library accepts and that a run may include:     *)
(*   other_dims    redistribute between RaggedShards while the placement of    *)
(*                 another mesh dimension changes too                         *)
(*   inplace       update a partial tensor in place                           *)
(*   shard_after   distribute a tensor over a RaggedShard and a Shard         *)
(***************************************************************************)
EXTENDS RaggedShard, FiniteSets

CONSTANTS
  Jobs,  \* tensors and meshes: records of mesh, shape and a set of placements
  Ways   \* see above

ASSUME JobsAssumption ==
  \A job \in Jobs : \A p \in job.placements :
     /\ DOMAIN p = DOMAIN job.mesh
     /\ PlacementsAllowed(p)

VARIABLES
  job,         \* the mesh, the shape and the placements in use
  placements,  \* of the tensor
  local,       \* its local tensors: coordinate -> sequence of cells
  result,      \* of the last operator: its placements and local tensors
  store,       \* the checkpoint: element -> cell
  raised       \* the exception that ended the program

vars == <<job, placements, local, result, store, raised>>

ClearPartial(p) ==
  [i \in DOMAIN p |-> IF p[i].kind = "partial" THEN Replicate ELSE p[i]]

\* The placements that occur, with those on the way to or from a RaggedShard.
Known(j) ==
  LET around == j.placements \cup {SubstituteRaggedWithReplicate(p) : p \in j.placements}
  IN  around \cup {ClearPartial(p) : p \in around}

BoxesOf(spec, c) == IF HasRagged(spec.placements) THEN BreakRaggedBox(spec, c)
                    ELSE <<BoxBeforeRagged(spec, c)>>

\* The elements of a rank's boxes in the order of the boxes; the k-th of them is
\* the k-th cell of the local tensor.
ElementsOfBoxes(spec, c) ==
  LET boxes == BoxesOf(spec, c)
  IN  FlattenSeq([b \in DOMAIN boxes |-> BoxElements(boxes[b], spec.shape)])

\* A job with tables of what depends on its placements alone: the elements a rank
\* holds, the box RaggedShard cuts up, and the elements in the order of the boxes
\* of a checkpoint.
Prepared(j) ==
  LET Table(Of(_, _)) == [p \in Known(j) |-> [c \in Coordinates(j.mesh) |->
                            Of([mesh |-> j.mesh, shape |-> j.shape, placements |-> p], c)]]
  IN  [mesh |-> j.mesh, shape |-> j.shape, placements |-> j.placements,
       ranks |-> Coordinates(j.mesh),
       held |-> Table(FlatElements),
       box |-> Table(BoxBeforeRagged),
       written |-> Table(ElementsOfBoxes)]

Ranks == job.ranks
Held(p) == job.held[p]
BoxOf(p, c) == job.box[p][c]
Elements == 0 .. (Product(job.shape) - 1)

\* Every rank of a mesh dimension contributes one addend to a partial tensor.
Addends == {"first", "second"}
Addend(i) == IF i = 0 THEN "first" ELSE "second"
Whole(e) == [element |-> e, sum |-> Addends]
Lost == [element |-> -1, sum |-> {}]

HasPartial(p) == \E i \in DOMAIN p : p[i].kind = "partial"

\* What every rank should hold: the elements its placements give it, in order,
\* and, of a partial tensor, its own addend.
Faithful(p, c) ==
  LET elements == Held(p)[c]
      sum == IF HasPartial(p)
             THEN {Addend(c[i]) : i \in {k \in DOMAIN p : p[k].kind = "partial"}}
             ELSE Addends
  IN  [k \in DOMAIN elements |-> [element |-> elements[k], sum |-> sum]]

FreshTensor(p) == [c \in Ranks |-> Faithful(p, c)]

-----------------------------------------------------------------------------
(* Redistribution between placements without RaggedShard (external): each rank *)
(* assembles its elements from ranks that hold them, and sums over partial      *)
(* dimensions.                                                                *)

\* The sum of the parts that ranks hold of a cell, a set of pairs <<rank, cell>>:
\* they must be of one element and have no addend in common.
SumOf(parts) ==
  IF /\ parts # {}
     /\ \A a, b \in parts :
          /\ a[2].element = b[2].element
          /\ a # b => a[2].sum \cap b[2].sum = {}
  THEN [element |-> (CHOOSE a \in parts : TRUE)[2].element,
        sum |-> UNION {a[2].sum : a \in parts}]
  ELSE Lost

\* The ranks that the rank c takes its cells from: of a replicated dimension its
\* own part of the mesh, of a partial one that is to stay so too.
Sources(c, from, to) ==
  {s \in Ranks : \A i \in DOMAIN from :
     s[i] = c[i] \/ from[i].kind = "shard" \/ (from[i].kind = "partial" /\ to[i] # from[i])}

\* Whole data made partial keep their value on the first rank only.
Zeroed(c, from, to, isBackward) ==
  /\ ~isBackward
  /\ \E i \in DOMAIN to : to[i].kind = "partial" /\ from[i].kind # "partial" /\ c[i] > 0

TorchRedistribute(data, from, to, isBackward) ==
  LET held == Held(from)
      shards == {<<s, data[s]>> : s \in Ranks}
      Cell(c, e) ==
        SumOf({<<x[1], x[2][CHOOSE k \in DOMAIN x[2] : held[x[1]][k] = e]>> :
                 x \in {y \in shards : /\ y[1] \in Sources(c, from, to)
                                       /\ Contains(held[y[1]], e)}})
      Cells(c) == [k \in DOMAIN Held(to)[c] |-> Cell(c, Held(to)[c][k])]
  IN  [c \in Ranks |->
         IF Zeroed(c, from, to, isBackward)
         THEN [k \in DOMAIN Cells(c) |-> [Cells(c)[k] EXCEPT !.sum = {}]]
         ELSE Cells(c)]

-----------------------------------------------------------------------------
(* RaggedShard's collectives along a mesh dimension i. *)

Peers(c, i) == [j \in 0 .. (job.mesh[i] - 1) |-> [c EXCEPT ![i] = j]]
PeerSeq(c, i) == [j \in 1 .. job.mesh[i] |-> Peers(c, i)[j - 1]]

SplitTensor_Mutant(tensor, units, i) ==
  SubSeq(tensor, 1, SliceEnd(units, Len(tensor), i) - SliceStart(units, Len(tensor), i))
SplitTensor(tensor, units, i) ==
  SubSeq(tensor, SliceStart(units, Len(tensor), i) + 1, SliceEnd(units, Len(tensor), i))

\* All-gather of slices of unequal size.
ToReplicateTensor(data, c, i) ==
  FlattenSeq([j \in DOMAIN PeerSeq(c, i) |-> data[PeerSeq(c, i)[j]]])

\* What the rank at coordinate s sends to the one at coordinate d: the overlap of
\* its slice with the other's new slice.
SentTo(tensor, units, newUnits, n, s, d) ==
  LET left == SliceStart(units, n, s)
      right == SliceEnd(units, n, s)
      from == Larger(SliceStart(newUnits, n, d), left)
      to == Smaller(SliceEnd(newUnits, n, d), right)
  IN  IF SliceEnd(newUnits, n, d) <= left \/ SliceStart(newUnits, n, d) >= right
      THEN <<>>
      ELSE SubSeq(tensor, from - left + 1, to - left)

\* How much the rank at coordinate d expects from the one at coordinate s.
ExpectedFrom_Mutant(units, newUnits, n, s, d) ==
  Smaller(SliceEnd(units, n, s), SliceEnd(newUnits, n, d))
    - Larger(SliceStart(units, n, s), SliceStart(newUnits, n, d))
ExpectedFrom(units, newUnits, n, s, d) ==
  Larger(0, Smaller(SliceEnd(units, n, s), SliceEnd(newUnits, n, d))
            - Larger(SliceStart(units, n, s), SliceStart(newUnits, n, d)))

LocalNumel(p, c) == Product(BoxOf(p, c).sizes)

ToNewRaggedShard(data, c, i, p, newUnits) ==
  LET n == LocalNumel(p, c)
      Piece(j) == SentTo(data[PeerSeq(c, i)[j]], p[i].units, newUnits, n, j - 1, c[i])
  IN  FlattenSeq([j \in DOMAIN PeerSeq(c, i) |-> Piece(j)])

\* The ranks of an all-to-all must agree on the sizes.
ExchangeAgrees(data, i, p, newUnits) ==
  \A c \in Ranks : \A j \in DOMAIN PeerSeq(c, i) :
     Len(SentTo(data[PeerSeq(c, i)[j]], p[i].units, newUnits, LocalNumel(p, c), j - 1, c[i]))
       = ExpectedFrom(p[i].units, newUnits, LocalNumel(p, c), j - 1, c[i])

\* redistribute_local_tensor.  Between two RaggedShards only their own mesh
\* dimension is looked at.
RedistributeLocalTensor(data, from, to, isBackward) ==
  LET i == GetRaggedShard(from)
      gathered == [c \in Ranks |-> ToReplicateTensor(data, c, i)]
      unragged == SubstituteRaggedWithReplicate(from)
      k == GetRaggedShard(to)
      full == TorchRedistribute(data, from, SubstituteRaggedWithReplicate(to), isBackward)
  IN  CASE HasRagged(from) /\ HasRagged(to) ->
             [c \in Ranks |-> ToNewRaggedShard(data, c, i, from, to[k].units)]
        [] HasRagged(from) /\ ~HasRagged(to) ->
             IF unragged = to THEN gathered
             ELSE TorchRedistribute(gathered, unragged, to, isBackward)
        [] ~HasRagged(from) /\ HasRagged(to) ->
             [c \in Ranks |-> SplitTensor(full[c], to[k].units, c[k])]
        [] OTHER -> TorchRedistribute(data, from, to, isBackward)

\* Refused by an assertion on every rank: another mesh dimension for the
\* RaggedShard.  That the units divide the elements is asserted too, except
\* between two RaggedShards, where the program has to see to it.
Redistributable(from, to) ==
  /\ HasRagged(from) /\ HasRagged(to) => GetRaggedShard(from) = GetRaggedShard(to)
  /\ HasRagged(to) => \A c \in Ranks :
        LocalNumel(to, c) % Total(to[GetRaggedShard(to)].units) = 0

SameOtherDims(from, to) ==
  HasRagged(from) /\ HasRagged(to) =>
     SubstituteRaggedWithReplicate(from) = SubstituteRaggedWithReplicate(to)

MayRedistribute(from, to) ==
  Redistributable(from, to) /\ ("other_dims" \in Ways \/ SameOtherDims(from, to))

-----------------------------------------------------------------------------
NoResult == [op |-> "none"]
NoTensor == <<>>

Init ==
  /\ job \in {Prepared(j) : j \in Jobs}
  /\ placements = NoTensor /\ local = <<>>
  /\ result = NoResult
  /\ store = <<>>
  /\ raised = "none"

Running == raised = "none" /\ result = NoResult
Exists == Running /\ placements # NoTensor

\* distribute_tensor: one mesh dimension after the other is given its share of
\* what the earlier ones left.
DistributeShare(p, c) ==
  LET Share(held, i) ==
        CASE p[i].kind = "shard" ->
               SubSeq(held, ChunkStart(Len(held), job.mesh[i], c[i]) + 1,
                            ChunkStart(Len(held), job.mesh[i], c[i] + 1))
          [] p[i].kind = "ragged" -> SplitTensor(held, p[i].units, c[i])
          [] OTHER -> held
  IN  FoldLeft(Share, [k \in 1 .. Product(job.shape) |-> Whole(k - 1)],
               [i \in DOMAIN p |-> i])

\* The rows of a dimension other than the first are not consecutive: a share of
\* them is modelled by what torch's Shard gives.
DistributeTensor ==
  /\ Running /\ placements = NoTensor
  /\ \E p \in job.placements :
       /\ ~HasPartial(p)
       /\ HasRagged(p) /\ "shard_after" \notin Ways =>
            \A i \in DOMAIN p : p[i].kind # "shard"
       /\ HasRagged(p) => \A i \in DOMAIN p : p[i].kind = "shard" => p[i].dim = 1
       /\ Redistributable([i \in DOMAIN p |-> Replicate], p)
       /\ placements' = p
       /\ local' = [c \in Ranks |-> IF HasRagged(p) THEN DistributeShare(p, c)
                                    ELSE Faithful(p, c)]
  /\ UNCHANGED <<job, result, store, raised>>

\* from_local with the shape given: the program answers for the local tensors.
FromLocal ==
  /\ Running /\ placements = NoTensor
  /\ \E p \in job.placements :
       /\ placements' = p
       /\ local' = [c \in Ranks |-> Faithful(p, c)]
  /\ UNCHANGED <<job, result, store, raised>>

Redistribute ==
  /\ Exists
  /\ \E to \in job.placements :
       /\ ~HasPartial(to) /\ to # placements
       /\ MayRedistribute(placements, to)
       /\ placements' = to
       /\ local' = RedistributeLocalTensor(local, placements, to, FALSE)
       /\ raised' = IF /\ HasRagged(placements) /\ HasRagged(to)
                       /\ ~ExchangeAgrees(local, GetRaggedShard(to), placements,
                                          to[GetRaggedShard(to)].units)
                    THEN "sizes of an exchange differ" ELSE "none"
  /\ UNCHANGED <<job, result, store>>

\* The gradient of a redistributed tensor, placed like it, is brought to the
\* placements the tensor had before; what was partial is left whole.
RedistributeBackward ==
  /\ Exists /\ ~HasPartial(placements)
  /\ \E previous \in job.placements :
       /\ previous # placements
       /\ MayRedistribute(placements, previous)
       /\ local' = RedistributeLocalTensor(FreshTensor(placements), placements, previous, TRUE)
       /\ placements' = ClearPartial(previous)
  /\ UNCHANGED <<job, result, store, raised>>

-----------------------------------------------------------------------------
(* Operators: the placements of the output are those of the operand that is    *)
(* followed, the operands are redistributed to them and the operator is applied *)
(* to the local tensors.  A cell of the result is the pair of the cells that     *)
(* were combined.                                                              *)

\* RaggedShard does not count as sharded.
NumShards(p) == Product([i \in DOMAIN p |-> IF p[i].kind = "shard" THEN job.mesh[i] ELSE 1])

\* Of operands with equally many shards the first is followed, and by the
\* in-place and the list operators always.
Followed(follow, p, q) ==
  IF follow = "most" /\ NumShards(q) > NumShards(p) THEN q ELSE p

OutPlacements_Mutant(followed, linear) == followed
OutPlacements(followed, linear) == IF linear THEN followed ELSE ClearPartial(followed)

RedistributeLocalArg(data, from, to) ==
  IF from = to THEN data ELSE RedistributeLocalTensor(data, from, to, FALSE)

\* The local operator broadcasts nothing: operands of different length raise.
LengthsAgree(x, y) == \A c \in Ranks : Len(x[c]) = Len(y[c])

Combined(x, y) ==
  [c \in Ranks |-> LET a == x[c]
                       b == y[c]
                   IN  [k \in DOMAIN a |-> <<a[k], b[k]>>]]

Compute(x, y, out, linear) ==
  IF LengthsAgree(x, y)
  THEN /\ result' = [op |-> "pointwise", linear |-> linear, placements |-> out,
                     local |-> Combined(x, y)]
       /\ raised' = "none"
  ELSE result' = NoResult /\ raised' = "sizes of operands differ"

PointwiseOp ==
  /\ Exists
  /\ \E q \in job.placements, follow \in {"first", "most"}, linear \in BOOLEAN :
       LET out == OutPlacements(Followed(follow, placements, q), linear)
       IN  /\ MayRedistribute(placements, out) /\ MayRedistribute(q, out)
           /\ Compute(RedistributeLocalArg(local, placements, out),
                      RedistributeLocalArg(FreshTensor(q), q, out), out, linear)
  /\ UNCHANGED <<job, placements, local, store>>

\* A redistributed operand is a tensor of its own: what the operator writes into
\* it does not reach the tensor, whose spec is replaced all the same.
InPlace ==
  /\ Exists
  /\ \E q \in job.placements, linear \in BOOLEAN :
       LET out == OutPlacements(placements, linear)
       IN  /\ MayRedistribute(placements, out) /\ MayRedistribute(q, out)
           /\ out = placements \/ "inplace" \in Ways
           /\ Compute(RedistributeLocalArg(local, placements, out),
                      RedistributeLocalArg(FreshTensor(q), q, out), out, linear)
           /\ placements' = out
  /\ UNCHANGED <<job, local, store>>

\* copy_: the source takes the placements of the destination.
Copy ==
  /\ Exists
  /\ \E q \in job.placements :
       /\ MayRedistribute(q, placements)
       /\ local' = RedistributeLocalArg(FreshTensor(q), q, placements)
  /\ UNCHANGED <<job, placements, result, store, raised>>

-----------------------------------------------------------------------------
(* Norms: a cell of the result is the sequence of the cells that were combined   *)
(* into it; ranks of a mesh dimension marked "norm" hold parts that are combined  *)
(* when the result is looked at.                                               *)

NormPartial == [kind |-> "norm"]

\* map_placements_after_reduction of the dimension d, or of all (d = 0).
PlacementsAfterReduction_Mutant(p, d) ==
  [i \in DOMAIN p |->
     IF \/ p[i].kind = "shard" /\ d \in {0, p[i].dim}
        \/ p[i].kind = "ragged" /\ d < p[i].dims
     THEN NormPartial
     ELSE IF p[i].kind = "shard" /\ d < p[i].dim THEN Shard(p[i].dim - 1)
     ELSE p[i]]
PlacementsAfterReduction(p, d) ==
  [i \in DOMAIN p |->
     IF \/ p[i].kind = "shard" /\ d \in {0, p[i].dim}
        \/ p[i].kind = "ragged" /\ d <= p[i].dims
     THEN NormPartial
     ELSE IF p[i].kind = "shard" /\ d < p[i].dim THEN Shard(p[i].dim - 1)
     ELSE p[i]]

\* Reduction of dimension d of a tensor of the given shape: which positions of its
\* data are combined into the r-th of the result.
ReducedPositions(shape, d, r) ==
  LET index == UnravelIndex(r - 1, RemoveAt(shape, d))
  IN  [k \in 1 .. shape[d] |-> 1 + FlattenIndex(InsertAt(index, d, k - 1), shape)]

Padding == [element |-> -1, sum |-> Addends]

Reduce(data, shape, d) ==
  [r \in 1 .. Product(RemoveAt(shape, d)) |->
     LET at == ReducedPositions(shape, d, r)
     IN  SelectSeq([k \in DOMAIN at |-> data[at[k]]], LAMBDA cell : cell # Padding)]

\* ragged_norm_op_handler.  A dimension the RaggedShard flattens is reduced over the
\* whole box with the rank's slice in it, the rest of it zero; any other one over
\* the rows the rank has.
LocalNorm(data, p, c, d) ==
  LET i == GetRaggedShard(p)
      box == BoxOf(p, c).sizes
      n == Product(box)
      start == SliceStart(p[i].units, n, c[i])
      end == SliceEnd(p[i].units, n, c[i])
      padded == [k \in 1 .. n |-> IF k > start /\ k <= end THEN data[k - start] ELSE Padding]
      rows == Len(data) \div Product(After(box, p[i].dims))
  IN  CASE d = 0 -> <<data>>
        [] d \in 1 .. p[i].dims -> Reduce(padded, box, d)
        [] OTHER -> IF data = <<>> THEN <<>>
                    ELSE Reduce(data, <<rows>> \o After(box, p[i].dims), d - p[i].dims + 1)

\* For other placements torch does it (external) and for dims = () nothing is
\* flattened, so that no dimension can be reduced.
Norm ==
  /\ Exists
  /\ HasRagged(placements) /\ ~HasPartial(placements)
  /\ placements[GetRaggedShard(placements)].dims > 0
  /\ \E d \in 0 .. Len(job.shape) :
       result' = [op |-> "norm", dim |-> d,
                  placements |-> PlacementsAfterReduction(placements, d),
                  local |-> [c \in Ranks |-> LocalNorm(local[c], placements, c, d)]]
  /\ UNCHANGED <<job, placements, local, store, raised>>

-----------------------------------------------------------------------------
(* Checkpoint. *)

\* An element of the checkpoint has every cell that is written for it.
Save ==
  /\ Exists /\ ~HasPartial(placements)
  /\ LET written == job.written[placements]
         At(c, e) == {k \in DOMAIN written[c] : written[c][k] = e}
     IN  IF \A c \in Ranks : Len(written[c]) = Len(local[c])
         THEN /\ store' = [e \in Elements |->
                             UNION {{local[c][k] : k \in At(c, e)} : c \in Ranks}]
              /\ raised' = "none"
         ELSE raised' = "sizes of boxes differ" /\ UNCHANGED store
  /\ UNCHANGED <<job, placements, local, result>>

\* Another run of the program, perhaps with other placements, reads its boxes.
Load ==
  /\ Running /\ store # <<>>
  /\ \E p \in job.placements :
       /\ ~HasPartial(p)
       /\ placements' = p
       /\ local' = [c \in Ranks |->
                      LET read == job.written[p][c]
                      IN  [k \in DOMAIN read |-> IF Cardinality(store[read[k]]) = 1
                                                THEN CHOOSE v \in store[read[k]] : TRUE
                                                ELSE Lost]]
  /\ UNCHANGED <<job, result, store, raised>>

\* The result of an operator is used and freed before the next step.
FreeResult ==
  /\ result # NoResult
  /\ result' = NoResult
  /\ UNCHANGED <<job, placements, local, store, raised>>

Next ==
  \/ DistributeTensor \/ FromLocal
  \/ Redistribute \/ RedistributeBackward
  \/ PointwiseOp \/ InPlace \/ Copy \/ Norm
  \/ Save \/ Load
  \/ FreeResult

Spec == Init /\ [][Next]_vars

-----------------------------------------------------------------------------
\* Ranks whose parts of a tensor are combined into one.
Summands(p, c, kind) == {s \in Ranks : \A i \in DOMAIN p : s[i] = c[i] \/ p[i].kind = kind}

\* The local tensors together are the logical tensor: in every rank's place for an
\* element is that element, whole once the partial dimensions are summed.
Complete(data, p, CellOf(_)) ==
  \A c \in Ranks :
     LET elements == Held(p)[c]
     IN  /\ Len(data[c]) = Len(elements)
         /\ \A k \in DOMAIN elements :
              SumOf({<<s, CellOf(data[s][k])>> : s \in Summands(p, c, "partial")})
                = Whole(elements[k])

\* Whatever a tensor went through - distribution, redistributions and their
\* backward passes, operators in place, a checkpoint - every rank holds exactly the
\* elements its placements promise, in order (_redistribute.py, _dispatch.py).
Denotes == placements # NoTensor => Complete(local, placements, LAMBDA cell : cell)

\* The operands of a pointwise operator meet element by element on every rank,
\* whichever operand is followed, and an operator that is not linear sees no cell
\* that is still to be summed (_pointwise_ops.py common_pointwise_strategy).
PointwiseAligned ==
  result.op = "pointwise" =>
     /\ Complete(result.local, result.placements, LAMBDA pair : pair[1])
     /\ Complete(result.local, result.placements, LAMBDA pair : pair[2])
     /\ ~result.linear => \A c \in Ranks : \A pair \in Range(result.local[c]) :
                            pair[1].sum = Addends /\ pair[2].sum = Addends

\* The tensor a norm results in: its placements where parts have been combined.
NormSpec ==
  [mesh |-> job.mesh,
   shape |-> IF result.dim = 0 THEN <<>> ELSE RemoveAt(job.shape, result.dim),
   placements |-> [i \in DOMAIN result.placements |->
                     IF result.placements[i] = NormPartial THEN Replicate
                     ELSE result.placements[i]]]

\* The elements a norm combines into its element e.
CombinedInto(e) ==
  IF result.dim = 0 THEN Elements
  ELSE LET index == UnravelIndex(e, NormSpec.shape)
       IN  {FlattenIndex(InsertAt(index, result.dim, k - 1), job.shape) :
              k \in 1 .. job.shape[result.dim]}

\* A norm counts every element once, in the result it belongs to, however the rows
\* are spread over the ranks (_dispatch.py ragged_norm_op_handler).
NormExact ==
  result.op = "norm" =>
     \A c \in Ranks :
        LET elements == FlatElements(NormSpec, c)
            parts == SetToSeq(Summands(result.placements, c, "norm"))
            Counted(k) == FlattenSeq([n \in DOMAIN parts |-> result.local[parts[n]][k]])
        IN  /\ \A n \in DOMAIN parts : Len(result.local[parts[n]]) = Len(elements)
            /\ \A k \in DOMAIN elements :
                 /\ Range(Counted(k)) = {Whole(e) : e \in CombinedInto(elements[k])}
                 /\ Len(Counted(k)) = Cardinality(CombinedInto(elements[k]))

\* A checkpoint holds every element as it is, once, whatever the placements it was
\* written under (vescale_utils/checkpoint.py _break_ragged_box).
SavedOnce == store # <<>> => \A e \in Elements : store[e] = {Whole(e)}

\* No rank is left in an exchange whose sizes disagree, or with operands that do
\* not fit: the others would wait for it (placement_types.py _to_new_ragged_shard).
NoError == raised = "none"
=============================================================================
