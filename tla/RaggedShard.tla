---------------------------- MODULE RaggedShard ----------------------------
(***************************************************************************)
(* Index arithmetic of the RaggedShard placement of veScale's DTensor       *)
(* (src/veScale/vescale/dtensor): which elements of a tensor a rank holds,  *)
(* and into which boxes they are cut for a checkpoint.                     *)
(*                                                                         *)
(* A mesh is the tuple of its dimensions' sizes, a coordinate of a rank a   *)
(* tuple of the same length counted from 0, a shape a tuple of sizes, and   *)
(* an element of a tensor is its row-major position, counted from 0.  A     *)
(* spec (DTensorSpec) is a record of mesh, shape and placements.  The       *)
(* dimensions of a RaggedShard are the first "dims" ones: the code raises    *)
(* for any other choice.                                                   *)
(***************************************************************************)
EXTENDS Integers, Sequences, SequencesExt

Replicate == [kind |-> "replicate"]
Shard(dim) == [kind |-> "shard", dim |-> dim]
Partial == [kind |-> "partial"]
Ragged(dims, units) == [kind |-> "ragged", dims |-> dims, units |-> units]

Product(s) ==
  LET product[n \in 0 .. Len(s)] == IF n = 0 THEN 1 ELSE product[n - 1] * s[n]
  IN  product[Len(s)]
Total(s) ==
  LET total[n \in 0 .. Len(s)] == IF n = 0 THEN 0 ELSE total[n - 1] + s[n]
  IN  total[Len(s)]
Smaller(a, b) == IF a < b THEN a ELSE b
Larger(a, b) == IF a < b THEN b ELSE a
Replaced(s, d, v) == [k \in DOMAIN s |-> IF k = d THEN v ELSE s[k]]
First(s, n) == SubSeq(s, 1, n)
After(s, n) == SubSeq(s, n + 1, Len(s))

Coordinates(mesh) ==
  {c \in [DOMAIN mesh -> UNION {0 .. (mesh[i] - 1) : i \in DOMAIN mesh}] :
     \A i \in DOMAIN mesh : c[i] < mesh[i]}

-----------------------------------------------------------------------------
(* Row-major indices. *)

\* How far apart neighbours in a dimension are.
Strides(shape) == [k \in DOMAIN shape |-> Product(After(shape, k))]

UnravelIndex(idx, shape) ==
  LET strides == Strides(shape)
  IN  [k \in DOMAIN shape |-> (idx \div strides[k]) % shape[k]]

FlattenIndex(index, shape) ==
  LET strides == Strides(shape)
  IN  Total([k \in DOMAIN shape |-> index[k] * strides[k]])

\* The elements of a box of a tensor, in the order in which the box stores them.
BoxElements(box, shape) ==
  [p \in 1 .. Product(box.sizes) |->
     LET at == UnravelIndex(p - 1, box.sizes)
     IN  FlattenIndex([k \in DOMAIN shape |-> at[k] + box.offsets[k]], shape)]

-----------------------------------------------------------------------------
(* What torch does for Shard and Replicate (external). *)

ChunkStart(size, parts, i) == Smaller(i * ((size + parts - 1) \div parts), size)

\* The box of a rank under placements without RaggedShard: each Shard cuts what
\* the earlier ones left, with the sizes of torch.chunk.
ShardBox(spec, c) ==
  LET Cut(box, i) ==
        IF spec.placements[i].kind # "shard" THEN box
        ELSE LET d == spec.placements[i].dim
                 start == ChunkStart(box.sizes[d], spec.mesh[i], c[i])
                 end == ChunkStart(box.sizes[d], spec.mesh[i], c[i] + 1)
             IN  [sizes |-> Replaced(box.sizes, d, end - start),
                  offsets |-> Replaced(box.offsets, d, box.offsets[d] + start)]
  IN  FoldLeft(Cut, [sizes |-> spec.shape, offsets |-> [k \in DOMAIN spec.shape |-> 0]],
               [i \in DOMAIN spec.mesh |-> i])

-----------------------------------------------------------------------------
(* RaggedShard. *)

HasRagged(placements) == \E i \in DOMAIN placements : placements[i].kind = "ragged"

GetRaggedShard(placements) ==
  CHOOSE i \in DOMAIN placements : placements[i].kind = "ragged"

\* get_ragged_shard raises for other sequences: one RaggedShard, and nothing but
\* Replicate before it.
PlacementsAllowed(placements) ==
  HasRagged(placements) =>
     \A i, j \in DOMAIN placements :
        /\ placements[i].kind = "ragged" /\ placements[j].kind = "ragged" => i = j
        /\ placements[i].kind = "ragged" /\ j < i => placements[j].kind = "replicate"

SubstituteRaggedWithReplicate(placements) ==
  [i \in DOMAIN placements |->
     IF placements[i].kind = "ragged" THEN Replicate ELSE placements[i]]

\* The box that RaggedShard cuts up: it is applied after all other placements.
BoxBeforeRagged(spec, c) ==
  ShardBox([spec EXCEPT !.placements = SubstituteRaggedWithReplicate(@)], c)

\* Bounds of the i-th of the slices of n elements that units describe.
SliceStart(units, n, i) == Total(First(units, i)) * (n \div Total(units))
SliceEnd(units, n, i) == SliceStart(units, n, i + 1)

\* The elements a rank holds, in the order of its flat local tensor.
FlatElements(spec, c) ==
  LET box == BoxBeforeRagged(spec, c)
      elements == BoxElements(box, spec.shape)
  IN  IF ~HasRagged(spec.placements) THEN elements
      ELSE LET i == GetRaggedShard(spec.placements)
               units == spec.placements[i].units
           IN  SubSeq(elements, SliceStart(units, Len(elements), c[i]) + 1,
                                SliceEnd(units, Len(elements), c[i]))

Nothing == [sizes |-> <<0>>, offsets |-> <<>>]

\* Shape and offset of the local tensor with the ragged dimensions flattened
\* into one.  The offset in that dimension weighs the global offset of all but
\* the last ragged dimension with the size of the next one.
ComputeLocalShapeAndGlobalOffset(spec, c) ==
  LET box == BoxBeforeRagged(spec, c)
      i == GetRaggedShard(spec.placements)
      n == spec.placements[i].dims
      units == spec.placements[i].units
      ratio == Product(First(box.sizes, n)) \div Total(units)
      weights == Append(SubSeq(spec.shape, 2, n), 1)
      flat == Total([k \in 1 .. n |-> box.offsets[k] * weights[k]])
  IN  IF ~HasRagged(spec.placements) THEN box
      ELSE IF units[c[i] + 1] = 0 THEN Nothing
      ELSE IF n = 0 THEN box
      ELSE [sizes |-> <<units[c[i] + 1] * ratio>> \o After(box.sizes, n),
            offsets |-> <<flat + Total(First(units, c[i])) * ratio>>
                        \o After(box.offsets, n)]

-----------------------------------------------------------------------------
(* Boxes for a checkpoint.  A run of rows need not be a box: it is cut into   *)
(* the rest of the first, smaller and smaller blocks up to a whole one, whole *)
(* ones, and blocks that get smaller again.                                  *)

\* The successor of a coordinate; a carry stops at the first dimension.
CvtInclusiveToExclusive(coord, shape) ==
  LET Carried(k) == \A m \in (k + 1) .. Len(shape) : coord[m] + 1 = shape[m]
  IN  [k \in DOMAIN shape |->
         IF ~Carried(k) THEN coord[k]
         ELSE IF k > 1 /\ coord[k] + 1 = shape[k] THEN 0
         ELSE coord[k] + 1]

Ones(n) == [k \in 1 .. n |-> 1]
BlockSizes(shape, i, size) == Ones(i - 1) \o <<size>> \o After(shape, i)

\* From start up to a coordinate that is 0 behind dimension j.
LeadingBoxes_Mutant(start, shape, j) ==
  LET Fill(w, i) ==
        IF w.at[i] = 0 THEN w
        ELSE [at |-> [w.at EXCEPT ![i] = 0],
              boxes |-> Append(w.boxes,
                  [sizes |-> BlockSizes(shape, i, shape[i] - w.at[i]),
                   offsets |-> w.at])]
  IN  FoldLeft(Fill, [at |-> start, boxes |-> <<>>],
               Reverse([k \in 1 .. (Len(shape) - j) |-> j + k]))
LeadingBoxes(start, shape, j) ==
  LET Fill(w, i) ==
        IF w.at[i] = 0 THEN w
        ELSE [at |-> [w.at EXCEPT ![i] = 0, ![i - 1] = @ + 1],
              boxes |-> Append(w.boxes,
                  [sizes |-> BlockSizes(shape, i, shape[i] - w.at[i]),
                   offsets |-> w.at])]
  IN  FoldLeft(Fill, [at |-> start, boxes |-> <<>>],
               Reverse([k \in 1 .. (Len(shape) - j) |-> j + k]))

\* From a coordinate that is 0 behind dimension j up to end.
TrailingBoxes(end, shape, j) ==
  LET Cut(w, i) ==
        IF w.at[i] = 0 THEN w
        ELSE LET at == [w.at EXCEPT ![i] = 0]
             IN  [at |-> at,
                  boxes |-> <<[sizes |-> BlockSizes(shape, i, w.at[i]),
                               offsets |-> at]>> \o w.boxes]
  IN  FoldLeft(Cut, [at |-> end, boxes |-> <<>>],
               Reverse([k \in 1 .. (Len(shape) - j) |-> j + k])).boxes

\* Boxes of the rows [start, end) of a block of the given shape.
BoxesBetween(start, end, shape) ==
  LET from == UnravelIndex(start, shape)
      to == CvtInclusiveToExclusive(UnravelIndex(end - 1, shape), shape)
      j == SelectInSeq([k \in DOMAIN shape |-> from[k] # to[k]], LAMBDA differ : differ)
      leading == LeadingBoxes(from, shape, j)
      whole == to[j] - leading.at[j]
  IN  IF j = Len(shape)
      THEN <<[sizes |-> BlockSizes(shape, j, to[j] - from[j]), offsets |-> from]>>
      ELSE leading.boxes
           \o (IF whole > 0
               THEN <<[sizes |-> BlockSizes(shape, j, whole), offsets |-> leading.at]>>
               ELSE <<>>)
           \o TrailingBoxes(to, shape, j)

\* The boxes a rank writes and reads, in the order of its local tensor.
BreakRaggedBox(spec, c) ==
  LET i == GetRaggedShard(spec.placements)
      n == spec.placements[i].dims
      box == BoxBeforeRagged(spec, c)
      local == ComputeLocalShapeAndGlobalOffset(spec, c)
      weights == Append(SubSeq(spec.shape, 2, n), 1)
      start == local.offsets[1] - Total([k \in 1 .. n |-> box.offsets[k] * weights[k]])
      boxes == BoxesBetween(start, start + local.sizes[1], First(box.sizes, n))
  IN  IF local = Nothing THEN <<>>
      ELSE IF Len(local.sizes) = Len(spec.shape)
           THEN <<local>>
           ELSE [k \in DOMAIN boxes |->
                   [sizes |-> boxes[k].sizes \o After(local.sizes, 1),
                    offsets |-> [d \in 1 .. n |-> boxes[k].offsets[d] + box.offsets[d]]
                                \o After(local.offsets, 1)]]

=============================================================================
