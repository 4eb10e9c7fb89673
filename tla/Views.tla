------------------------------- MODULE Views --------------------------------
(***************************************************************************)
(* Array views (array_ref.hpp, basic_array): a base pointer and a layout.  *)
(* A client holds one view and replaces it by what an operation returns;   *)
(* the operations chain in any order, so a layout goes through states no   *)
(* constructor builds.  The base is counted in elements of the root array. *)
(*                                                                         *)
(* An operation's guard is what the code needs to be defined, and what the *)
(* documentation asks of the caller.  Unchecked names operations that are  *)
(* called on the strength of the code's own assertions alone.              *)
(***************************************************************************)
EXTENDS BasicArray, FiniteSets

CONSTANTS
    Shapes,      \* extensions of the root arrays, leading dimension first
    Firsts,      \* first indices a dimension may be reindexed to
    Steps,       \* arguments of strided and partitioned
    Ratios,      \* how many parts elements are made of that a cast looks into
    MaxRank,     \* bound on the number of dimensions
    MaxRoom,     \* bound on the parts the root array is counted in
    MaxStride,   \* bound on strides: those of dimensions with one index or none grow without end
    Unchecked    \* operations called with no more care than assertions demand

ASSUME StepsAssumption   == Steps \subseteq Nat \ {0}
ASSUME RatiosAssumption  == Ratios \subseteq Nat \ {0}
ASSUME FirstsAssumption  == Firsts \subseteq Int
ASSUME BoundsAssumption == MaxRank \in Nat /\ MaxRoom \in Nat /\ MaxStride \in Nat
ASSUME ShapesAssumption  ==
    \A xs \in Shapes : xs \in Seq(Int \X Int) /\ \A k \in 1 .. Len(xs) : xs[k][1] <= xs[k][2]

VARIABLES
    base,        \* base_
    layout,      \* layout()
    room,        \* ghost: number of elements of the root array, or of their parts after a cast
    call         \* ghost: the operation that made this view

vars == <<base, layout, room, call>>

Rank     == Len(layout)
Leading  == Head(layout)
Others   == Tail(layout)
Careful(op) == op \notin Unchecked

This == View(base, layout)

(***************************************************************************)
(* The state machine.  Empty dimensions divide by zero in sliced, and with *)
(* it in every range: no operation that slices may meet one.               *)
(***************************************************************************)
Init == \E xs \in Shapes :
    /\ base = 0
    /\ layout = LayoutOf(xs)
    /\ room = NumElements(LayoutOf(xs))
    /\ call = "array"

Become(op, v) == /\ base' = v.base
                 /\ layout' = v.layout
                 /\ call' = op
                 /\ room' = room

Within(d, first, last) == /\ Size(d) > 0
                          /\ Extension(d)[1] <= first
                          /\ first <= last
                          /\ last <= Extension(d)[2]

Index(i) == /\ Rank > 0
            /\ i \in Indices(Extension(Leading))
            /\ Become("[]", At1(This, i))

Rotated(r)   == Rank > 0 /\ Become("rotated", RotateView(This, r))
Unrotated(r) == Rank > 0 /\ Become("unrotated", UnrotateView(This, r))
Transposed   == Rank > 1 /\ Become("transposed", View(base, Transpose(layout)))

Reindexed(first) == Rank > 0 /\ Become("reindexed", ReindexView(This, first))

Sliced(first, last) == /\ Rank > 0
                       /\ Within(Leading, first, last)
                       /\ Become("sliced", Slice(This, first, last))

Blocked(first, last) == /\ Rank > 0
                        /\ Within(Leading, first, last)
                        /\ first < last
                        /\ Become("blocked", ReindexView(Slice(This, first, last), first))

(* range(ir, n) is rotated(n).range(ir).rotated(-n): it comes back for two dimensions only. *)
Ranged(first, last, n) ==
    /\ Rank > 1
    /\ n < Rank
    /\ Careful("range") => (Rank = 2 \/ n = 0)
    /\ Within(layout[n + 1], first, last)
    /\ first < last
    /\ Become("range", RotateView(Slice(RotateView(This, n), first, last), -n))

Paren(f1, l1, f2, l2) == /\ Rank > 1
                         /\ Within(layout[1], f1, l1) /\ f1 < l1
                         /\ Within(layout[2], f2, l2) /\ f2 < l2
                         /\ Become("()", ParenView(This, f1, l1, f2, l2))

(* The step has to divide the size, and the first index where there is one. *)
Strided(s) == /\ Rank > 0
              /\ Size(Leading) % s = 0
              /\ Leading.stride * s <= MaxStride
              /\ Careful("strided") => Quot(Leading.offset, Leading.stride) % s = 0
              /\ Become("strided", StrideView(This, s))

(* The assertion looks at nelems_; a part is a whole number of rows only if s divides the size. *)
Partitioned(s) == /\ Rank \in 1 .. MaxRank - 1
                  /\ Size(Leading) > 0
                  /\ Leading.nelems % s = 0
                  /\ Careful("partitioned") => Size(Leading) % s = 0
                  /\ Become("partitioned", PartitionView(This, s))

Flatted == /\ Rank > 1
           /\ Size(layout[2]) > 0
           /\ layout[1].stride = layout[2].nelems
           /\ Become("flatted", FlatView(This))

(* The second dimension has to start at 0, which no assertion asks. *)
Diagonal == /\ Rank > 1
            /\ Size(layout[1]) > 0 /\ Size(layout[2]) > 0
            /\ layout[1].stride + layout[2].stride <= MaxStride
            /\ Careful("diagonal") => Extension(layout[2])[1] = 0
            /\ Become("diagonal", DiagonalView(This))

(* A cast counts the root in parts: f elements of the new type in one of the old. *)
Recast(op, v, f) == /\ room * f <= MaxRoom
                    /\ base' = v.base
                    /\ layout' = v.layout
                    /\ room' = room * f
                    /\ call' = op

(* member_cast, and for part 0 reinterpret_array_cast. *)
Member(f, part) == Rank > 0 /\ Recast("member_cast", MemberView(This, f, part), f)

(* reinterpret_array_cast(n) asserts that n is f, but for one dimension the assertion is gone. *)
Parts(f, n) ==
    /\ Rank \in 1 .. MaxRank - 1
    /\ n = f \/ (Rank = 1 /\ ~ Careful("reinterpret_array_cast"))
    /\ Recast("reinterpret_array_cast", PartsView(This, f, n), f)

Ends(k) == IF k > Rank THEN {} ELSE Extension(layout[k])[1] .. Extension(layout[k])[2]

Next ==
    \/ \E i \in Ends(1) : Index(i)
    \/ \E r \in 0 .. Rank : Rotated(r) \/ Unrotated(r)
    \/ Transposed
    \/ \E first \in Firsts : Reindexed(first)
    \/ \E first, last \in Ends(1) : Sliced(first, last) \/ Blocked(first, last)
    \/ \E n \in 0 .. Rank - 1 : \E first, last \in Ends(n + 1) : Ranged(first, last, n)
    \/ \E f1, l1 \in Ends(1), f2, l2 \in Ends(2) : Paren(f1, l1, f2, l2)
    \/ \E s \in Steps : Strided(s) \/ Partitioned(s)
    \/ Flatted
    \/ Diagonal
    \/ \E f \in Ratios : \/ \E n \in 1 .. f + 1 : Parts(f, n)
                       \/ \E part \in 0 .. f - 1 : Member(f, part)

Spec == Init /\ [][Next]_vars

(***************************************************************************)
(* Properties.                                                             *)
(***************************************************************************)
Tuples  == Box(Extensions(layout))
Cells   == {Address(This, ix) : ix \in Tuples}

(* Types: a base in the root, and per dimension no negative count. *)
ViewsTypeOK == /\ base \in Int
               /\ layout \in Seq(Dims)
               /\ room \in Nat

(* Every dimension is a whole number of strides and starts at a whole stride, what *)
(* the disabled assertions of size() ask (layout.hpp:193, 198): no chain of        *)
(* operations leaves a remainder that a division would drop.                       *)
Whole == \A k \in DOMAIN layout : WholeDim(layout[k])

(* An index that passes the assertion of operator[], extension().contains(i), in every *)
(* dimension, reaches an element of the root array.                                    *)
InBounds == Cells \subseteq 0 .. room - 1

(* No element has two names in one view: rotations, slices, strides, partitions and    *)
(* diagonals never make dimensions overlap.                                            *)
NoAlias == Cardinality(Cells) = Cardinality(Tuples)

(* Iterators and indices agree: i steps from begin() stand on the sub-array of the     *)
(* i-th index, size() steps stand on end(), and so far apart the two say they are.     *)
TraversalMatchesIndices ==
    Rank > 0 =>
        LET size == Size(Leading)
        IN  /\ \A i \in 0 .. size - 1 :
                  Pointee(Advanced(Begin(This), i)) = At1(This, Extension(Leading)[1] + i)
            /\ Advanced(Begin(This), size) = End(This)
            /\ Distance(Begin(This), End(This)) = size

(* So do those along another dimension, begin(n) to end(n), where its indices start at 0: *)
(* they walk over the first index of rotated(n).                                          *)
TraversalAlong(n) ==
    LET view == RotateView(This, n)
        size == Size(Head(view.layout))
    IN  /\ \A i \in 0 .. size - 1 : Pointee(Advanced(BeginAlong(This, n), i)) = At1(view, i)
        /\ Advanced(BeginAlong(This, n), size) = EndAlong(This, n)
TraversalOfAnyDimension ==
    \A n \in 0 .. Rank - 1 : layout[n + 1].offset = 0 => TraversalAlong(n)

(* begin(0) is equivalent to begin(), as the README has it (README.md:216). *)
BeginZeroIsBegin == Rank > 0 => BeginAlong(This, 0) = Begin(This)

(* No dimension has stride 0, which sizes and distances are divided by: default layouts *)
(* are built so (layout.hpp:334) and iterators assert it (array_ref.hpp:250).            *)
NonZeroStrides == \A k \in DOMAIN layout : layout[k].stride # 0

(* partitioned keeps every element, as its test says of num_elements (partitioned.cpp:36). *)
PartitionKeepsElements ==
    [][call' = "partitioned" => NumElements(layout') = NumElements(layout)]_vars

(* range(ir, n) leaves the dimensions in their order, as the rotated(1) ... rotated(-1) of *)
(* the README does: all sizes but one stay where they were.                                *)
RangeInPlace ==
    [][call' = "range" => \E k \in DOMAIN layout : \A h \in DOMAIN layout \ {k} :
                              Sizes(layout')[h] = Sizes(layout)[h]]_vars

(* A chain of operations names the elements the chain of renamings of Grid names. *)
Promise == INSTANCE Grid WITH extents <- Extensions(layout),
                              element <- [ix \in Tuples |-> Address(This, ix)]
ImplementsGrid == Promise!Spec

=============================================================================
