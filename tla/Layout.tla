------------------------------- MODULE Layout -------------------------------
(***************************************************************************)
(* The index arithmetic of Multi (detail/layout.hpp, layout_t<D>): how a   *)
(* tuple of indices becomes an offset from a base pointer.  The nested     *)
(* sub_ members are a sequence here, the leading dimension first, so that  *)
(* sub_ is Tail.  A dimension holds stride_, offset_ and nelems_, all of   *)
(* them counted in elements; an extension is a pair <<first, last>>, last  *)
(* excluded.                                                               *)
(***************************************************************************)
EXTENDS Integers, Sequences, SequencesExt

Dim(stride, offset, nelems) == [stride |-> stride, offset |-> offset, nelems |-> nelems]

(* Integer division as the language does it for a positive divisor: towards zero. *)
Quot(a, b) == IF a >= 0 THEN a \div b ELSE -((-a) \div b)

Indices(x) == x[1] .. x[2] - 1
Count(x)   == x[2] - x[1]

(***************************************************************************)
(* One dimension.  Every empty range compares equal to every other         *)
(* (index_range.hpp, operator==), so the empty extension has one form.     *)
(***************************************************************************)
Size(d)      == IF d.nelems = 0 THEN 0 ELSE Quot(d.nelems, d.stride)
Extension(d) == IF d.nelems = 0 THEN <<0, 0>>
                ELSE <<Quot(d.offset, d.stride), Quot(d.offset + d.nelems, d.stride)>>
Shift(d, i)  == i * d.stride - d.offset

(* A whole number of strides from a whole stride on, as the disabled assertions of *)
(* size() have it (layout.hpp:193, 198): no division drops a remainder.             *)
Dims == [stride : Int, offset : Int, nelems : Nat]
WholeDim(d) == /\ d.stride > 0
               /\ d.nelems % d.stride = 0
               /\ d.offset % d.stride = 0

(* Mutant: the offset is the first index itself, not that many strides. *)
ReindexUnscaled(d, first) == [d EXCEPT !.offset = first]

Reindex(d, first) == [d EXCEPT !.offset = first * d.stride]

Sizes(L)       == [k \in DOMAIN L |-> Size(L[k])]
Extensions(L)  == [k \in DOMAIN L |-> Extension(L[k])]

Product(s) ==
    LET upto[k \in 0 .. Len(s)] == IF k = 0 THEN 1 ELSE upto[k - 1] * s[k]
    IN  upto[Len(s)]
NumElements(L) == Product(Sizes(L))

(* The farthest any dimension reaches: the elements of an array, and more of a view with gaps. *)
BaseSize(L)  == FoldLeft(LAMBDA n, d : IF d.nelems > n THEN d.nelems ELSE n, 0, L)
IsCompact(L) == BaseSize(L) = NumElements(L)

(* How far from the base the element of a tuple of indices is. *)
Position(L, ix) ==
    LET walk[k \in 0 .. Len(ix)] ==
            IF k = 0 THEN 0 ELSE walk[k - 1] + Shift(L[k], ix[k])
    IN  walk[Len(ix)]

(* The tuples of indices of a list of extensions. *)
Longer(some, x) == {Append(ix, i) : ix \in some, i \in Indices(x)}
Box(xs) ==
    LET upto[k \in 0 .. Len(xs)] == IF k = 0 THEN {<<>>} ELSE Longer(upto[k - 1], xs[k])
    IN  upto[Len(xs)]

(***************************************************************************)
(* The layout of a new array: dimension by dimension, the last one first.  *)
(***************************************************************************)
(* Mutant: the offset counted in elements of the sub-array instead of in strides. *)
WithDimensionFlatOffset(x, sub) ==
    LET stride == IF sub = <<>> THEN 1 ELSE Size(Head(sub)) * Head(sub).stride
    IN  <<Dim(stride, x[1], Count(x) * NumElements(sub))>> \o sub

WithDimension(x, sub) ==
    LET stride == IF sub = <<>> THEN 1 ELSE Size(Head(sub)) * Head(sub).stride
    IN  <<Dim(stride, x[1] * stride, Count(x) * NumElements(sub))>> \o sub

LayoutOf(xs) ==
    LET last[k \in 0 .. Len(xs)] ==
            IF k = 0 THEN <<>> ELSE WithDimension(xs[Len(xs) - k + 1], last[k - 1])
    IN  last[Len(xs)]

(***************************************************************************)
(* Rearranging the dimensions.  rotate(r) turns r times; a negative r is   *)
(* turned into D - r, which is what the code computes, not D + r.          *)
(***************************************************************************)
Turn(L, r) == [k \in DOMAIN L |-> L[((k - 1 + r) % Len(L)) + 1]]

(* Mutant: the sub-layout is not rotated in turn, only the two leading dimensions swap. *)
RotateShallow(L, r) == IF Len(L) < 2 \/ r = 0 THEN L ELSE <<L[2], L[1]>> \o SubSeq(L, 3, Len(L))

Rotate(L, r)   == IF Len(L) < 2 THEN L ELSE Turn(L, IF r >= 0 THEN r ELSE Len(L) - r)
Unrotate(L, r) == IF Len(L) < 2 THEN L ELSE Turn(L, -(IF r >= 0 THEN r ELSE Len(L) - r))

Transpose(L) == <<L[2], L[1]>> \o SubSeq(L, 3, Len(L))

=============================================================================
