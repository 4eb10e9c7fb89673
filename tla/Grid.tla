-------------------------------- MODULE Grid --------------------------------
(***************************************************************************)
(* What a view promises, without strides or offsets: a box of indices, one *)
(* extension per dimension, and the element of the root array each tuple   *)
(* of indices names.  Every operation renames indices and reads no number  *)
(* but the indices.  The root array is in lexicographic order.  A cast     *)
(* counts it in the parts of its elements.                                 *)
(***************************************************************************)
EXTENDS Integers, Sequences, SequencesExt, FiniteSets

CONSTANTS
    Shapes,      \* extensions of the root arrays, leading dimension first
    Firsts,      \* first indices a dimension may be reindexed to
    Steps,       \* arguments of strided and partitioned
    Ratios       \* how many parts elements are made of that a cast looks into

VARIABLES
    extents,     \* the extension of every dimension
    element,     \* [tuples of indices -> elements of the root]
    call         \* the operation that made this view

vars == <<extents, element, call>>

Indices(x) == x[1] .. x[2] - 1
Count(x)   == x[2] - x[1]
From(first, n) == IF n = 0 THEN <<0, 0>> ELSE <<first, first + n>>

Box(xs) == {ix \in [1 .. Len(xs) -> UNION {Indices(xs[k]) : k \in 1 .. Len(xs)}] :
                \A k \in 1 .. Len(xs) : ix[k] \in Indices(xs[k])}

Before(ix, jx) == \E k \in DOMAIN ix : /\ \A h \in 1 .. k - 1 : ix[h] = jx[h]
                                       /\ ix[k] < jx[k]

Init == \E xs \in Shapes :
    /\ extents = xs
    /\ element = [ix \in Box(xs) |-> Cardinality({jx \in Box(xs) : Before(jx, ix)})]
    /\ call = "array"

(* The view with extensions xs whose index ix is the index Old(ix) of this one. *)
Become(op, xs, Old(_)) ==
    /\ extents' = xs
    /\ element' = [ix \in Box(xs) |-> element[Old(ix)]]
    /\ call' = op

Rank    == Len(extents)
Leading == Head(extents)
Others  == Tail(extents)
Lead(i, ix) == <<i>> \o Tail(ix)
Turned(s, r) == [k \in DOMAIN s |-> s[((k - 1 + r) % Len(s)) + 1]]

Index(i) ==
    /\ Rank > 0
    /\ i \in Indices(Leading)
    /\ Become("[]", Others, LAMBDA ix : <<i>> \o ix)

Rotated(r) ==
    /\ Rank > 0
    /\ Become("rotated", Turned(extents, r), LAMBDA ix : Turned(ix, -r))

Unrotated(r) ==
    /\ Rank > 0
    /\ Become("unrotated", Turned(extents, -r), LAMBDA ix : Turned(ix, r))

Transposed ==
    /\ Rank > 1
    /\ LET Swap(s) == <<s[2], s[1]>> \o SubSeq(s, 3, Len(s))
       IN  Become("transposed", Swap(extents), Swap)

Reindexed(first) ==
    /\ Rank > 0
    /\ Become("reindexed", <<From(first, Count(Leading))>> \o Others,
              LAMBDA ix : Lead(ix[1] - first + Leading[1], ix))

(* A slice starts at the index its parent starts at, a block at its own first index. *)
Sliced(first, last) ==
    /\ Rank > 0
    /\ Leading[1] <= first /\ first <= last /\ last <= Leading[2]
    /\ Become("sliced", <<From(Leading[1], last - first)>> \o Others,
              LAMBDA ix : Lead(ix[1] - Leading[1] + first, ix))

Blocked(first, last) ==
    /\ Rank > 0
    /\ Leading[1] <= first /\ first < last /\ last <= Leading[2]
    /\ Become("blocked", <<From(first, last - first)>> \o Others, LAMBDA ix : ix)

(* A slice of dimension n + 1, the others in their place. *)
Ranged(first, last, n) ==
    /\ n < Rank
    /\ LET x == extents[n + 1]
       IN  /\ x[1] <= first /\ first < last /\ last <= x[2]
           /\ Become("range", [extents EXCEPT ![n + 1] = From(x[1], last - first)],
                     LAMBDA ix : [ix EXCEPT ![n + 1] = @ - x[1] + first])

(* Two ranges at once: the call operator, A({1, 3}, {2, 5}). *)
Paren(f1, l1, f2, l2) ==
    /\ Rank > 1
    /\ LET x1 == extents[1]  x2 == extents[2]
       IN  /\ x1[1] <= f1 /\ f1 < l1 /\ l1 <= x1[2]
           /\ x2[1] <= f2 /\ f2 < l2 /\ l2 <= x2[2]
           /\ Become("()", [extents EXCEPT ![1] = From(x1[1], l1 - f1), ![2] = From(x2[1], l2 - f2)],
                     LAMBDA ix : [ix EXCEPT ![1] = @ - x1[1] + f1, ![2] = @ - x2[1] + f2])

(* Every s-th index; s divides the size and the first index. *)
Strided(s) ==
    /\ Rank > 0
    /\ Count(Leading) % s = 0 /\ Leading[1] % s = 0
    /\ Become("strided", <<From(Leading[1] \div s, Count(Leading) \div s)>> \o Others,
              LAMBDA ix : Lead(ix[1] * s, ix))

(* s rows of equal length in place of one, a dimension more. *)
Partitioned(s) ==
    /\ Rank > 0
    /\ Count(Leading) > 0 /\ Count(Leading) % s = 0
    /\ LET part == Count(Leading) \div s
       IN  Become("partitioned", <<<<0, s>>, From(Leading[1], part)>> \o Others,
                  LAMBDA ix : Lead(ix[1] * part + ix[2], Tail(ix)))

(* The two leading dimensions as one, a dimension less. *)
Flatted ==
    /\ Rank > 1
    /\ Count(extents[2]) > 0
    /\ LET x1 == extents[1]  x2 == extents[2]
       IN  Become("flatted", <<From(x2[1], Count(x1) * Count(x2))>> \o Tail(Others),
                  LAMBDA ix : <<x1[1] + (ix[1] - x2[1]) \div Count(x2),
                                x2[1] + ((ix[1] - x2[1]) % Count(x2))>> \o Tail(ix))

(* The equal pairs of the two leading dimensions, counted from where they start. *)
Diagonal ==
    /\ Rank > 1
    /\ LET x1 == extents[1]  x2 == extents[2]
           n  == IF Count(x1) < Count(x2) THEN Count(x1) ELSE Count(x2)
       IN  /\ n > 0
           /\ Become("diagonal", <<From(0, n)>> \o Tail(Others),
                      LAMBDA ix : <<x1[1] + ix[1], x2[1] + ix[1]>> \o Tail(ix))

(* The same part of every element, f of them in one ... *)
Member(f, part) ==
    /\ extents' = extents
    /\ element' = [ix \in Box(extents) |-> element[ix] * f + part]
    /\ call' = "member_cast"

(* ... or all of its parts, in a dimension after the others. *)
Parts(f) ==
    /\ extents' = Append(extents, <<0, f>>)
    /\ element' = [ix \in Box(extents') |-> element[Front(ix)] * f + Last(ix)]
    /\ call' = "reinterpret_array_cast"

(* The indices an end of a range may take in dimension k. *)
Ends(k) == IF k > Rank THEN {} ELSE extents[k][1] .. extents[k][2]

Next ==
    \/ \E i \in Ends(1) : Index(i)
    \/ \E r \in 0 .. Rank : Rotated(r) \/ Unrotated(r)
    \/ Transposed
    \/ \E first \in Firsts : Reindexed(first)
    \/ \E first, last \in Ends(1) : Sliced(first, last) \/ Blocked(first, last)
    \/ \E n \in 0 .. Rank - 1 : \E first, last \in Ends(n + 1) : Ranged(first, last, n)
    \/ \E f1, l1 \in Ends(1), f2, l2 \in Ends(2) : Paren(f1, l1, f2, l2)
    \/ \E s \in Steps : Strided(s) \/ Partitioned(s)
    \/ Flatted
    \/ Diagonal
    \/ \E f \in Ratios : Parts(f) \/ \E part \in 0 .. f - 1 : Member(f, part)

Spec == Init /\ [][Next]_vars

=============================================================================
