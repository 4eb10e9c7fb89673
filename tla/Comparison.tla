----------------------------- MODULE Comparison -----------------------------
(***************************************************************************)
(* Comparing views (array_ref.hpp, operator== and operator<): extensions   *)
(* first, then rows, then the elements of rows, through iterators.         *)
(***************************************************************************)
EXTENDS Elementwise

(* The rows from begin() on. *)
Row(v, i) == Pointee(Advanced(Begin(v), i))
RowNumbers(v) == 0 .. Size(Head(v.layout)) - 1
First(v) == Extension(Head(v.layout))[1]

(* Mutant: sizes are compared where extensions should be. *)
EqualBySize(m, v, w) ==
    LET equal[k \in 0 .. Rank(v)] ==
            [x \in AllViews |-> [y \in AllViews |->
                IF k = 0 THEN m[x.base] = m[y.base]
                ELSE /\ SameSize(x, y)
                     /\ \A i \in RowNumbers(x) : equal[k - 1][Row(x, i)][Row(y, i)]]]
    IN  equal[Rank(v)][v][w]

(* Views of k dimensions are compared by the rows they have, of k - 1. *)
Equal(m, v, w) ==
    LET equal[k \in 0 .. Rank(v)] ==
            [x \in AllViews |-> [y \in AllViews |->
                IF k = 0 THEN m[x.base] = m[y.base]
                ELSE /\ SameExtension(x, y)
                     /\ \A i \in RowNumbers(x) : equal[k - 1][Row(x, i)][Row(y, i)]]]
    IN  equal[Rank(v)][v][w]

(* Rows decide, where less is less among rows: the first that is less, or that there *)
(* are no more of them.                                                              *)
LessByRows(x, y, less) ==
    \E i \in 0 .. Size(Head(x.layout)) :
        /\ i < Size(Head(y.layout))
        /\ \A j \in 0 .. i - 1 : ~less[Row(y, j)][Row(x, j)]
        /\ i = Size(Head(x.layout)) \/ less[Row(x, i)][Row(y, i)]

(* Mutant: a view that starts at a smaller index is compared by its elements. *)
LessByElements(m, v, w) ==
    LET less[k \in 0 .. Rank(v)] ==
            [x \in AllViews |-> [y \in AllViews |->
                IF k = 0 THEN m[x.base] < m[y.base]
                ELSE First(x) > First(y) \/ LessByRows(x, y, less[k - 1])]]
    IN  less[Rank(v)][v][w]

(* A view that starts at a larger index is less; of two that start together rows decide. *)
Less(m, v, w) ==
    LET less[k \in 0 .. Rank(v)] ==
            [x \in AllViews |-> [y \in AllViews |->
                IF k = 0 THEN m[x.base] < m[y.base]
                ELSE \/ First(x) > First(y)
                     \/ First(x) = First(y) /\ LessByRows(x, y, less[k - 1])]]
    IN  less[Rank(v)][v][w]

(***************************************************************************)
(* Properties.                                                             *)
(***************************************************************************)
Comparable == op \notin {"none", "fill"}
SameIndices == Extensions(to.layout) = Extensions(from.layout)

(* Views are equal when they have the same indices and, at each, the same value: what *)
(* the walk over rows with their own strides finds is what indexing finds.            *)
EqualMatchesIndices ==
    Comparable =>
        (Equal(memory, to, from) <=>
            /\ SameIndices
            /\ \A ix \in Box(Extensions(to.layout)) :
                   memory[Address(to, ix)] = memory[Address(from, ix)])

(* Of two views of the same dimensions, with any extensions, exactly one is less or they *)
(* are equal, and less is transitive: views can be sorted.                               *)
TotalOrder ==
    Comparable =>
        /\ Cardinality({b \in {"<", "=", ">"} : \/ b = "<" /\ Less(memory, to, from)
                                                \/ b = "=" /\ Equal(memory, to, from)
                                                \/ b = ">" /\ Less(memory, from, to)}) = 1
        /\ \A w \in Operands :
               (Rank(w) = Rank(to) /\ Less(memory, to, from) /\ Less(memory, from, w)) =>
                   Less(memory, to, w)

=============================================================================
