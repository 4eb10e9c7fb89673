------------------------------ MODULE MCArrays ------------------------------
EXTENDS Arrays

CONSTANTS Pool, One     \* another allocator, an element that is not the default

(* Programs with std::allocator, and with an allocator that has two values. *)
StandardProgram == [allocators |-> {Standard}, elements |-> {Default, One}]
PoolProgram     == [allocators |-> {Standard, Pool}, elements |-> {Default}]
BothPrograms    == {StandardProgram, PoolProgram}
StandardOnly    == {StandardProgram}
PoolOnly        == {PoolProgram}

(* A square, a column that meets it in part, and no rows, which turned are rows of nothing. *)
Squares == {<<<<0, 2>>, <<0, 2>>>>, <<<<1, 3>>, <<0, 1>>>>, <<<<0, 0>>, <<0, 2>>>>}
Line    == {<<<<0, 1>>, <<0, 2>>>>}

ZeroFirst == {0}

Nothing       == {}
Assignments   == {"assign"}
Constructions == {"construct"}
Everything    == {"assign", "construct"}
MoveAlone     == {"move"}
RowsAlone     == {"rows"}

Symmetry == Permutations(Arrays) \cup Permutations(Blocks)

(* Where an array without elements points to is read by nothing. *)
WithoutDangling ==
    <<program, [a \in Live |-> [array[a] EXCEPT !.base = IF NumElements(array[a].layout) = 0 THEN Null ELSE @]],
      heap, stopped>>
=============================================================================
