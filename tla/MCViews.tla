------------------------------ MODULE MCViews -------------------------------
EXTENDS Views

(* A sequence and a matrix whose indices start elsewhere than at 0; partitions add dimensions. *)
SmallShapes  == {<<<<2, 6>>>>, <<<<1, 3>>, <<0, 2>>>>, <<<<1, 3>>>>}
FromOne      == {1}
(* The smallest arrays that show what the assertions let through. *)
OneBased     == {<<<<1, 5>>>>}
OneBasedRows == {<<<<0, 3>>, <<1, 4>>>>}
ThreeRows    == {<<<<0, 3>>, <<0, 4>>>>}
Box234       == {<<<<0, 2>>, <<0, 3>>, <<0, 4>>>>}
NoColumns    == {<<<<0, 5>>, <<0, 0>>>>}

ZeroFirst    == {0}
Halves       == {2}

Nothing        == {}
StridedAlone   == {"strided"}
PartitionAlone == {"partitioned"}
DiagonalAlone  == {"diagonal"}
RangeAlone     == {"range"}
PartsAlone     == {"reinterpret_array_cast"}

(* No step, and no property but the promise's own record of it, depends on the last call. *)
WithoutCall == <<base, layout, room>>
=============================================================================
