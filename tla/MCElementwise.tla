--------------------------- MODULE MCElementwise ---------------------------
EXTENDS Comparison

(* Eight elements as a 4x2 matrix, as a 2x2x2 cube and as a sequence. *)
Matrix == View(0, LayoutOf(<<<<0, 4>>, <<0, 2>>>>))
Cube   == View(0, LayoutOf(<<<<0, 2>>, <<0, 2>>, <<0, 2>>>>))

(* Sequences: rows, columns, a diagonal, windows that overlap, other first indices. *)
Sequences1 ==
    LET flat == FlatView(Matrix)  column == At1(RotateView(Matrix, 1), 1)
    IN  {At1(Matrix, 0), At1(Matrix, 3), ReindexView(At1(Matrix, 2), 1),
         column, Slice(column, 0, 2), StrideView(flat, 2), DiagonalView(Matrix),
         Slice(flat, 0, 4), Slice(flat, 1, 5), Slice(flat, 0, 3)}

(* Matrices: halves of the first, turned, strided and with other first indices. *)
Matrices ==
    {Matrix, Slice(Matrix, 0, 2), Slice(Matrix, 1, 3), Slice(Matrix, 2, 4),
     RotateView(Slice(Matrix, 0, 2), 1), RotateView(Slice(Matrix, 2, 4), 1),
     RotateView(Matrix, 1), StrideView(Matrix, 2), ReindexView(Slice(Matrix, 2, 4), 1),
     UnrotateView(ReindexView(RotateView(Slice(Matrix, 0, 2), 1), 1), 1)}

Cubes == {Cube, RotateView(Cube, 1), ReindexView(Cube, 1),
          UnrotateView(ReindexView(RotateView(Cube, 1), 1), 1),
          Slice(Cube, 0, 1), Slice(Cube, 1, 2), ReindexView(RotateView(Slice(Cube, 1, 2), 1), 0),
          RotateView(Slice(RotateView(Cube, 1), 1, 2), 2)}

SomeViews == Sequences1 \cup Matrices \cup Cubes
=============================================================================
