---------------------------- MODULE MCLifetimes ----------------------------
EXTENDS Lifetimes

SomeTotals == 0 .. 4
EvenRows   == {<<1, 1, 1>>, <<2, 2>>, <<2, 2, 2>>, <<3, 3>>}
(* A row shorter and a row longer than the first. *)
Ragged     == {<<2, 1>>, <<2, 3, 2>>}

Nothing   == {}
RowsAlone == {"rows"}
=============================================================================
