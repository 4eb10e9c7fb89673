------------------------------- MODULE MCBlas -------------------------------
EXTENDS Blas

OneToThree == 1 .. 3
NoneOrOne == {0, 1}
Nothing == {}
GemmAlone == {"gemm"}
PotrfAlone == {"potrf"}
Two == {2}
=============================================================================
