---------------------------- MODULE BlasLibrary -----------------------------
(***************************************************************************)
(* What the adaptors of Multi expect of BLAS and LAPACK: the routines work *)
(* on matrices stored by columns, the element (i, j) of a matrix at        *)
(* base + i + j * ld, indices from 0, and on vectors at base + i * inc.    *)
(*                                                                         *)
(* Numbers are not computed.  A routine leaves equations between sums of   *)
(* products of the numbers in memory before and after it, which say what   *)
(* numbers would for every content of the operands.  A product is the set  *)
(* of its factors, a sum the set of its products, and an equation goes     *)
(* with its conjugate, which says the same.                                *)
(***************************************************************************)
EXTENDS Integers, Sequences

Factor(what, cell, conj) == [what |-> what, cell |-> cell, conj |-> conj]
Old(cell, conj) == Factor("old", cell, conj)
New(cell)       == Factor("new", cell, FALSE)
Alpha(conj)     == Factor("alpha", 0, conj)
Beta(conj)      == Factor("beta", 0, conj)
RealAlpha       == Factor("real", 1, FALSE)
RealBeta        == Factor("real", 2, FALSE)

Conjugate(f)    == IF f.what = "real" THEN f ELSE [f EXCEPT !.conj = ~@]
ConjugateSum(s) == {{Conjugate(f) : f \in p} : p \in s}

Equation(left, right) ==
    {<<left, right>>, <<ConjugateSum(left), ConjugateSum(right)>>}

Upto(n) == 0 .. n - 1

(* A leading dimension is at least the rows, and never 0. *)
Leads(ld, rows) == ld >= rows /\ ld >= 1

(* The element (i, j) of op(A), for the A at base. *)
Element(trans, base, ld, i, j) ==
    IF trans = "N" THEN Old(base + i + j * ld, FALSE) ELSE Old(base + j + i * ld, trans = "C")

(* Is the element (i, j) of op(A) one of the triangle of A? *)
InTriangle(uplo, trans, i, j) == IF (uplo = "U") = (trans = "N") THEN i <= j ELSE i >= j

(***************************************************************************)
(* The routines.  A request r holds what the adaptor passes, under the     *)
(* names the library gives it; beta is the set of its value and, when it   *)
(* is zero, empty.                                                         *)
(***************************************************************************)

(* Beside a sum, what beta leaves of the element that was there. *)
Kept(r, cell) == {{beta, Old(cell, FALSE)} : beta \in r.beta}

(* C := alpha op(A) op(B) + beta C *)
Gemm(r) ==
    {Equation({{New(r.c + i + j * r.ldc)}},
              {{r.alpha, Element(r.transa, r.a, r.lda, i, p), Element(r.transb, r.b, r.ldb, p, j)}
                  : p \in Upto(r.k)} \union Kept(r, r.c + i + j * r.ldc))
       : i \in Upto(r.m), j \in Upto(r.n)}

(* y := alpha op(A) x + beta y *)
Gemv(r) ==
    LET rows == IF r.trans = "N" THEN r.m ELSE r.n
        cols == IF r.trans = "N" THEN r.n ELSE r.m
    IN  {Equation({{New(r.y + i * r.incy)}},
                  {{r.alpha, Element(r.trans, r.a, r.lda, i, p), Old(r.x + p * r.incx, FALSE)}
                      : p \in Upto(cols)} \union Kept(r, r.y + i * r.incy))
           : i \in Upto(rows)}

(* A triangle of C := alpha op(A) op(A)' + beta C, with ' the adjoint or the transpose. *)
RankK(r, adjoint) ==
    LET left(i, p)  == Element(r.trans, r.a, r.lda, i, p)
        right(j, p) == IF adjoint THEN Conjugate(left(j, p)) ELSE left(j, p)
    IN  {Equation({{New(r.c + i + j * r.ldc)}},
                  {{r.alpha, left(i, p), right(j, p)} : p \in Upto(r.k)}
                      \union Kept(r, r.c + i + j * r.ldc))
           : <<i, j>> \in {ij \in Upto(r.n) \X Upto(r.n) : InTriangle(r.uplo, "N", ij[1], ij[2])}}

(* op(A) X = alpha B or X op(A) = alpha B with a triangular A; X takes the place of B. *)
Solve(r) ==
    LET at(i, j)  == r.b + i * r.incb + j * r.ldb
        a(i, j)   == IF i = j /\ r.diag = "U" THEN {} ELSE {Element(r.trans, r.a, r.lda, i, j)}
        left(i, j)  == {a(i, p) \union {New(at(p, j))}
                          : p \in {q \in Upto(r.m) : InTriangle(r.uplo, r.trans, i, q)}}
        right(i, j) == {a(p, j) \union {New(at(i, p))}
                          : p \in {q \in Upto(r.n) : InTriangle(r.uplo, r.trans, q, j)}}
    IN  {Equation(IF r.side = "L" THEN left(i, j) ELSE right(i, j), {{r.alpha, Old(at(i, j), FALSE)}})
           : i \in Upto(r.m), j \in Upto(r.n)}

(* A := A + alpha x y' *)
Ger(r) ==
    {Equation({{New(r.a + i + j * r.lda)}},
              {{r.alpha, Old(r.x + i * r.incx, FALSE), Old(r.y + j * r.incy, FALSE)},
               {Old(r.a + i + j * r.lda, FALSE)}})
       : i \in Upto(r.m), j \in Upto(r.n)}

(* The result of x'y, with x conjugated for dotc. *)
Dot(r, conj) ==
    {Equation({{New(r.result)}},
              {{Old(r.x + i * r.incx, conj), Old(r.y + i * r.incy, FALSE)} : i \in Upto(r.n)})}

(* Routines that go over vectors element by element. *)
Axpy(r) == {Equation({{New(r.y + i * r.incy)}},
                     {{r.alpha, Old(r.x + i * r.incx, FALSE)}, {Old(r.y + i * r.incy, FALSE)}})
              : i \in Upto(r.n)}
Copy(r) == {Equation({{New(r.y + i * r.incy)}}, {{Old(r.x + i * r.incx, FALSE)}}) : i \in Upto(r.n)}
Swap(r) == Copy(r) \union
           {Equation({{New(r.x + i * r.incx)}}, {{Old(r.y + i * r.incy, FALSE)}}) : i \in Upto(r.n)}
Scal(r) == {Equation({{New(r.x + i * r.incx)}}, {{r.alpha, Old(r.x + i * r.incx, FALSE)}})
              : i \in Upto(r.n)}

(* A triangle of A, of which the library reads no other element, replaced by its Cholesky  *)
(* factor: A = U'U or A = LL'.  When the leading minor of order info is not positive, the  *)
(* minors before it have been factored.                                                    *)
Potrf(r) ==
    LET at(i, j) == r.a + i + j * r.lda
        factor(i, j) == IF r.uplo = "U" THEN New(at(i, j)) ELSE Conjugate(New(at(j, i)))
        order == IF r.info = 0 THEN r.n ELSE r.info - 1
    IN  {Equation({{Old(IF r.uplo = "U" THEN at(i, j) ELSE at(j, i), r.uplo = "L")}},
                  {{Conjugate(factor(p, i)), factor(p, j)} : p \in 0 .. i})
           : <<i, j>> \in {ij \in Upto(order) \X Upto(order) : ij[1] <= ij[2]}}

(* A symmetric A, given by a triangle, replaced by its eigenvectors, one in each column, and *)
(* their eigenvalues.                                                                        *)
Syev(r) ==
    LET at(i, j) == r.a + i + j * r.lda
        sym(i, j) == IF InTriangle(r.uplo, "N", i, j) THEN Old(at(i, j), FALSE) ELSE Old(at(j, i), FALSE)
    IN  {Equation({{sym(i, j), New(at(j, k))} : j \in Upto(r.n)}, {{New(r.w + k), New(at(i, k))}})
           : i \in Upto(r.n), k \in Upto(r.n)}

Effect(r) ==
    CASE r.routine = "gemm" -> Gemm(r)
      [] r.routine = "gemv" -> Gemv(r)
      [] r.routine = "herk" -> RankK(r, TRUE)
      [] r.routine = "syrk" -> RankK(r, FALSE)
      [] r.routine \in {"trsm", "trsv"} -> Solve(r)
      [] r.routine = "ger"  -> Ger(r)
      [] r.routine = "dotu" -> Dot(r, FALSE)
      [] r.routine = "dotc" -> Dot(r, TRUE)
      [] r.routine = "axpy" -> Axpy(r)
      [] r.routine = "copy" -> Copy(r)
      [] r.routine = "swap" -> Swap(r)
      [] r.routine = "scal" -> Scal(r)
      [] r.routine = "potrf" -> Potrf(r)
      [] r.routine = "syev"  -> Syev(r)

(* The matrices' leading dimensions are long enough for their columns. *)
Accepts(r) ==
    CASE r.routine = "gemm" -> /\ Leads(r.lda, IF r.transa = "N" THEN r.m ELSE r.k)
                               /\ Leads(r.ldb, IF r.transb = "N" THEN r.k ELSE r.n)
                               /\ Leads(r.ldc, r.m)
      [] r.routine = "gemv" -> Leads(r.lda, r.m)
      [] r.routine \in {"herk", "syrk"} -> /\ Leads(r.lda, IF r.trans = "N" THEN r.n ELSE r.k)
                                           /\ Leads(r.ldc, r.n)
      [] r.routine = "trsm" -> /\ Leads(r.lda, IF r.side = "L" THEN r.m ELSE r.n)
                               /\ Leads(r.ldb, r.m)
      [] r.routine = "trsv" -> Leads(r.lda, r.m)
      [] r.routine = "ger"  -> Leads(r.lda, r.m)
      [] r.routine \in {"potrf", "syev"} -> Leads(r.lda, r.n)
      [] OTHER -> TRUE

=============================================================================
