---------------------------- MODULE BlasAdaptors ----------------------------
(***************************************************************************)
(* The linear algebra adaptors (adaptors/blas): a function on views is     *)
(* turned into requests to a library that knows matrices by columns and a  *)
(* leading dimension.  Which request that is depends on the strides of all *)
(* the operands, on which of them are seen conjugated, and on whether they *)
(* have a single row; the conditions are tried in the order of the code.   *)
(***************************************************************************)
EXTENDS BasicArray, BlasLibrary, TLC

(***************************************************************************)
(* Operands: views, seen conjugated or not (numeric.hpp).  ~x is x rotated. *)
(***************************************************************************)
Operand(view, conj) == [view |-> view, conj |-> conj]

Rotated(x)    == [x EXCEPT !.view = RotateView(@, 1)]
Conjugated(x) == [x EXCEPT !.conj = ~@]
Hermitized(x) == Conjugated(Rotated(x))

size(x)    == Size(Head(x.view.layout))
stride(x)  == Head(x.view.layout).stride
columns(x) == size(Rotated(x))
inner(x)   == stride(Rotated(x))
base(x)    == x.view.base

(* The number an operand shows at some indices, before and after the call. *)
Shown(x, ix)  == Old(Address(x.view, ix), x.conj)
Result(x, ix) == [New(Address(x.view, ix)) EXCEPT !.conj = x.conj]

(***************************************************************************)
(* What is asked of the library.  Stop is an assertion of the adaptor that *)
(* does not hold; First takes the first of some guarded requests.          *)
(***************************************************************************)
Stop == [routine |-> "stop"]
First(cases) == LET k == SelectInSeq(cases, LAMBDA c : c[1])
                IN  IF k = 0 THEN Stop ELSE cases[k][2]

(* gemm_n, by the strides of the rows (s) or the columns (t) that are 1. *)
GemmRequest(alpha, a, b, beta, c) ==
    LET as == stride(a)  at == inner(a)  bs == stride(b)  bt == inner(b)  cs == stride(c)  ct == inner(c)
        rows == size(a)  k == columns(a)  n == columns(b)  m == columns(c)  one == rows = 1
        Ask(ta, tb, p, q, r, x, ldx, y, ldy, ldc) ==
            [routine |-> "gemm", transa |-> ta, transb |-> tb, m |-> p, n |-> q, k |-> r,
             a |-> base(x), lda |-> ldx, b |-> base(y), ldb |-> ldy, c |-> base(c), ldc |-> ldc,
             alpha |-> alpha, beta |-> beta]
        Or(yes, no) == IF one THEN yes ELSE no
        plain == <<
            <<at = 1 /\ bt = 1 /\ ct = 1, Ask("N", "N", n, rows, k, b, IF one /\ n = 1 THEN n ELSE bs, a, Or(k, as), Or(m, cs))>>,
            <<at = 1 /\ bt = 1 /\ cs = 1, Ask("T", "T", rows, n, k, a, as, b, Or(n, bs), Or(k, ct))>>,
            <<as = 1 /\ bt = 1 /\ ct = 1, Ask("N", "T", m, rows, k, b, bs, a, at, Or(k, cs))>>,
            <<as = 1 /\ bt = 1 /\ cs = 1, Ask("N", "T", rows, n, k, a, at, b, Or(k, bs), Or(n, ct))>>,
            <<at = 1 /\ bs = 1 /\ cs = 1 /\ one, Ask("N", "N", m, rows, k, b, n, a, k, ct)>>,
            <<at = 1 /\ bs = 1 /\ cs = 1, Ask("N", "T", m, rows, k, b, bt, a, as, ct)>>,
            <<at = 1 /\ bs = 1 /\ ct = 1 /\ one, Ask("T", "N", rows, m, k, b, bt, a, k, cs)>>,
            <<at = 1 /\ bs = 1 /\ ct = 1, Ask("T", "N", m, rows, k, b, bt, a, as, cs)>>,
            <<as = 1 /\ bs = 1 /\ cs = 1, Ask("N", "N", m, rows, k, a, at, b, bt, ct)>>,
            <<as = 1 /\ bs = 1 /\ ct = 1, Ask("T", "T", rows, m, k, b, bt, a, at, cs)>> >>
        second == <<
            <<at = 1 /\ bt = 1 /\ ct = 1, Ask("N", "C", m, rows, k, b, bs, a, IF n = 1 THEN rows ELSE as, cs)>>,
            <<at = 1 /\ bs = 1 /\ ct = 1 /\ one, Ask("C", "N", rows, m, k, b, bt, a, k, cs)>>,
            <<at = 1 /\ bs = 1 /\ ct = 1, Ask("C", "N", m, rows, k, b, bt, a, as, cs)>>,
            <<at = 1 /\ bs = 1 /\ cs = 1, Ask("C", "N", m, rows, k, b, bt, a, as, ct)>>,
            <<as = 1 /\ bs = 1 /\ cs = 1, Ask("C", "T", m, rows, k, b, bt, a, at, ct)>>,
            <<as = 1 /\ bs = 1 /\ ct = 1, Ask("C", "T", rows, m, k, b, bt, a, at, cs)>> >>
    IN  IF ~a.conj /\ ~b.conj THEN First(plain)
        ELSE IF ~a.conj THEN First(second)
        ELSE IF ~b.conj
             THEN First(<<<<as = 1 /\ bt = 1 /\ ct = 1, Ask("N", "C", m, rows, k, b, bs, a, at, Or(k, cs))>>>>)
             ELSE First(<<<<as = 1 /\ bs = 1 /\ ct = 1, Ask("C", "C", rows, m, k, b, bt, a, at, cs)>>>>)

UnitStrideOfRows(x) == stride(x) = 1     \* mutant: a matrix by rows is not looked at
UnitStride(x) == stride(x) = 1 \/ inner(x) = 1

(* gemm: a conjugated result is computed from the conjugates of everything. *)
GemmRequests(a, b, beta, c) ==
    IF \E x \in {a, b, c} : ~UnitStride(x) THEN <<Stop>>
    ELSE IF c.conj THEN <<GemmRequest(Alpha(TRUE), Conjugated(a), Conjugated(b),
                                      {Conjugate(f) : f \in beta}, Conjugated(c))>>
    ELSE <<GemmRequest(Alpha(FALSE), a, b, beta, c)>>

GemvRequest(m, x, beta, y) ==
    LET Ask(t, p, q, ld) ==
            [routine |-> "gemv", trans |-> t, m |-> p, n |-> q, a |-> base(m), lda |-> ld,
             x |-> base(x), incx |-> stride(x), y |-> base(y), incy |-> stride(y),
             alpha |-> Alpha(FALSE), beta |-> beta]
        plain == <<<<stride(m) = 1, Ask("N", size(m), columns(m), inner(m))>>,
                   <<inner(m) = 1,  Ask("T", columns(m), size(m), stride(m))>>>>
    IN  First(IF m.conj THEN <<<<inner(m) = 1, Ask("C", columns(m), size(m), stride(m))>>>> ELSE plain)

(* The library's letters: the triangle of the matrix by columns is the other one by rows. *)
FlipNot(side) == side     \* mutant
Flip(side)  == IF side = "upper" THEN "lower" ELSE "upper"
Char(side)  == IF side = "upper" THEN "L" ELSE "U"
Swap2(side) == IF side = "L" THEN "R" ELSE "L"

RankKSwapped(routine, uplo, trans, k, a, lda, beta, c, ldc) ==     \* mutant: the leading dimensions exchanged
    [routine |-> routine, uplo |-> uplo, trans |-> trans, n |-> size(c), k |-> k, a |-> base(a), lda |-> ldc,
     c |-> base(c), ldc |-> lda, alpha |-> RealAlpha, beta |-> beta]
RankKRequest(routine, uplo, trans, k, a, lda, beta, c, ldc) ==
    [routine |-> routine, uplo |-> uplo, trans |-> trans, n |-> size(c), k |-> k, a |-> base(a), lda |-> lda,
     c |-> base(c), ldc |-> ldc, alpha |-> RealAlpha, beta |-> beta]

HerkPlain(side, a, beta, c) ==
    LET Ask(uplo, t, lda, ldc) == RankKRequest("herk", uplo, t, columns(a), a, lda, beta, c, ldc)
        same == Char(side)  other == Char(Flip(side))
        conj == <<<<stride(a) = 1 /\ stride(c) # 1, Ask(same, "N", inner(a), stride(c))>>,
                  <<stride(a) = 1 /\ size(a) = 1, Ask(same, "N", inner(a), stride(c))>>,
                  <<stride(a) # 1 /\ stride(c) = 1, Ask(other, "C", stride(a), inner(c))>>,
                  <<stride(a) # 1, Ask(same, "C", stride(a), stride(c))>>>>
        plain == <<<<stride(a) # 1 /\ stride(c) # 1, Ask(same, "C", stride(a), stride(c))>>,
                   <<stride(a) # 1 /\ size(a) = 1, Ask(same, "N", inner(a), inner(c))>>,
                   <<stride(a) = 1 /\ stride(c) = 1, Ask(other, "N", inner(a), inner(c))>>>>
    IN  First(IF a.conj THEN conj ELSE plain)

HerkRequest(side, a, beta, c) ==
    IF c.conj THEN HerkPlain(Flip(side), a, beta, Hermitized(c)) ELSE HerkPlain(side, a, beta, c)

SyrkRequest(side, a, beta, c) ==
    LET Ask(uplo, t, k, lda, ldc) == RankKRequest("syrk", uplo, t, k, a, lda, beta, c, ldc)
        byRows == stride(c) # 1
        uplo   == Char(IF byRows THEN side ELSE Flip(side))
        ldc    == IF byRows THEN stride(c) ELSE inner(c)
    IN  IF stride(a) = 1 THEN Ask(uplo, "N", IF byRows THEN columns(a) ELSE size(a), inner(a), ldc)
        ELSE Ask(uplo, "T", columns(a), stride(a), ldc)

TrsmRequest(side, fill, diag, a, b) ==
    LET as == stride(a) = 1  at == inner(a) = 1  bs == stride(b) = 1  bt == inner(b) = 1
        uplo(byColumns) == Char(IF byColumns THEN Flip(fill) ELSE fill)
        Ask(sd, byColumns, t, m, n, ldb) ==
            [routine |-> "trsm", side |-> sd, uplo |-> uplo(byColumns), trans |-> t, diag |-> diag,
             m |-> m, n |-> n, alpha |-> Alpha(b.conj), a |-> base(a),
             lda |-> IF byColumns THEN inner(a) ELSE stride(a), b |-> base(b), incb |-> 1, ldb |-> ldb]
        Direct(byColumns, t) == Ask(side, byColumns, t, size(b), columns(b), inner(b))
        Turned(byColumns, t) == Ask(Swap2(side), byColumns, t, columns(b), size(b), stride(b))
        trans == IF a.conj # b.conj THEN "C" ELSE "T"
        plain == <<<<as /\ bs, Direct(TRUE, "N")>>, <<at /\ bt, Turned(FALSE, "N")>>,
                   <<as /\ bt, Turned(TRUE, "T")>>, <<at /\ bs, Direct(FALSE, "T")>>>>
        firstA == <<<<as /\ bt, Turned(TRUE, trans)>>, <<at /\ bs, Direct(FALSE, trans)>>>>
        firstB == <<<<at /\ bs, Direct(FALSE, trans)>>, <<as /\ bt, Turned(TRUE, trans)>>>>
    IN  First(IF a.conj THEN firstA ELSE IF b.conj THEN firstB ELSE plain)

TrsvRequest(side, diag, a, x) ==
    LET Ask(uplo, t, ld) ==
            [routine |-> "trsv", side |-> "L", uplo |-> uplo, trans |-> t, diag |-> diag, m |-> size(x), n |-> 1,
             alpha |-> RealAlpha, a |-> base(a), lda |-> ld, b |-> base(x), incb |-> stride(x), ldb |-> 0]
    IN  IF a.conj
        THEN First(<<<<stride(a) # 1 /\ inner(a) = 1, Ask(Char(side), "C", stride(a))>>>>)
        ELSE First(<<<<stride(a) = 1, Ask(Char(Flip(side)), "N", inner(a))>>,
                     <<inner(a) = 1, Ask(Char(side), "T", stride(a))>>>>)

(* ger_n goes along the rows of A; a matrix by columns is turned, and x and y change places. *)
GerRequest(x, y, A) ==
    LET turned == stride(A) = 1
        u == IF turned THEN y ELSE x
        v == IF turned THEN x ELSE y
        B == IF turned THEN Rotated(A) ELSE A
    IN  IF inner(B) # 1 THEN Stop
        ELSE [routine |-> "ger", m |-> size(u), n |-> size(v), alpha |-> Alpha(FALSE),
              x |-> base(u), incx |-> stride(u), y |-> base(v), incy |-> stride(v), a |-> base(B), lda |-> stride(B)]

VectorRequest(routine, x, y) ==
    [routine |-> routine, n |-> size(x), alpha |-> Alpha(FALSE),
     x |-> base(x), incx |-> stride(x), y |-> base(y), incy |-> stride(y)]

(***************************************************************************)
(* adaptors/lapack: factors and eigenvectors take the place of the matrix. *)
(***************************************************************************)
(* potrf goes along the rows; a matrix with columns of stride 1 is turned, and its triangle too. *)
PotrfRequest(side, A, info) ==
    LET turned == stride(A) = 1
        x == IF turned THEN Rotated(A) ELSE A
    IN  IF inner(x) # 1 THEN Stop
        ELSE [routine |-> "potrf", uplo |-> Char(IF turned THEN Flip(side) ELSE side), n |-> size(x),
              a |-> base(x), lda |-> stride(x), info |-> info]

(* The block potrf returns: as far as the pointer to the row behind it says. *)
PotrfOrder(A, info) == IF info = 0 THEN size(A) ELSE info

SyevRequest(side, A, w) ==
    LET Ask(uplo, ld) == [routine |-> "syev", uplo |-> uplo, n |-> size(A), a |-> base(A), lda |-> ld, w |-> base(w)]
    IN  IF size(A) # size(w) \/ stride(w) # 1 THEN Stop
        ELSE First(<<<<inner(A) = 1, Ask(Char(side), stride(A))>>,
                     <<stride(A) = 1, Ask(Char(Flip(side)), inner(A))>>>>)

(* Of two vectors the library conjugates the first. *)
DotRequest(x, y, result) ==
    LET Ask(routine, u, v) == [result |-> result] @@ VectorRequest(routine, u, v)
    IN  IF x.conj THEN Ask("dotc", x, y)
        ELSE IF y.conj THEN Ask("dotc", y, x) ELSE Ask("dotu", x, y)

=============================================================================
