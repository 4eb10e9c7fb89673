-------------------------------- MODULE Blas --------------------------------
(***************************************************************************)
(* A call of one function of adaptors/blas: the adaptor chooses its        *)
(* requests, the library serves them or refuses one whose leading          *)
(* dimensions make no sense.  The operands lie apart in memory: the        *)
(* adaptors ask so of some pairs of base pointers.                         *)
(***************************************************************************)
EXTENDS BlasAdaptors

CONSTANTS
    Ranges,      \* numbers of rows and columns of the operands
    Pads,        \* how much longer than its columns a row in memory is
    Unchecked    \* functions called with operands they are known to get wrong

ASSUME RangesAssumption == Ranges \subseteq Nat \ {0}
ASSUME PadsAssumption   == Pads \subseteq Nat

VARIABLES
    call,        \* ghost: what the call promises, as equations
    requests,    \* what is left to ask of the library
    done,        \* ghost: the equations the library has made true
    outcome      \* "idle", "called", then "returned", "stopped" by an assertion, or "refused"

vars == <<call, requests, done, outcome>>

Careful(f) == f \notin Unchecked

(***************************************************************************)
(* Operands the functions get wrong, left out of the calls of the careful. *)
(***************************************************************************)
ByRows(x) == inner(x) = 1

Contiguous(x) == x.view.layout = LayoutOf(<<<<0, size(x)>>, <<0, columns(x)>>>>)

(* A single column in memory has two strides of 1, which do not tell its order. *)
Clear(x) == stride(x) = 1 /\ inner(x) = 1 => size(x) = 1 /\ columns(x) = 1

(* Branches of gemm_n that compute BA for AB, swap the sizes of C or do not transpose B. *)
GemmSound(a, b, c) ==
    \/ \A x \in {a, b, c} : Contiguous(x) /\ ~x.conj
    \/ /\ \A x \in {a, b, c} : Clear(x) /\ (size(x) > 1 \/ columns(x) = 1)
       /\ ByRows(b) => b.conj = c.conj
       /\ ByRows(c) => ByRows(a) \/ ByRows(b) \/ size(c) = columns(c)
       /\ ~ByRows(c) => ByRows(b)

(* Neither looks for a stride of 1 and goes wrong without.  herk into rows takes a conjugated matrix by rows *)
(* for the matrix and stops at a single number; syrk by columns takes its rows for its columns.             *)
HerkSound(a, c) == /\ Clear(a) /\ UnitStride(a) /\ UnitStride(c)
                   /\ a.conj /\ ByRows(a) => ByRows(c) = c.conj
                   /\ stride(a) = 1 /\ ByRows(a) => stride(c) = 1
SyrkSound(a, c) == Clear(a) /\ UnitStride(a) /\ UnitStride(c) /\ (stride(a) = 1 /\ stride(c) = 1 => size(a) = columns(a))

(***************************************************************************)
(* Operands by rows and by columns, and with neither stride equal to 1.    *)
(***************************************************************************)
Dense(at, n, m) == View(at, LayoutOf(<<<<0, n>>, <<0, m>>>>))

Views(at, n, m) ==
    {ParenView(Dense(at, n, m + pad), 0, n, 0, m) : pad \in Pads}
    \union {RotateView(ParenView(Dense(at, m, n + pad), 0, m, 0, n), 1) : pad \in Pads}
    \union {RotateView(StrideView(RotateView(Dense(at, n, 2 * m), 1), 2), 1)}
Matrices(at, n, m, conjs) == {Operand(view, conj) : view \in Views(at, n, m), conj \in conjs}
Vectors(at, n, conjs)     == {Operand(At1(RotateView(view, 1), 0), conj)
                                : view \in Views(at, n, 1), conj \in conjs}

(* What the functions promise to make of the numbers their operands show. *)
Becomes(x, ix, beta, products) ==
    Equation({{Result(x, ix)}}, products \union {{f, Shown(x, ix)} : f \in beta})

GemmPromise(a, b, beta, c) ==
    {Becomes(c, <<i, j>>, beta, {{Alpha(FALSE), Shown(a, <<i, p>>), Shown(b, <<p, j>>)} : p \in Upto(columns(a))})
       : i \in Upto(size(c)), j \in Upto(columns(c))}

GemvPromise(m, x, beta, y) ==
    {Becomes(y, <<i>>, beta, {{Alpha(FALSE), Shown(m, <<i, p>>), Shown(x, <<p>>)} : p \in Upto(size(x))})
       : i \in Upto(size(y))}

On(side, i, j) == IF side = "upper" THEN i <= j ELSE i >= j

RankKPromise(adjoint, side, a, beta, c) ==
    LET right(j, p) == IF adjoint THEN Conjugate(Shown(a, <<j, p>>)) ELSE Shown(a, <<j, p>>)
    IN  {Becomes(c, ij, beta, {{RealAlpha, Shown(a, <<ij[1], p>>), right(ij[2], p)} : p \in Upto(columns(a))})
           : ij \in {ij \in Upto(size(c)) \X Upto(size(c)) : On(side, ij[1], ij[2])}}

SolvePromise(side, fill, diag, alpha, a, n, m, at(_, _), was(_, _)) ==
    LET factor(i, j) == IF i = j /\ diag = "U" THEN {} ELSE {Shown(a, <<i, j>>)}
        left(i, j)  == {factor(i, p) \union {at(p, j)} : p \in {q \in Upto(n) : On(fill, i, q)}}
        right(i, j) == {factor(p, j) \union {at(i, p)} : p \in {q \in Upto(m) : On(fill, q, j)}}
    IN  {Equation(IF side = "L" THEN left(i, j) ELSE right(i, j), {{alpha, was(i, j)}})
           : i \in Upto(n), j \in Upto(m)}

(***************************************************************************)
(* The calls.                                                              *)
(***************************************************************************)
Init == call = [function |-> "none", operands |-> <<>>, promise |-> {}] /\ requests = <<>> /\ done = {} /\ outcome = "idle"

Ask(f, operands, promise, rs) ==
    /\ outcome' = "called"
    /\ call' = [function |-> f, operands |-> operands, promise |-> promise]
    /\ requests' = rs
    /\ UNCHANGED done

Plain == {FALSE}
Zero  == {}
Betas == {Zero, {Beta(FALSE)}}

gemm == \E n, k, m \in Ranges, beta \in Betas :
    \E a \in Matrices(0, n, k, BOOLEAN), b \in Matrices(100, k, m, BOOLEAN), c \in Matrices(200, n, m, BOOLEAN) :
        /\ Careful("gemm") => GemmSound(a, b, c)
        /\ Ask("gemm", <<a, b, c>>, GemmPromise(a, b, beta, c), GemmRequests(a, b, beta, c))

(* A product not yet computed (gemm_range), copied into the rows of a result. *)
gemmRange == \E n, k, m \in Ranges :
    \E a \in Matrices(0, n, k, BOOLEAN), b \in Matrices(100, k, m, BOOLEAN), c \in Matrices(200, n, m, Plain) :
        /\ Careful("gemm") => GemmSound(a, b, c)
        /\ Ask("gemm", <<a, b, c>>, GemmPromise(a, b, Zero, c),
               <<IF UnitStride(a) /\ UnitStride(b) /\ UnitStride(c)
                 THEN GemmRequest(Alpha(FALSE), a, b, Zero, c) ELSE Stop>>)

gemv == \E n, k \in Ranges, beta \in Betas :
    \E m \in Matrices(0, n, k, BOOLEAN), x \in Vectors(100, k, Plain), y \in Vectors(200, n, Plain) :
        /\ Careful("gemv") => Clear(m)
        /\ Ask("gemv", <<m, x, y>>, GemvPromise(m, x, beta, y), <<GemvRequest(m, x, beta, y)>>)

Sides == {"lower", "upper"}
RealBetas == {Zero, {RealBeta}}

herk == \E n, k \in Ranges, side \in Sides, beta \in RealBetas :
    \E a \in Matrices(0, n, k, BOOLEAN), c \in Matrices(200, n, n, BOOLEAN) :
        /\ Careful("herk") => HerkSound(a, c)
        /\ Ask("herk", <<a, c>>, RankKPromise(TRUE, side, a, beta, c), <<HerkRequest(side, a, beta, c)>>)

herkBoth == \E n, k \in Ranges :
    \E a \in Matrices(0, n, k, BOOLEAN), c \in Matrices(200, n, n, BOOLEAN) :
        /\ Careful("herk") => HerkSound(a, c)
        /\ Ask("herk", <<a, c>>, UNION {RankKPromise(TRUE, side, a, Zero, c) : side \in Sides},
            <<HerkRequest("upper", a, Zero, c), HerkRequest("lower", a, Zero, c)>>)

syrk == \E n, k \in Ranges, side \in Sides, beta \in RealBetas :
    \E a \in Matrices(0, n, k, Plain), c \in Matrices(200, n, n, Plain) :
        /\ Careful("syrk") => SyrkSound(a, c)
        /\ Ask("syrk", <<a, c>>, RankKPromise(FALSE, side, a, beta, c), <<SyrkRequest(side, a, beta, c)>>)

syrkBoth == \E n, k \in Ranges :
    \E a \in Matrices(0, n, k, Plain), c \in Matrices(200, n, n, Plain) :
        /\ Careful("syrk") => SyrkSound(a, c)
        /\ Ask("syrk", <<a, c>>, UNION {RankKPromise(FALSE, side, a, Zero, c) : side \in Sides},
            <<SyrkRequest("lower", a, Zero, c), SyrkRequest("upper", a, Zero, c)>>)

Diagonals == {"N", "U"}

trsm == \E n, m \in Ranges, side \in {"L", "R"}, fill \in Sides, diag \in Diagonals :
    LET order == IF side = "L" THEN n ELSE m
    IN  \E a \in Matrices(0, order, order, BOOLEAN), b \in Matrices(200, n, m, BOOLEAN) :
        /\ Careful("trsm") => Clear(b)
        /\ Ask("trsm", <<a, b>>, SolvePromise(side, fill, diag, Alpha(FALSE), a, n, m,
                         LAMBDA i, j : Result(b, <<i, j>>), LAMBDA i, j : Shown(b, <<i, j>>)),
            <<IF UnitStride(a) /\ UnitStride(b) THEN TrsmRequest(side, fill, diag, a, b) ELSE Stop>>)

trsv == \E n \in Ranges, fill \in Sides, diag \in Diagonals :
    \E a \in Matrices(0, n, n, BOOLEAN), x \in Vectors(200, n, Plain) :
        Ask("trsv", <<a, x>>, SolvePromise("L", fill, diag, RealAlpha, a, n, 1,
                         LAMBDA i, j : Result(x, <<i>>), LAMBDA i, j : Shown(x, <<i>>)),
            <<TrsvRequest(fill, diag, a, x)>>)

ger == \E n, m \in Ranges :
    \E x \in Vectors(0, m, Plain), y \in Vectors(100, n, Plain), A \in Matrices(200, n, m, Plain) :
        /\ Careful("ger") => Clear(A)
        /\ Ask("ger", <<x, y, A>>, {Becomes(A, <<i, j>>, Zero, {{Alpha(FALSE), Shown(y, <<i>>), Shown(x, <<j>>)}, {Shown(A, <<i, j>>)}})
               : i \in Upto(n), j \in Upto(m)},
            <<GerRequest(x, y, A)>>)

dot == \E n \in Ranges : \E x \in Vectors(0, n, BOOLEAN), y \in Vectors(100, n, BOOLEAN) :
    /\ ~(x.conj /\ y.conj)
    /\ Ask("dot", <<x, y>>, {Equation({{New(200)}}, {{Shown(x, <<i>>), Shown(y, <<i>>)} : i \in Upto(n)})}, <<DotRequest(x, y, 200)>>)

(* The Cholesky factor of a Hermitian matrix of which one triangle is given, upper or lower: *)
(* A = U'U or A = LL', in the block that is returned.  The careful give matrices that have   *)
(* one; otherwise a leading minor of some order info is not positive.                        *)
potrf == \E n \in Ranges, side \in Sides :
    \E A \in Matrices(0, n, n, Plain), info \in IF Careful("potrf") THEN {0} ELSE 0 .. n :
        LET factor(i, j) == IF side = "upper" THEN Result(A, <<i, j>>) ELSE Conjugate(Result(A, <<j, i>>))
            given(i, j)  == IF side = "upper" THEN Shown(A, <<i, j>>) ELSE Conjugate(Shown(A, <<j, i>>))
            order == PotrfOrder(A, info)
        IN  Ask("potrf", <<A>>,
                {Equation({{given(i, j)}}, {{Conjugate(factor(p, i)), factor(p, j)} : p \in 0 .. i})
                   : <<i, j>> \in {ij \in Upto(order) \X Upto(order) : ij[1] <= ij[2]}},
                <<PotrfRequest(side, A, info)>>)

(* The eigenvectors of a symmetric matrix of which one triangle is given, in its rows or, where *)
(* these are not contiguous, in its columns.                                                    *)
syev == \E n \in Ranges, side \in Sides :
    \E A \in Matrices(0, n, n, Plain), w \in Vectors(200, n, Plain) :
        LET sym(i, j)    == Shown(A, IF On(side, i, j) THEN <<i, j>> ELSE <<j, i>>)
            vector(k, j) == Result(A, IF inner(A) = 1 THEN <<k, j>> ELSE <<j, k>>)
        IN  Ask("syev", <<A, w>>,
                {Equation({{sym(i, j), vector(k, j)} : j \in Upto(n)}, {{Result(w, <<k>>), vector(k, i)}})
                   : i \in Upto(n), k \in Upto(n)},
                <<SyevRequest(side, A, w)>>)

(* Functions that go over two vectors; each promises some equations per index. *)
OverVectors(f, each(_, _, _)) == \E n \in Ranges :
    \E x \in Vectors(0, n, Plain), y \in Vectors(100, n, Plain) :
        Ask(f, <<x, y>>, UNION {each(x, y, <<i>>) : i \in Upto(n)}, <<VectorRequest(f, x, y)>>)

Copied(x, y, ix) == {Equation({{Result(y, ix)}}, {{Shown(x, ix)}})}
Added(x, y, ix)  == {Becomes(y, ix, Zero, {{Alpha(FALSE), Shown(x, ix)}, {Shown(y, ix)}})}
Scaled(x, y, ix) == {Becomes(x, ix, Zero, {{Alpha(FALSE), Shown(x, ix)}})}
Swapped(x, y, ix) == Copied(x, y, ix) \union Copied(y, x, ix)

copy == OverVectors("copy", Copied)
axpy == OverVectors("axpy", Added)
scal == OverVectors("scal", Scaled)
swap == OverVectors("swap", Swapped)

(***************************************************************************)
(* The library.                                                            *)
(***************************************************************************)
Request == Head(requests)

(* The library ends the program at a request that does not pass its checks. *)
Serve == /\ outcome = "called"
         /\ requests # <<>>
         /\ Request # Stop
         /\ outcome' = IF Accepts(Request) THEN outcome ELSE "refused"
         /\ done' = IF Accepts(Request) THEN done \union Effect(Request) ELSE done
         /\ requests' = Tail(requests)
         /\ UNCHANGED call

Ends(how) == outcome' = how /\ UNCHANGED <<call, requests, done>>

Abort == outcome = "called" /\ requests # <<>> /\ Request = Stop /\ Ends("stopped")
Return == outcome = "called" /\ requests = <<>> /\ Ends("returned")

Call == \/ gemm \/ gemmRange \/ gemv \/ herk \/ herkBoth \/ syrk \/ syrkBoth \/ trsm \/ trsv \/ ger
        \/ potrf \/ syev \/ dot \/ copy \/ axpy \/ scal \/ swap

Next ==
    \/ outcome = "idle" /\ Call
    \/ Serve \/ Abort \/ Return

Spec == Init /\ [][Next]_vars

(***************************************************************************)
(* Properties.                                                             *)
(***************************************************************************)

(* A call that returns has made of its result what the views promise, whatever the order, *)
(* the padding and the conjugation of each operand: no element is swapped with another,   *)
(* conjugated once too often, left out, or written outside of the triangle or the matrix. *)
Computes == outcome = "returned" => done = call.promise

(* What passes the assertions of an adaptor is taken by the library: a row or a column    *)
(* alone still has a leading dimension as long as the library asks.                       *)
NeverRefused == outcome # "refused"

(* Assertions never stop a call whose matrices are all stored by rows and seen as they    *)
(* are, what an array of the library is by default, except for eigenvalues with gaps.     *)
ServesRows == outcome = "stopped" =>
    \/ call.function = "syev" /\ stride(call.operands[2]) # 1
    \/ \E k \in DOMAIN call.operands :
         LET x == call.operands[k]
         IN  Len(x.view.layout) = 2 /\ (x.conj \/ ~ByRows(x))

(* "blas::gemm(1., a, ~b, 0., ~c); // c=ab" (test/gemm.cpp:185): into a transposed result *)
(* the product of a and a transposed b is what it is into any other.                      *)
TransposedIntoTransposed ==
    outcome = "returned" /\ call.function = "gemm" =>
        LET a == call.operands[1]  b == call.operands[2]  c == call.operands[3]
        IN  /\ \A x \in {a, b, c} : ~x.conj /\ size(x) = columns(x) /\ Clear(x)
            /\ ByRows(a) /\ ~ByRows(b) /\ ~ByRows(c)
            => done = call.promise

=============================================================================
