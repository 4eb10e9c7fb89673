---------------------------- MODULE ArraysProofs ----------------------------
(***************************************************************************)
(* Theorems of Arrays: types, ownership of the blocks, what may be lost,   *)
(* and that the arrays are values (ArrayValues), for every set of arrays,  *)
(* heap, element type, shape and number of dimensions.                     *)
(***************************************************************************)
EXTENDS Arrays, LayoutProofs

(***************************************************************************)
(* What a layout tells of an array's value: extensions, and the position   *)
(* of an element among the others.                                         *)
(***************************************************************************)
Untold(xs, k) == \E h \in k .. Len(xs) : Count(xs[h]) = 0
Told(L)       == Values!Normal(Extensions(L)) = Extensions(L)

(* Tuples of indices are the same sets, told dimension by dimension or all at once. *)
LEMMA ValueBox ==
    ASSUME NEW xs \in Seq(Intervals)
    PROVE  Values!Box(xs) = Box(xs)
<1> DEFINE U == UNION {Values!Indices(xs[k]) : k \in 1 .. Len(xs)}
<1>1. Box(xs) = TuplesTo(xs, Len(xs))  BY BoxTuples
<1>2. \A k \in 1 .. Len(xs) : Values!Indices(xs[k]) = Indices(xs[k])  BY DEF Values!Indices, Indices
<1>3. \A k \in 1 .. Len(xs) : Indices(xs[k]) \subseteq Int
    <2>1. \A k \in 1 .. Len(xs) : xs[k] \in Intervals  OBVIOUS
    <2> QED BY <2>1 DEF Indices, Intervals
<1>4. \A k \in 1 .. Len(xs) : Indices(xs[k]) \subseteq U  BY <1>2
<1>5. Values!Box(xs) = {ix \in [1 .. Len(xs) -> U] : \A k \in 1 .. Len(xs) : ix[k] \in Values!Indices(xs[k])}
    BY DEF Values!Box
<1>6. Len(xs) \in Nat  OBVIOUS
<1> HIDE DEF U
<1>7. ASSUME NEW ix \in Values!Box(xs) PROVE ix \in TuplesTo(xs, Len(xs))
    <2>1. ix \in [1 .. Len(xs) -> U] /\ \A k \in 1 .. Len(xs) : ix[k] \in Indices(xs[k])
        BY <1>2, <1>5, <1>7
    <2>2. ix \in [1 .. Len(xs) -> Int]  BY <1>3, <2>1
    <2>3. ix \in Seq(Int) /\ Len(ix) = Len(xs)  BY <1>6, <2>2
    <2> QED BY <2>1, <2>3 DEF TuplesTo
<1>8. ASSUME NEW ix \in TuplesTo(xs, Len(xs)) PROVE ix \in Values!Box(xs)
    <2>1. ix \in Seq(Int) /\ Len(ix) = Len(xs) /\ \A k \in 1 .. Len(xs) : ix[k] \in Indices(xs[k])
        BY <1>8 DEF TuplesTo
    <2>2. ix \in [1 .. Len(xs) -> U]  BY <1>4, <2>1
    <2> QED BY <1>2, <1>5, <2>1, <2>2
<1> QED BY <1>1, <1>7, <1>8

LEMMA NoIndices ==
    ASSUME NEW x \in Intervals
    PROVE  Values!Indices(x) = {} <=> Count(x) = 0
<1>1. x[1] \in Int /\ x[2] \in Int /\ x[1] <= x[2]  BY DEF Intervals
<1>2. Values!Indices(x) = x[1] .. x[2] - 1 /\ Count(x) = x[2] - x[1]  BY DEF Values!Indices, Count
<1>3. CASE x[1] = x[2]  BY <1>1, <1>2, <1>3
<1>4. CASE x[1] < x[2]
    <2>1. x[1] \in x[1] .. x[2] - 1  BY <1>1, <1>4
    <2> QED BY <1>1, <1>2, <1>4, <2>1
<1> QED BY <1>1, <1>3, <1>4

LEMMA EqualSequences ==
    ASSUME NEW D, NEW E, NEW s \in Seq(D), NEW t \in Seq(E), Len(s) = Len(t),
           \A k \in 1 .. Len(s) : s[k] = t[k]
    PROVE  s = t
<1>1. s = [k \in 1 .. Len(s) |-> s[k]] /\ t = [k \in 1 .. Len(t) |-> t[k]]  OBVIOUS
<1> QED BY <1>1

(* Extensions without indices before the last that has none are not told. *)
LEMMA NormalFacts ==
    ASSUME NEW xs \in Seq(Intervals), NEW ys, ys = Values!Normal(xs)
    PROVE  /\ ys \in Seq(Intervals) /\ Len(ys) = Len(xs)
           /\ \A k \in 1 .. Len(xs) : ys[k] = IF Untold(xs, k) THEN <<0, 0>> ELSE xs[k]
           /\ Box(ys) = Box(xs)
<1>1. Len(xs) \in Nat /\ DOMAIN xs = 1 .. Len(xs) /\ \A k \in 1 .. Len(xs) : xs[k] \in Intervals
    OBVIOUS
<1>2. \A k \in 1 .. Len(xs) : (\E h \in k .. Len(xs) : Values!Indices(xs[h]) = {}) <=> Untold(xs, k)
    <2> SUFFICES ASSUME NEW k \in 1 .. Len(xs)
                 PROVE  (\E h \in k .. Len(xs) : Values!Indices(xs[h]) = {}) <=> Untold(xs, k)
        OBVIOUS
    <2>1. \A h \in k .. Len(xs) : Values!Indices(xs[h]) = {} <=> Count(xs[h]) = 0
        BY <1>1, NoIndices
    <2> QED BY <2>1 DEF Untold
<1>3. ys = [k \in 1 .. Len(xs) |-> IF \E h \in k .. Len(xs) : Values!Indices(xs[h]) = {}
                                   THEN <<0, 0>> ELSE xs[k]]
    BY <1>1 DEF Values!Normal
<1>4. \A k \in 1 .. Len(xs) : ys[k] = IF Untold(xs, k) THEN <<0, 0>> ELSE xs[k]  BY <1>2, <1>3
<1>5. <<0, 0>> \in Intervals  BY DEF Intervals
<1>6. ys \in Seq(Intervals) /\ Len(ys) = Len(xs)
    <2>1. ys \in [1 .. Len(xs) -> Intervals]  BY <1>1, <1>3, <1>4, <1>5
    <2> QED BY <1>1, <2>1
<1>7. Box(ys) = Box(xs)
    <2>1. Box(xs) = TuplesTo(xs, Len(xs)) /\ Box(ys) = TuplesTo(ys, Len(xs))  BY <1>6, BoxTuples
    <2>2. CASE \E h \in 1 .. Len(xs) : Count(xs[h]) = 0
        <3>1. PICK h \in 1 .. Len(xs) : Count(xs[h]) = 0  BY <2>2
        <3>2. Indices(xs[h]) = {}
            <4>1. Values!Indices(xs[h]) = {}  BY <1>1, <3>1, NoIndices
            <4> QED BY <4>1 DEF Values!Indices, Indices
        <3>3. ys[h] = <<0, 0>>  BY <1>4, <3>1 DEF Untold
        <3>4. Indices(ys[h]) = {}  BY <3>3 DEF Indices
        <3> QED BY <2>1, <3>2, <3>4 DEF TuplesTo
    <2>3. CASE \A h \in 1 .. Len(xs) : Count(xs[h]) # 0
        <3>1. \A k \in 1 .. Len(xs) : ys[k] = xs[k]  BY <1>1, <1>4, <2>3 DEF Untold
        <3> QED BY <2>1, <3>1 DEF TuplesTo
    <2> QED BY <2>2, <2>3
<1> QED BY <1>4, <1>6, <1>7

(* A dimension of a new layout is the leading one of the layout that begins with it. *)
LEMMA MadeHeads ==
    ASSUME NEW xs \in Seq(Intervals), NEW f, Made(xs, f)
    PROVE  \A i \in 0 .. Len(xs) : \A j \in 1 .. i : f[i][j] = f[i - j + 1][1]
<1> DEFINE n == Len(xs)
           S == {i \in 0 .. n : \A j \in 1 .. i : f[i][j] = f[i - j + 1][1]}
<1>1. n \in Nat  OBVIOUS
<1>2. 0 \in S  BY <1>1
<1>3. ASSUME NEW i \in 0 .. n - 1, i \in S PROVE i + 1 \in S
    <2>1. i \in 0 .. n /\ i + 1 \in 0 .. n /\ i + 1 \in 1 .. n /\ (i + 1) - 1 = i  BY <1>1
    <2>2. PICK x \in Intervals : f[i + 1] = WithDimension(x, f[i])
        <3>1. n - (i + 1) + 1 \in 1 .. n  BY <1>1
        <3>2. xs[n - (i + 1) + 1] \in Intervals  BY <3>1
        <3>3. f[i + 1] = WithDimension(xs[n - (i + 1) + 1], f[(i + 1) - 1])  BY <2>1 DEF Made
        <3> QED BY <2>1, <3>2, <3>3
    <2>3. f[i] \in ArrayLayouts /\ Len(f[i]) = i  BY <2>1, SubLayouts
    <2>4. \A k \in 1 .. i : f[i + 1][k + 1] = f[i][k]
        <3> DEFINE sub == f[i]
        <3>1. sub \in ArrayLayouts /\ Len(sub) = i /\ f[i + 1] = WithDimension(x, sub)  BY <2>2, <2>3
        <3> HIDE DEF sub
        <3>2. \A k \in 1 .. Len(sub) : WithDimension(x, sub)[k + 1] = sub[k]  BY <3>1, WithDimensionFacts
        <3> QED BY <3>1, <3>2 DEF sub
    <2>5. ASSUME NEW j \in 1 .. i + 1 PROVE f[i + 1][j] = f[(i + 1) - j + 1][1]
        <3>1. CASE j = 1
            <4>1. (i + 1) - j + 1 = i + 1  BY <3>1
            <4> QED BY <3>1, <4>1
        <3>2. CASE j # 1
            <4>1. j - 1 \in 1 .. i /\ (j - 1) + 1 = j /\ i - (j - 1) + 1 = (i + 1) - j + 1  BY <3>2
            <4>2. f[i + 1][j] = f[i][j - 1]  BY <2>4, <4>1
            <4>3. f[i][j - 1] = f[i - (j - 1) + 1][1]  BY <1>3, <4>1
            <4> QED BY <4>1, <4>2, <4>3
        <3> QED BY <3>1, <3>2
    <2> QED BY <2>1, <2>5
<1> HIDE DEF S
<1>4. \A i \in 0 .. n : i \in S  BY <1>1, <1>2, <1>3, InductionTo
<1> QED BY <1>4 DEF S

(* A new layout tells the extensions it was made from, up to the last without indices. *)
LEMMA LayoutNormal ==
    ASSUME NEW xs \in Seq(Intervals)
    PROVE  Extensions(LayoutOf(xs)) = Values!Normal(xs)
<1> DEFINE n == Len(xs)
           L == LayoutOf(xs)
           ys == Values!Normal(xs)
<1>1. PICK f : Made(xs, f) /\ L = f[n]  BY LayoutMade
<1>2. n \in Nat /\ n \in 0 .. n  OBVIOUS
<1>3. L \in ArrayLayouts /\ Len(L) = n  BY LayoutOfExtensions
<1>4. L \in Seq(ArrayDims)  BY <1>3 DEF ArrayLayouts
<1> HIDE DEF L
<1>5. /\ Extensions(L) \in Seq(Intervals) /\ Len(Extensions(L)) = n
      /\ \A k \in 1 .. n : Extensions(L)[k] = Extension(L[k])
    BY <1>3, <1>4, ExtensionsFacts
<1>6. /\ ys \in Seq(Intervals) /\ Len(ys) = n
      /\ \A k \in 1 .. n : ys[k] = IF Untold(xs, k) THEN <<0, 0>> ELSE xs[k]
    BY NormalFacts
<1> HIDE DEF ys
<1>7. ASSUME NEW k \in 1 .. n PROVE Extension(L[k]) = IF Untold(xs, k) THEN <<0, 0>> ELSE xs[k]
    <2> DEFINE m == n - k + 1
               d == f[m][1]
    <2>1. m \in 0 .. n /\ m \in 1 .. n /\ n - m + 1 = k  BY <1>2
    <2>2. L[k] = d  BY <1>1, <1>2, MadeHeads
    <2> HIDE DEF m
    <2>3. /\ f[m] \in ArrayLayouts /\ Len(f[m]) = m
          /\ NumElements(f[m]) = 0 <=> \E j \in n - m + 1 .. n : Count(xs[j]) = 0
          /\ NumElements(f[m]) # 0 => \A j \in 1 .. m : Extension(f[m][j]) = xs[n - m + j]
        BY <1>1, <2>1, SubLayouts
    <2>4. NumElements(f[m]) = 0 <=> Untold(xs, k)  BY <2>1, <2>3 DEF Untold
    <2>5. CASE ~ Untold(xs, k)
        <3>1. 1 \in 1 .. m  BY <2>1
        <3>2. Extension(f[m][1]) = xs[n - m + 1]  BY <2>3, <2>4, <2>5, <3>1
        <3> QED BY <2>1, <2>2, <2>5, <3>2
    <2>6. CASE Untold(xs, k)
        <3> DEFINE sub == f[m - 1]
                   x == xs[k]
        <3>1. f[m] = WithDimension(x, sub)
            <4>1. f[m] = WithDimension(xs[n - m + 1], f[m - 1])  BY <1>1, <2>1 DEF Made
            <4> QED BY <2>1, <4>1
        <3>2. sub \in ArrayLayouts
            <4>1. m - 1 \in 0 .. n  BY <2>1
            <4> QED BY <1>1, <4>1, SubLayouts
        <3>3. x \in Intervals  BY <1>2
        <3> HIDE DEF sub, x, m
        <3>4. Count(x) * NumElements(sub) = 0  BY <2>4, <2>6, <3>1, <3>2, <3>3, WithDimensionFacts
        <3>5. d.nelems = Count(x) * NumElements(sub)
            <4> DEFINE stride == IF sub = <<>> THEN 1 ELSE Size(Head(sub)) * Head(sub).stride
                       e == Dim(stride, x[1] * stride, Count(x) * NumElements(sub))
            <4>1. f[m] = <<e>> \o sub  BY <3>1 DEF WithDimension
            <4>2. sub \in Seq(ArrayDims)  BY <3>2 DEF ArrayLayouts
            <4>3. e.nelems = Count(x) * NumElements(sub)  BY DEF Dim
            <4> HIDE DEF e
            <4>4. (<<e>> \o sub)[1] = e  BY <4>2
            <4> QED BY <4>1, <4>3, <4>4
        <3>6. Extension(d) = <<0, 0>>  BY <3>4, <3>5 DEF Extension
        <3> QED BY <2>2, <2>6, <3>6
    <2> QED BY <2>5, <2>6
<1>8. \A k \in 1 .. Len(Extensions(L)) : Extensions(L)[k] = ys[k]  BY <1>5, <1>6, <1>7
<1>9. Extensions(L) = ys  BY <1>5, <1>6, <1>8, EqualSequences
<1> QED BY <1>9 DEF L, ys

(* What is told once is told for good. *)
LEMMA NewTold ==
    ASSUME NEW xs \in Seq(Intervals)
    PROVE  LayoutOf(xs) \in ArrayLayouts /\ Len(LayoutOf(xs)) = Len(xs) /\ Told(LayoutOf(xs))
<1> DEFINE ys == Values!Normal(xs)
           zs == Values!Normal(ys)
<1>1. LayoutOf(xs) \in ArrayLayouts /\ Len(LayoutOf(xs)) = Len(xs)  BY LayoutOfExtensions
<1>2. Extensions(LayoutOf(xs)) = ys  BY LayoutNormal
<1>3. /\ ys \in Seq(Intervals) /\ Len(ys) = Len(xs)
      /\ \A k \in 1 .. Len(xs) : ys[k] = IF Untold(xs, k) THEN <<0, 0>> ELSE xs[k]
    BY NormalFacts
<1> HIDE DEF ys
<1>4. /\ zs \in Seq(Intervals) /\ Len(zs) = Len(ys)
      /\ \A k \in 1 .. Len(ys) : zs[k] = IF Untold(ys, k) THEN <<0, 0>> ELSE ys[k]
    BY <1>3, NormalFacts
<1> HIDE DEF zs
<1>5. ASSUME NEW k \in 1 .. Len(xs), Untold(ys, k) PROVE Untold(xs, k)
    <2>1. PICK h \in k .. Len(xs) : Count(ys[h]) = 0  BY <1>3, <1>5 DEF Untold
    <2>2. h \in 1 .. Len(xs)  OBVIOUS
    <2>3. CASE Untold(xs, h)
        <3>1. PICK g \in h .. Len(xs) : Count(xs[g]) = 0  BY <2>3 DEF Untold
        <3>2. g \in k .. Len(xs)  OBVIOUS
        <3> QED BY <3>1, <3>2 DEF Untold
    <2>4. CASE ~ Untold(xs, h)
        BY <1>3, <2>1, <2>2, <2>4 DEF Untold
    <2> QED BY <2>3, <2>4
<1>6. \A k \in 1 .. Len(zs) : zs[k] = ys[k]  BY <1>3, <1>4, <1>5
<1>7. zs = ys  BY <1>3, <1>4, <1>6, EqualSequences
<1> QED BY <1>1, <1>2, <1>7 DEF Told, zs

LEMMA ToldSizes ==
    ASSUME NEW L \in Seq(ArrayDims), Told(L), NEW k \in 1 .. Len(L), Untold(Extensions(L), k)
    PROVE  Size(L[k]) = 0
<1> DEFINE xs == Extensions(L)
<1>1. /\ xs \in Seq(Intervals) /\ Len(xs) = Len(L)
      /\ \A j \in 1 .. Len(L) : xs[j] = Extension(L[j])
    BY ExtensionsFacts
<1>2. Values!Normal(xs) = xs  BY DEF Told
<1>3. Untold(xs, k)  OBVIOUS
<1> HIDE DEF xs
<1>4. xs[k] = <<0, 0>>  BY <1>1, <1>2, <1>3, NormalFacts
<1>5. Count(Extension(L[k])) = 0  BY <1>1, <1>4 DEF Count
<1>6. L[k] \in ArrayDims  OBVIOUS
<1> QED BY <1>5, <1>6, ArrayDimFacts

(* Tuples of indices are as many as elements, and name them all. *)
LEMMA LayoutTuples ==
    ASSUME NEW L \in ArrayLayouts
    PROVE  /\ IsFiniteSet(Names(L)) /\ Cardinality(Names(L)) = NumElements(L)
           /\ \A q \in 0 .. NumElements(L) - 1 : \E ix \in Names(L) : Position(L, ix) = q
<1> DEFINE n == NumElements(L)
           A == Names(L)
           B == 0 .. n - 1
           f == [ix \in A |-> Position(L, ix)]
<1>1. L \in Seq(ArrayDims) /\ n \in Nat  BY SizesFacts DEF ArrayLayouts
<1>2. \A q \in 0 .. n - 1 : \E ix \in A : Position(L, ix) = q
    <2>1. CASE n = 0
        BY <1>1, <2>1
    <2>2. CASE n # 0
        <3>1. Dense(L)  BY <2>2 DEF ArrayLayouts
        <3>2. Rowwise(L)  BY <1>1, <3>1, DenseRowwise
        <3> QED BY <3>2 DEF Rowwise
    <2> QED BY <2>1, <2>2
<1>3. \A ix \in A : Position(L, ix) \in B  BY DenseInBlock DEF Names
<1>4. \A ix, jx \in A : Position(L, ix) = Position(L, jx) => ix = jx  BY DenseApart DEF Names
<1> HIDE DEF A
<1>5. f \in Surjection(A, B)
    <2> HIDE DEF n
    <2>1. f \in [A -> B] /\ \A q \in B : \E ix \in A : f[ix] = q  BY <1>2, <1>3
    <2> QED BY <2>1 DEF Surjection
<1>6. f \in Injection(A, B)
    <2> HIDE DEF n
    <2>1. f \in [A -> B] /\ \A ix, jx \in A : f[ix] = f[jx] => ix = jx  BY <1>3, <1>4
    <2> QED BY <2>1 DEF Injection, IsInjective
<1> HIDE DEF n, f
<1>7. IsFiniteSet(B) /\ Cardinality(B) = n
    <2>1. 0 \in Int /\ n - 1 \in Int  BY <1>1
    <2>2. IsFiniteSet(0 .. n - 1) /\ Cardinality(0 .. n - 1) = IF 0 > n - 1 THEN 0 ELSE n - 1 - 0 + 1
        BY <2>1, FS_Interval
    <2> QED BY <1>1, <2>2
<1> HIDE DEF B
<1>8. IsFiniteSet(A) /\ Cardinality(A) = n  BY <1>5, <1>6, <1>7, FS_Injection
<1> QED BY <1>2, <1>8 DEF n, A

(* An element's position is its place in the order of indices. *)
LEMMA OrdinalPosition ==
    ASSUME NEW L \in ArrayLayouts, NEW ix \in Names(L)
    PROVE  Values!Ordinal(Extensions(L), ix) = Position(L, ix)
<1> DEFINE xs == Extensions(L)
<1>1. L \in Seq(ArrayDims)  BY DEF ArrayLayouts
<1>2. xs \in Seq(Intervals)  BY <1>1, ExtensionsFacts
<1>3. Values!Box(xs) = Box(xs)  BY <1>2, ValueBox
<1>4. \A jx : Values!Before(jx, ix) = Precedes(jx, ix)  BY DEF Values!Before, Precedes
<1>5. Cardinality({jx \in Box(xs) : Precedes(jx, ix)}) = Position(L, ix)  BY DenseInOrder DEF Names
<1> HIDE DEF xs
<1>6. {jx \in Values!Box(xs) : Values!Before(jx, ix)} = {jx \in Box(xs) : Precedes(jx, ix)}
    BY <1>3, <1>4
<1>7. Values!Ordinal(xs, ix) = Cardinality({jx \in Box(xs) : Precedes(jx, ix)})
    <2>1. \A S : Values!Cardinality(S) = Cardinality(S)  BY DEF Values!Cardinality, Cardinality
    <2> QED BY <1>6, <2>1 DEF Values!Ordinal
<1> QED BY <1>5, <1>7 DEF xs

LEMMA SamePositions ==
    ASSUME NEW L \in ArrayLayouts, NEW M \in ArrayLayouts, Extensions(L) = Extensions(M)
    PROVE  \A ix \in Names(L) : Position(M, ix) = Position(L, ix)
<1> SUFFICES ASSUME NEW ix \in Names(L) PROVE Position(M, ix) = Position(L, ix)
    OBVIOUS
<1>1. ix \in Names(M)  BY DEF Names
<1>2. Values!Ordinal(Extensions(L), ix) = Position(L, ix)  BY OrdinalPosition
<1>3. Values!Ordinal(Extensions(M), ix) = Position(M, ix)  BY <1>1, OrdinalPosition
<1> QED BY <1>2, <1>3

(* Reindexing: extensions and tuples of indices move along the first dimension. *)
Moved(xs, by)        == [xs EXCEPT ![1] = <<@[1] + by, @[2] + by>>]
MovedBack(ix, by)    == [ix EXCEPT ![1] = @ - by]
Reindexed(L, first)  == [L EXCEPT ![1] = Reindex(L[1], first)]

LEMMA ReindexedDim ==
    ASSUME NEW d \in ArrayDims, NEW first \in Int, NEW e, e = Reindex(d, first)
    PROVE  /\ Size(d) = 0 => Extension(e) = <<0, 0>>
           /\ Size(d) > 0 => /\ Extension(e) = <<first, first + Size(d)>>
                             /\ d \in WholeDims /\ e \in WholeDims /\ Size(e) = Size(d)
                             /\ e.stride = d.stride
<1>1. d \in Dims /\ d.stride \in Nat /\ d.nelems \in Nat /\ d.offset \in Int  BY DEF ArrayDims, Dims
<1>2. e = [stride |-> d.stride, offset |-> first * d.stride, nelems |-> d.nelems]
    BY <1>1 DEF Reindex, Dims
<1>3. e.stride = d.stride /\ e.offset = first * d.stride /\ e.nelems = d.nelems  BY <1>2
<1>4. Size(e) = Size(d)  BY <1>3 DEF Size
<1>5. Size(d) \in Nat /\ (Size(d) = 0 <=> d.nelems = 0)  BY ArrayDimFacts
<1>6. ASSUME Size(d) = 0 PROVE Extension(e) = <<0, 0>>
    BY <1>3, <1>5, <1>6 DEF Extension
<1>7. ASSUME Size(d) > 0
      PROVE  /\ Extension(e) = <<first, first + Size(d)>>
             /\ d \in WholeDims /\ e \in WholeDims
    <2>1. d \in WholeDims  BY <1>5, <1>7 DEF ArrayDims
    <2>2. d.stride \in Nat \ {0} /\ d.nelems % d.stride = 0  BY <1>1, <2>1 DEF WholeDims, WholeDim
    <2>3. first * d.stride \in Int  BY <1>1
    <2>4. e \in Dims  BY <1>1, <1>2, <2>3 DEF Dims
    <2>5. (first * d.stride) % d.stride = 0  BY <2>2, NoRemainder
    <2>6. e \in WholeDims  BY <1>3, <2>2, <2>4, <2>5 DEF WholeDims, WholeDim
    <2>7. Quot(first * d.stride, d.stride) = first  BY <2>2, QuotExact
    <2>8. Extension(e) = <<Quot(e.offset, e.stride), Quot(e.offset, e.stride) + Size(e)>>
        BY <1>4, <1>7, <2>6, WholeDimFacts
    <2> QED BY <1>3, <1>4, <2>1, <2>6, <2>7, <2>8
<1> QED BY <1>3, <1>4, <1>6, <1>7

LEMMA ReindexNames ==
    ASSUME NEW M \in ArrayLayouts, Told(M), Len(M) > 0, NEW first \in Int,
           NEW R, R = Reindexed(M, first),
           NEW by, by = first - Extensions(M)[1][1]
    PROVE  /\ R \in ArrayLayouts /\ Len(R) = Len(M) /\ NumElements(R) = NumElements(M)
           /\ by \in Int
           /\ Moved(Extensions(M), by) \in Seq(Intervals)
           /\ Extensions(R) = Values!Normal(Moved(Extensions(M), by))
           /\ \A ix \in Names(R) : /\ MovedBack(ix, by) \in Names(M)
                                   /\ Position(R, ix) = Position(M, MovedBack(ix, by))
<1> DEFINE xs == Extensions(M)
           d == M[1]
           e == Reindex(M[1], first)
           n == Len(M)
<1>1. M \in Seq(ArrayDims) /\ n \in Nat \ {0} /\ 1 \in 1 .. n  BY DEF ArrayLayouts
<1>2. R \in ArrayLayouts /\ Len(R) = n /\ NumElements(R) = NumElements(M)
    BY <1>1, ReindexFacts DEF Reindexed
<1>3. R \in Seq(ArrayDims)  BY <1>2 DEF ArrayLayouts
<1>4. R[1] = e /\ \A k \in 2 .. n : R[k] = M[k]  BY <1>1 DEF Reindexed
<1>5. d \in ArrayDims /\ R[1] \in ArrayDims  BY <1>1, <1>2, <1>3
<1>6. /\ Size(d) = 0 => Extension(e) = <<0, 0>>
      /\ Size(d) > 0 => /\ Extension(e) = <<first, first + Size(d)>>
                        /\ d \in WholeDims /\ e \in WholeDims /\ Size(e) = Size(d)
                        /\ e.stride = d.stride
    <2>1. e = Reindex(d, first)  OBVIOUS
    <2> HIDE DEF d, e
    <2> QED BY <1>5, <2>1, ReindexedDim
<1>7. /\ xs \in Seq(Intervals) /\ Len(xs) = n
      /\ \A k \in 1 .. n : xs[k] = Extension(M[k])
    BY <1>1, ExtensionsFacts
<1>8. /\ Extensions(R) \in Seq(Intervals) /\ Len(Extensions(R)) = n
      /\ \A k \in 1 .. n : Extensions(R)[k] = Extension(R[k])
    BY <1>2, <1>3, ExtensionsFacts
<1>9. Values!Normal(xs) = xs  BY DEF Told
<1>10. by = first - xs[1][1]  OBVIOUS
<1> HIDE DEF xs, d, e
<1>11. xs[1] = Extension(d) /\ Count(xs[1]) = Size(d) /\ Size(d) \in Nat /\ xs[1] \in Intervals
    BY <1>1, <1>5, <1>7, ArrayDimFacts DEF d
<1>12. xs[1][1] \in Int /\ xs[1][2] \in Int /\ xs[1][1] <= xs[1][2] /\ xs[1][2] = xs[1][1] + Size(d)
    BY <1>11 DEF Intervals, Count
<1>13. by \in Int  BY <1>10, <1>12
<1> DEFINE ys == Moved(xs, by)
           zs == Values!Normal(ys)
           y == <<xs[1][1] + by, xs[1][2] + by>>
<1>14. y \in Intervals /\ Count(y) = Size(d) /\ y = <<first, first + Size(d)>>
    <2>1. y[1] = xs[1][1] + by /\ y[2] = xs[1][2] + by  OBVIOUS
    <2>0. xs[1][1] + by = first /\ xs[1][2] + by = first + Size(d)
        BY ONLY <1>10, <1>11, <1>12, <1>13, first \in Int
    <2>2. y[1] = first /\ y[2] = first + Size(d)  BY <2>0, <2>1
    <2>3. y = <<first, first + Size(d)>>  BY <2>2
    <2>4. first <= first + Size(d) /\ (first + Size(d)) - first = Size(d) /\ first + Size(d) \in Int
        BY ONLY <1>11, first \in Int
    <2>5. y \in Intervals
        <3> HIDE DEF y
        <3> QED BY ONLY <2>3, <2>4, first \in Int DEF Intervals
    <2>6. Count(y) = y[2] - y[1]  BY DEF Count
    <2> QED BY <2>2, <2>3, <2>4, <2>5, <2>6
<1>15. ys = [xs EXCEPT ![1] = y]  BY DEF Moved
<1> HIDE DEF y
<1> HIDE DEF ys
<1>16. /\ ys \in Seq(Intervals) /\ Len(ys) = n
       /\ ys[1] = y /\ \A k \in 2 .. n : ys[k] = xs[k]
    <2>1. xs \in Seq(Intervals) /\ Len(xs) = n /\ y \in Intervals  BY <1>7, <1>14
    <2> HIDE DEF xs, n
    <2> QED BY ONLY <1>1, <1>15, <2>1
<1>17. \A k \in 1 .. n : Count(ys[k]) = Count(xs[k])
    <2>1. \A k \in 1 .. n : k = 1 \/ k \in 2 .. n  BY <1>1
    <2> QED BY <1>11, <1>14, <1>16, <2>1
<1>18. \A k \in 1 .. n : Untold(ys, k) <=> Untold(xs, k)  BY <1>7, <1>16, <1>17 DEF Untold
<1>19. /\ zs \in Seq(Intervals) /\ Len(zs) = n
       /\ \A k \in 1 .. n : zs[k] = IF Untold(ys, k) THEN <<0, 0>> ELSE ys[k]
    BY <1>16, NormalFacts
<1> HIDE DEF zs
<1>20. \A k \in 1 .. n : xs[k] = IF Untold(xs, k) THEN <<0, 0>> ELSE xs[k]  BY <1>7, <1>9, NormalFacts
<1>21. ASSUME NEW k \in 1 .. n PROVE zs[k] = Extension(R[k])
    <2>1. CASE k \in 2 .. n
        <3>1. zs[k] = xs[k]  BY <1>16, <1>18, <1>19, <1>20, <2>1
        <3> QED BY <1>4, <1>7, <2>1, <3>1
    <2>2. CASE k = 1
        <3>1. CASE Untold(xs, 1)
            <4>1. Size(M[1]) = 0  BY <1>1, <3>1, ToldSizes DEF xs
            <4> QED BY <1>4, <1>6, <1>18, <1>19, <2>2, <3>1, <4>1 DEF d
        <3>2. CASE ~ Untold(xs, 1)
            <4>1. Size(d) # 0  BY <1>1, <1>7, <1>11, <3>2 DEF Untold
            <4>2. Extension(e) = y  BY <1>6, <1>11, <1>14, <4>1
            <4> QED BY <1>4, <1>16, <1>18, <1>19, <2>2, <3>2, <4>2
        <3> QED BY <3>1, <3>2
    <2>3. k = 1 \/ k \in 2 .. n  BY <1>1
    <2> QED BY <2>1, <2>2, <2>3
<1>22. Extensions(R) = zs
    <2>1. \A k \in 1 .. Len(Extensions(R)) : Extensions(R)[k] = zs[k]  BY <1>8, <1>21
    <2> QED BY <1>8, <1>19, <2>1, EqualSequences
<1>23. ASSUME NEW ix \in Names(R)
       PROVE  MovedBack(ix, by) \in Names(M) /\ Position(R, ix) = Position(M, MovedBack(ix, by))
    <2> DEFINE jx == MovedBack(ix, by)
    <2>1. /\ ix \in Seq(Int) /\ Len(ix) = n
          /\ \A k \in 1 .. n : ix[k] \in Indices(Extension(R[k]))
        BY <1>2, <1>3, NamesAre DEF IsName
    <2>2. Size(d) > 0
        <3>1. Size(R[1]) > 0  BY <1>1, <1>2, <1>3, BoxOfLayout DEF Names
        <3>2. Size(d) # 0
            <4>1. ASSUME Size(d) = 0 PROVE FALSE
                <5>1. Extension(e) = <<0, 0>> /\ ix[1] \in Indices(Extension(e))
                    BY <1>1, <1>4, <1>6, <2>1, <4>1
                <5> QED BY <5>1 DEF Indices
            <4> QED BY <4>1
        <3> QED BY <1>11, <3>2
    <2>3. /\ Extension(e) = <<first, first + Size(d)>> /\ Extension(d) = <<xs[1][1], xs[1][1] + Size(d)>>
          /\ d \in WholeDims /\ e \in WholeDims /\ Size(e) = Size(d) /\ e.stride = d.stride
        <3>1. xs[1] = <<xs[1][1], xs[1][2]>>  BY <1>11 DEF Intervals
        <3> QED BY <1>6, <1>11, <1>12, <2>2, <3>1
    <2>4. ix[1] \in Indices(Extension(e))  BY <1>1, <1>4, <2>1
    <2>5. ix[1] \in Int /\ ix[1] - by \in Indices(Extension(d))
        <3> DEFINE x == Extension(e)
                   z == Extension(d)
        <3>1. x[1] = first /\ x[2] = first + Size(d) /\ z[1] = xs[1][1] /\ z[2] = xs[1][1] + Size(d)
            BY <2>3
        <3> HIDE DEF x, z
        <3>2. ix[1] \in x[1] .. x[2] - 1  BY <2>4 DEF Indices, x
        <3>0. x[1] .. x[2] - 1 = first .. first + Size(d) - 1  BY ONLY <1>11, <1>12, <3>1, first \in Int
        <3>3. ix[1] \in first .. first + Size(d) - 1  BY <3>0, <3>2
        <3>4. ix[1] \in Int /\ ix[1] - by \in xs[1][1] .. xs[1][1] + Size(d) - 1
            BY ONLY <1>10, <1>11, <1>12, <1>13, first \in Int, <3>3
        <3>7. z[1] .. z[2] - 1 = xs[1][1] .. xs[1][1] + Size(d) - 1  BY ONLY <1>11, <1>12, <3>1, first \in Int
        <3>5. ix[1] - by \in z[1] .. z[2] - 1  BY <3>4, <3>7
        <3>6. ix[1] - by \in Indices(z)  BY <3>5 DEF Indices
        <3> QED BY <3>4, <3>6 DEF z
    <2>6. jx \in Seq(Int) /\ Len(jx) = n /\ jx[1] = ix[1] - by /\ \A k \in 2 .. n : jx[k] = ix[k]
        <3>1. ix[1] - by \in Int  BY <1>13, <2>5
        <3> QED BY <1>1, <2>1, <3>1 DEF MovedBack
    <2> HIDE DEF jx
    <2>7. jx \in Names(M)
        <3>1. \A k \in 1 .. n : jx[k] \in Indices(Extension(M[k]))
            <4>1. \A k \in 1 .. n : k = 1 \/ k \in 2 .. n  BY <1>1
            <4> QED BY <1>4, <2>1, <2>5, <2>6, <4>1 DEF d
        <3>2. IsName(M, jx)  BY <2>6, <3>1 DEF IsName
        <3> QED BY <1>1, <3>2, NamesAre
    <2>8. Shift(e, ix[1]) = Shift(d, ix[1] - by)
        <3>1. Shift(e, ix[1]) = (ix[1] - Extension(e)[1]) * e.stride  BY <2>2, <2>3, <2>4, ShiftInDim
        <3>2. Shift(d, ix[1] - by) = ((ix[1] - by) - Extension(d)[1]) * d.stride
            BY <2>2, <2>3, <2>5, ShiftInDim
        <3>3. Extension(e)[1] = first /\ Extension(d)[1] = xs[1][1]  BY <2>3
        <3>4. ix[1] - first = (ix[1] - by) - xs[1][1]
            BY ONLY <1>10, <1>12, <1>13, <2>5, first \in Int
        <3> QED BY <2>3, <3>1, <3>2, <3>3, <3>4
    <2>9. /\ Tail(R) \in Seq(ArrayDims) /\ Len(R) = Len(Tail(R)) + 1
          /\ \A k \in 1 .. Len(Tail(R)) : R[k + 1] = Tail(R)[k]
          /\ Tail(ix) \in Names(Tail(R))
          /\ Position(R, ix) = Shift(R[1], ix[1]) + Position(Tail(R), Tail(ix))
        BY <1>1, <1>2, <1>3, NameTail
    <2>10. Tail(ix) \in Seq(Int) /\ Len(Tail(ix)) = n - 1 /\ \A k \in 1 .. n - 1 : Tail(ix)[k] = ix[k + 1]
        BY <1>1, <2>1
    <2>11. Position(M, jx) = Shift(M[1], jx[1]) + Position(Tail(R), Tail(ix))
        <3>1. Len(Tail(R)) = n - 1  BY <1>1, <1>2, <2>9
        <3>2. \A k \in 1 .. Len(Tail(R)) : M[k + 1] = Tail(R)[k] /\ jx[k + 1] = Tail(ix)[k]
            <4> SUFFICES ASSUME NEW k \in 1 .. n - 1 PROVE M[k + 1] = Tail(R)[k] /\ jx[k + 1] = Tail(ix)[k]
                BY <3>1
            <4>1. k + 1 \in 2 .. n  BY <1>1
            <4> QED BY <1>4, <2>6, <2>9, <2>10, <3>1, <4>1
        <3>3. M \in Seq(Dims) /\ Tail(R) \in Seq(Dims)  BY <1>1, <2>9 DEF ArrayDims
        <3> DEFINE T == Tail(R)
                   tx == Tail(ix)
        <3>4. Len(M) = Len(T) + 1 /\ Len(tx) = Len(T)
            <4>1. Len(T) = n - 1 /\ Len(tx) = n - 1  BY <2>10, <3>1
            <4> HIDE DEF T, tx
            <4> QED BY <1>1, <4>1
        <3>5. /\ M \in Seq(Dims) /\ T \in Seq(Dims) /\ jx \in Seq(Int) /\ tx \in Seq(Int)
              /\ Len(jx) = Len(M) /\ Len(tx) = Len(T) /\ Len(M) = Len(T) + 1
              /\ \A k \in 1 .. Len(T) : M[k + 1] = T[k] /\ jx[k + 1] = tx[k]
            BY <2>6, <2>10, <3>2, <3>3, <3>4
        <3> HIDE DEF T, tx
        <3>6. Position(M, jx) = Shift(M[1], jx[1]) + Position(T, tx)  BY ONLY <3>5, PositionFirst
        <3> QED BY <3>6 DEF T, tx
    <2> QED BY <1>4, <2>6, <2>7, <2>8, <2>9, <2>11 DEF d, jx
<1> QED BY <1>2, <1>13, <1>16, <1>22, <1>23 DEF zs, ys, xs

LEMMA ReindexTold ==
    ASSUME NEW M \in ArrayLayouts, Told(M), Len(M) > 0, NEW first \in Int
    PROVE  Told(Reindexed(M, first))
<1> DEFINE R == Reindexed(M, first)
           by == first - Extensions(M)[1][1]
           ys == Moved(Extensions(M), by)
<1>1. ys \in Seq(Intervals) /\ Extensions(R) = Values!Normal(ys)
    <2>1. R = Reindexed(M, first) /\ by = first - Extensions(M)[1][1]  OBVIOUS
    <2> HIDE DEF R, by
    <2> QED BY <2>1, ReindexNames
<1> HIDE DEF R, ys
<1>2. Extensions(LayoutOf(ys)) = Extensions(R)  BY <1>1, LayoutNormal
<1>3. Told(LayoutOf(ys))  BY <1>1, NewTold
<1> QED BY <1>2, <1>3 DEF Told, R

(* A turned layout tells the extensions turned, and of elements at their indices turned back. *)
LEMMA TurnedTuples ==
    ASSUME NEW L \in Seq(ArrayDims), Len(L) > 0
    PROVE  /\ Extensions(Rotate(L, 1)) = Values!Onward(Extensions(L))
           /\ \A jx \in Names(Rotate(L, 1)) :
                  /\ Values!Back(jx) \in Names(L)
                  /\ Position(Rotate(L, 1), jx) = Position(L, Values!Back(jx))
<1> DEFINE R == Rotate(L, 1)
           n == Len(L)
           xs == Extensions(L)
           ys == Values!Onward(xs)
<1>1. n \in Nat \ {0} /\ n \in 1 .. n  OBVIOUS
<1>2. /\ R \in Seq(ArrayDims) /\ Len(R) = n
      /\ \A k \in 1 .. n - 1 : R[k] = L[k + 1]
      /\ R[n] = L[1]
    BY RotateOne
<1> HIDE DEF R
<1>3. /\ xs \in Seq(Intervals) /\ Len(xs) = n
      /\ \A k \in 1 .. n : xs[k] = Extension(L[k])
    BY ExtensionsFacts
<1>4. /\ Extensions(R) \in Seq(Intervals) /\ Len(Extensions(R)) = n
      /\ \A k \in 1 .. n : Extensions(R)[k] = Extension(R[k])
    BY <1>2, ExtensionsFacts
<1> HIDE DEF xs
<1>5. ys = [k \in 1 .. n |-> xs[(k % n) + 1]]
    <2>1. DOMAIN xs = 1 .. n  BY <1>3
    <2> QED BY <1>3, <2>1 DEF Values!Onward
<1>6. \A k \in 1 .. n - 1 : k % n = k  BY <1>1
<1>7. n % n = 0  BY <1>1
<1>8. ASSUME NEW k \in 1 .. n PROVE ys[k] = Extension(R[k])
    <2>1. CASE k = n
        BY <1>1, <1>2, <1>3, <1>5, <1>7, <2>1
    <2>2. CASE k # n
        <3>1. k \in 1 .. n - 1 /\ k + 1 \in 1 .. n  BY <1>1, <2>2
        <3> QED BY <1>2, <1>3, <1>5, <1>6, <3>1
    <2> QED BY <2>1, <2>2
<1>9. ys \in Seq(Intervals) /\ Len(ys) = n
    <2>1. \A k \in 1 .. n : ys[k] \in Intervals  BY <1>4, <1>8
    <2>2. ys \in [1 .. n -> Intervals]  BY <1>5, <2>1
    <2> HIDE DEF ys
    <2> QED BY <1>1, <2>2
<1> HIDE DEF ys
<1>10. \A k \in 1 .. Len(Extensions(R)) : Extensions(R)[k] = ys[k]  BY <1>4, <1>8
<1>11. Extensions(R) = ys  BY <1>4, <1>9, <1>10, EqualSequences
<1>12. ASSUME NEW jx \in Names(R)
       PROVE  Values!Back(jx) \in Names(L) /\ Position(R, jx) = Position(L, Values!Back(jx))
    <2>1. Back(jx) \in Names(L) /\ Position(R, jx) = Position(L, Back(jx)) /\ jx \in Seq(Int) /\ Len(jx) = n
        BY TurnedNames DEF R
    <2>2. Values!Back(jx) = Back(jx)
        <3>1. DOMAIN jx = 1 .. n  BY <2>1
        <3>2. Values!Back(jx) = [k \in 1 .. n |-> jx[((k - 2) % n) + 1]]  BY <2>1, <3>1 DEF Values!Back
        <3>3. Back(jx) = [k \in 1 .. n |-> IF k = 1 THEN jx[n] ELSE jx[k - 1]]  BY <2>1 DEF Back
        <3>4. ASSUME NEW k \in 1 .. n
              PROVE  jx[((k - 2) % n) + 1] = IF k = 1 THEN jx[n] ELSE jx[k - 1]
            <4>1. CASE k = 1
                <5>1. (1 - 2) % n = n - 1
                    <6>1. -1 \in Int /\ n - 1 \in 0 .. n - 1 /\ (-1) * n + (n - 1) = 1 - 2  BY <1>1
                    <6>2. ((-1) * n + (n - 1)) % n = n - 1  BY <1>1, <6>1, Remainder
                    <6> QED BY <6>1, <6>2
                <5> QED BY <1>1, <4>1, <5>1
            <4>2. CASE k # 1
                <5>1. k - 2 \in 0 .. n - 1 /\ (k - 2) % n = k - 2  BY <1>1, <4>2
                <5> QED BY <4>2, <5>1
            <4> QED BY <4>1, <4>2
        <3> QED BY <3>2, <3>3, <3>4
    <2> QED BY <2>1, <2>2
<1> QED BY <1>11, <1>12 DEF R, ys, xs

LEMMA DivisionOf ==
    ASSUME NEW i \in Int, NEW N \in Nat \ {0}, NEW q \in 0 .. N - 1
    PROVE  (i * N + q) \div N = i
<1> DEFINE a == i * N + q
           b == a \div N
           r == a % N
<1>1. a \in Int  OBVIOUS
<1>2. r = q  BY Remainder
<1>3. a = b * N + r /\ b \in Int  BY <1>1, Division
<1> HIDE DEF b, r
<1>4. i * N + q = b * N + q  BY <1>2, <1>3
<1>5. i * N = b * N
    <2>1. i * N \in Int /\ b * N \in Int /\ q \in Int  BY <1>3
    <2> QED BY <1>4, <2>1
<1>6. i = b  BY <1>3, <1>5, Cancels
<1> QED BY <1>6 DEF b

(* The elements of the rows of a matrix lie one row after another. *)
LEMMA RowOf ==
    ASSUME NEW x \in Intervals, NEW n \in Nat \ {0}, NEW L, L = LayoutOf(<<<<0, n>>, x>>),
           NEW ix \in Names(L)
    PROVE  Position(L, ix) \div Count(x) = ix[1]
<1> DEFINE y == <<0, n>>
           xs == <<y, x>>
           T == Tail(L)
           tx == Tail(ix)
           m == Count(x)
<1>1. y \in Intervals /\ Count(y) = n /\ y[1] = 0 /\ y[2] = n  BY DEF Intervals, Count
<1>2. m \in Nat  BY DEF Intervals, Count
<1>3. L = LayoutOf(<<y, x>>)  OBVIOUS
<1> HIDE DEF y
<1>4. xs \in Seq(Intervals) /\ Len(xs) = 2 /\ xs[1] = y /\ xs[2] = x  BY <1>1
<1> HIDE DEF xs
<1>5. L \in ArrayLayouts /\ Len(L) = 2 /\ Len(L) > 0 /\ 1 \in 1 .. Len(L) /\ NumElements(L) = n * m
    BY <1>1, <1>3, MatrixElements
<1>6. L \in Seq(ArrayDims) /\ L[1] \in ArrayDims  BY <1>5 DEF ArrayLayouts
<1>7. NumElements(L) # 0 /\ Dense(L)
    <2>1. NumElements(L) # 0  BY <1>6, BoxOfLayout DEF Names
    <2> QED BY <1>5, <2>1 DEF ArrayLayouts
<1>8. Extensions(L) = xs
    <2>1. L = LayoutOf(xs)  BY <1>3 DEF xs
    <2> QED BY <1>4, <1>7, <2>1, LayoutOfExtensions
<1>9. /\ Extensions(L)[1] = Extension(L[1])
    BY <1>5, <1>6, ExtensionsFacts
<1>10. Extension(L[1]) = y  BY <1>4, <1>8, <1>9
<1>11. /\ T \in Seq(ArrayDims) /\ Len(L) = Len(T) + 1
       /\ \A k \in 1 .. Len(T) : L[k + 1] = T[k]
       /\ ix[1] \in Indices(Extension(L[1]))
       /\ tx \in Names(T)
       /\ Position(L, ix) = Shift(L[1], ix[1]) + Position(T, tx)
    <2>1. Len(L) > 0 /\ L \in Seq(ArrayDims) /\ ix \in Names(L)  BY <1>5, <1>6
    <2> QED BY ONLY <2>1, NameTail
<1> HIDE DEF T, tx
<1>12. Dense(T) /\ NumElements(T) = L[1].stride  BY <1>5, <1>6, <1>7, <1>11, DenseTail
<1>13. T \in ArrayLayouts  BY <1>11, <1>12 DEF ArrayLayouts
<1>14. Size(L[1]) = n  BY <1>1, <1>6, <1>10, ArrayDimFacts
<1>15. NumElements(T) = m
    <2>1. NumElements(L) = Size(L[1]) * NumElements(T)  BY <1>6, <1>11, NumElementsFirst
    <2>2. NumElements(T) \in Nat  BY <1>11, SizesFacts
    <2>3. NumElements(T) * n = m * n  BY <1>2, <1>5, <1>14, <2>1, <2>2
    <2>4. NumElements(T) \in Int /\ m \in Int  BY <1>2, <2>2
    <2> HIDE DEF m
    <2> QED BY <2>3, <2>4, Cancels
<1> HIDE DEF m
<1>16. m \in Nat \ {0}  BY <1>2, <1>5, <1>7
<1>17. Position(T, tx) \in 0 .. m - 1  BY <1>11, <1>13, <1>15, DenseInBlock DEF Names
<1>18. ix[1] \in Int /\ Shift(L[1], ix[1]) = ix[1] * m
    <2>1. L[1] \in WholeDims  BY <1>5, <1>7 DEF Dense
    <2>2. ix[1] \in Int /\ Shift(L[1], ix[1]) = (ix[1] - Extension(L[1])[1]) * L[1].stride
        BY <1>11, <1>14, <2>1, ShiftInDim
    <2>3. Extension(L[1])[1] = 0  BY <1>1, <1>10
    <2>4. ix[1] - 0 = ix[1]  BY <2>2
    <2> QED BY <1>12, <1>15, <2>2, <2>3, <2>4
<1>19. Position(L, ix) = ix[1] * m + Position(T, tx)  BY <1>11, <1>18
<1>20. (ix[1] * m + Position(T, tx)) \div m = ix[1]  BY <1>16, <1>17, <1>18, DivisionOf
<1> QED BY <1>19, <1>20 DEF m

(***************************************************************************)
(* The worlds that operations work on.  The invariants of the system speak *)
(* of the arrays between calls; in the middle of one there is a temporary, *)
(* and every array of the world has a block of its own or no elements.     *)
(***************************************************************************)
(* An array's layout tells its extensions as they are: a dimension without indices has  *)
(* none to tell.                                                                        *)
Layouts == {L \in ArrayLayouts : Len(L) = Rank /\ Told(L)}
Handles == [alloc : Allocators, base : Blocks \cup {Null}, layout : Layouts]
Chunks  == [alloc : Allocators, cells : Seq(Elements)]

IsWorld(w) ==
    /\ w = [array |-> w.array, heap |-> w.heap]
    /\ w.array \in [DOMAIN w.array -> Handles] /\ DOMAIN w.array \subseteq Arrays \cup {Temp}
    /\ w.heap \in [DOMAIN w.heap -> Chunks]    /\ DOMAIN w.heap \subseteq Blocks

Held(w, a)  == NumElements(w.array[a].layout) # 0
Base(w, a)  == w.array[a].base

(* An array that has elements has a block as long as its layout, ... *)
HasBlock(w, a) ==
    /\ Base(w, a) \in DOMAIN w.heap
    /\ Len(w.heap[Base(w, a)].cells) = NumElements(w.array[a].layout)
    /\ "move" \notin Unchecked => w.heap[Base(w, a)].alloc = w.array[a].alloc
(* ... which is its own, ... *)
Apart(w, a, b) == a # b => Base(w, a) # Base(w, b)
(* ... and a block is lost only if it never held an element: a constructor was interrupted. *)
KeptIn(w, p) == \E a \in DOMAIN w.array : Held(w, a) /\ Base(w, a) = p

LostIn(w, p) == "construct" \in Throwing /\ w.heap[p].cells = <<>>

Sound(w) ==
    /\ IsWorld(w)
    /\ \A a \in DOMAIN w.array : Held(w, a) => HasBlock(w, a)
    /\ \A a, b \in DOMAIN w.array : Held(w, a) /\ Held(w, b) => Apart(w, a, b)
    /\ \A p \in DOMAIN w.heap : KeptIn(w, p) \/ LostIn(w, p)

IInv == /\ program \in Programs
        /\ stopped \in BOOLEAN
        /\ Live \subseteq Arrays
        /\ Sound(World)

(***************************************************************************)
(* Layouts of arrays.                                                      *)
(***************************************************************************)
(* Shapes are lists of Rank extensions, and layouts are made from them. *)
LEMMA ShapeFacts ==
    /\ Rank \in Nat \ {0}
    /\ \A xs \in Shapes : /\ xs \in Seq(Intervals) /\ Len(xs) = Rank
                          /\ LayoutOf(xs) \in Layouts
<1>1. Rank \in Nat \ {0} /\ \A xs \in Shapes : Len(xs) = Rank
    <2> DEFINE ys == CHOOSE xs \in Shapes : TRUE
    <2>1. ys \in Shapes  BY ShapesAssumption
    <2> HIDE DEF ys
    <2>2. Len(ys) \in Nat \ {0}  BY <2>1, ShapesAssumption
    <2>3. Rank = Len(ys)  BY DEF Rank, ys
    <2> QED BY <2>1, <2>2, <2>3, RankAssumption
<1>2. ASSUME NEW xs \in Shapes PROVE xs \in Seq(Intervals)
    <2>1. xs \in Seq(Int \X Int) /\ \A k \in 1 .. Len(xs) : xs[k][1] <= xs[k][2]
        BY ShapesAssumption
    <2>2. \A k \in 1 .. Len(xs) : xs[k] \in Intervals  BY <2>1 DEF Intervals
    <2>3. xs = [k \in 1 .. Len(xs) |-> xs[k]] /\ Len(xs) \in Nat  BY <2>1
    <2> QED BY <2>2, <2>3
<1> QED BY <1>1, <1>2, NewTold DEF Layouts

(* The layout of an array without elements, of Rank dimensions (layout_t()). *)
LEMMA NoLayoutFacts ==
    NoLayout(Rank) \in Layouts /\ NumElements(NoLayout(Rank)) = 0
<1> DEFINE L == NoLayout(Rank)
<1>1. Rank \in Nat \ {0}  BY ShapeFacts
<1>2. L = [k \in 1 .. Rank |-> Dim(1, 0, 0)]  BY DEF NoLayout
<1>3. Dim(1, 0, 0) \in ArrayDims /\ Size(Dim(1, 0, 0)) = 0  BY DEF Dim, ArrayDims, Dims, Size
<1> HIDE DEF L
<1>4. L \in Seq(ArrayDims) /\ Len(L) = Rank /\ L[1] = Dim(1, 0, 0)  BY <1>1, <1>2, <1>3
<1>5. NumElements(L) = 0  BY <1>1, <1>3, <1>4, SizesFacts
<1>6. Told(L)
    <2> DEFINE xs == Extensions(L)
               ys == Values!Normal(xs)
    <2>1. \A k \in 1 .. Rank : L[k] = Dim(1, 0, 0)  BY <1>2
    <2>2. Extension(Dim(1, 0, 0)) = <<0, 0>>  BY DEF Dim, Extension
    <2>3. xs \in Seq(Intervals) /\ Len(xs) = Rank /\ \A k \in 1 .. Rank : xs[k] = <<0, 0>>
        BY <1>4, <2>1, <2>2, ExtensionsFacts
    <2> HIDE DEF xs
    <2>4. /\ ys \in Seq(Intervals) /\ Len(ys) = Rank
          /\ \A k \in 1 .. Rank : ys[k] = IF Untold(xs, k) THEN <<0, 0>> ELSE xs[k]
        BY <2>3, NormalFacts
    <2> HIDE DEF ys
    <2>5. \A k \in 1 .. Len(ys) : ys[k] = xs[k]  BY <2>3, <2>4
    <2>6. ys = xs  BY <2>3, <2>4, <2>5, EqualSequences
    <2> QED BY <2>6 DEF Told, xs, ys
<1> QED BY <1>4, <1>5, <1>6 DEF L, Layouts, ArrayLayouts

(* A layout made again from the extensions of an array has room for its elements. *)
LEMMA LayoutFacts ==
    ASSUME NEW L \in Layouts
    PROVE  /\ L \in Seq(ArrayDims) /\ L \in ArrayLayouts /\ Len(L) = Rank
           /\ NumElements(L) \in Nat
           /\ LayoutOf(Extensions(L)) \in Layouts
           /\ NumElements(LayoutOf(Extensions(L))) = NumElements(L)
           /\ Extensions(LayoutOf(Extensions(L))) = Extensions(L) /\ Told(L)
<1>1. L \in Seq(ArrayDims) /\ L \in ArrayLayouts /\ Len(L) = Rank /\ Told(L)
    BY DEF Layouts, ArrayLayouts
<1>2. NumElements(L) \in Nat  BY <1>1, SizesFacts
<1>3. Extensions(L) \in Seq(Intervals) /\ Len(Extensions(L)) = Rank  BY <1>1, ExtensionsFacts
<1>4. LayoutOf(Extensions(L)) \in Layouts  BY <1>3, NewTold DEF Layouts
<1>5. Extensions(LayoutOf(Extensions(L))) = Extensions(L)  BY <1>1, <1>3, LayoutNormal DEF Told
<1> QED BY <1>1, <1>2, <1>4, <1>5, CopyHasRoom

(***************************************************************************)
(* Operations on worlds: each leaves the world sound.                      *)
(***************************************************************************)
(* What a sound world holds. *)
LEMMA WorldFacts ==
    ASSUME NEW w, Sound(w), NEW a \in DOMAIN w.array
    PROVE  /\ w.array[a] \in Handles /\ w.array[a].alloc \in Allocators
           /\ w.array[a].base \in Blocks \cup {Null} /\ w.array[a].layout \in Layouts
           /\ NumElements(w.array[a].layout) \in Nat
           /\ Len(w.array[a].layout) = Rank
           /\ CellsOf(w, a) \in Seq(Elements)
           /\ Len(CellsOf(w, a)) = NumElements(w.array[a].layout)
<1>1. w.array[a] \in Handles  BY DEF Sound, IsWorld
<1>2. /\ w.array[a].alloc \in Allocators /\ w.array[a].base \in Blocks \cup {Null}
      /\ w.array[a].layout \in Layouts
    BY <1>1 DEF Handles
<1>3. NumElements(w.array[a].layout) \in Nat /\ Len(w.array[a].layout) = Rank  BY <1>2, LayoutFacts
<1>4. CellsOf(w, a) \in Seq(Elements) /\ Len(CellsOf(w, a)) = NumElements(w.array[a].layout)
    <2>1. CASE NumElements(w.array[a].layout) = 0
        <3>1. CellsOf(w, a) = <<>>  BY <2>1 DEF CellsOf
        <3> QED BY <2>1, <3>1
    <2>2. CASE NumElements(w.array[a].layout) # 0
        <3>1. CellsOf(w, a) = w.heap[Base(w, a)].cells  BY <2>2 DEF CellsOf, Base
        <3>2. HasBlock(w, a)  BY <2>2 DEF Sound, Held
        <3>3. w.heap[Base(w, a)] \in Chunks  BY <3>2 DEF Sound, IsWorld, HasBlock
        <3>4. w.heap[Base(w, a)].cells \in Seq(Elements)  BY <3>3 DEF Chunks
        <3> QED BY <3>1, <3>2, <3>4 DEF HasBlock
    <2> QED BY <2>1, <2>2
<1> QED BY <1>1, <1>2, <1>3, <1>4

(* A new array, in a block of its own (array_allocator's and static_array's constructors). *)
Constructible(w, a, al, p, L, cells) ==
    /\ Sound(w) /\ a \in (Arrays \cup {Temp}) \ DOMAIN w.array
    /\ al \in Allocators /\ L \in Layouts /\ p \in Places(w, NumElements(L))
    /\ NumElements(L) # 0 => cells \in Seq(Elements) /\ Len(cells) = NumElements(L)

Added(w, a, v) == DOMAIN v.array = DOMAIN w.array \cup {a}
Preserved(w, v) ==
    \A b \in DOMAIN w.array : v.array[b] = w.array[b] /\ CellsOf(v, b) = CellsOf(w, b)

Holds(v, a, L, cells) == NumElements(L) # 0 => CellsOf(v, a) = cells

LEMMA ConstructSound ==
    ASSUME NEW w, NEW a, NEW al, NEW L, NEW p, NEW cells, Constructible(w, a, al, p, L, cells),
           NEW v, v = Construct(w, a, al, p, L, cells)
    PROVE  /\ Sound(v) /\ Added(w, a, v) /\ Preserved(w, v)
           /\ v.array[a] = [alloc |-> al, base |-> p, layout |-> L]
           /\ Holds(v, a, L, cells)
<1> DEFINE h == [alloc |-> al, base |-> p, layout |-> L]
           c == [alloc |-> al, cells |-> cells]
<1>0. /\ Sound(w) /\ a \in (Arrays \cup {Temp}) \ DOMAIN w.array
      /\ al \in Allocators /\ L \in Layouts /\ p \in Places(w, NumElements(L))
      /\ NumElements(L) # 0 => cells \in Seq(Elements) /\ Len(cells) = NumElements(L)
    BY DEF Constructible
<1> USE <1>0
<1>1. IsWorld(w)  BY DEF Sound
<1>2. /\ v = [array |-> v.array, heap |-> v.heap]
      /\ v.array = With(w.array, a, h)
      /\ v.heap = IF NumElements(L) = 0 THEN w.heap ELSE With(w.heap, p, c)
    BY DEF Construct
<1>3. p \in Blocks \cup {Null} /\ (NumElements(L) # 0 => p \in Blocks \ DOMAIN w.heap)
    BY DEF Places
<1>4. h \in Handles /\ h.alloc = al /\ h.base = p /\ h.layout = L  BY <1>3 DEF Handles
<1>5. NumElements(L) # 0 => c \in Chunks  BY DEF Chunks
<1> HIDE DEF h, c
<1>6. /\ DOMAIN v.array = DOMAIN w.array \cup {a} /\ v.array \in [DOMAIN v.array -> Handles]
      /\ v.array[a] = h /\ \A b \in DOMAIN w.array : v.array[b] = w.array[b]
    <2>1. w.array \in [DOMAIN w.array -> Handles] /\ a \notin DOMAIN w.array  BY <1>1 DEF IsWorld
    <2>2. h \in Handles /\ v.array = With(w.array, a, h)  BY <1>2, <1>4
    <2> QED BY <1>4, <2>1, <2>2 DEF With
<1>7. /\ DOMAIN v.heap \subseteq Blocks /\ v.heap \in [DOMAIN v.heap -> Chunks]
      /\ DOMAIN w.heap \subseteq DOMAIN v.heap
      /\ \A q \in DOMAIN w.heap : v.heap[q] = w.heap[q]
      /\ NumElements(L) # 0 => DOMAIN v.heap = DOMAIN w.heap \cup {p} /\ v.heap[p] = c
      /\ NumElements(L) = 0 => v.heap = w.heap
    <2>1. CASE NumElements(L) = 0
        BY <1>1, <1>2, <2>1 DEF IsWorld
    <2>2. CASE NumElements(L) # 0
        <3>1. c \in Chunks /\ v.heap = With(w.heap, p, c) /\ p \in Blocks /\ p \notin DOMAIN w.heap
            BY <1>2, <1>3, <1>5, <2>2
        <3>2. w.heap \in [DOMAIN w.heap -> Chunks] /\ DOMAIN w.heap \subseteq Blocks  BY <1>1 DEF IsWorld
        <3>3. /\ DOMAIN v.heap = DOMAIN w.heap \cup {p} /\ v.heap \in [DOMAIN v.heap -> Chunks]
              /\ v.heap[p] = c /\ \A q \in DOMAIN w.heap : v.heap[q] = w.heap[q]
            BY <3>1, <3>2 DEF With
        <3> QED BY <2>2, <3>1, <3>2, <3>3
    <2> QED BY <2>1, <2>2
<1>8. \A b \in DOMAIN w.array : v.array[b] = w.array[b] /\ Held(v, b) = Held(w, b) /\ Base(v, b) = Base(w, b)
    BY <1>6 DEF Held, Base
<1>9. Held(v, a) = (NumElements(L) # 0) /\ Base(v, a) = p  BY <1>4, <1>6 DEF Held, Base
<1>10. ASSUME NEW b \in DOMAIN v.array, Held(v, b)
       PROVE  HasBlock(v, b)
    <2>1. CASE b = a
        <3>1. NumElements(L) # 0  BY <1>9, <1>10, <2>1
        <3>2. c.alloc = al /\ c.cells = cells /\ v.heap[p] = c /\ p \in DOMAIN v.heap
            BY <1>7, <3>1 DEF c
        <3> QED BY <1>4, <1>6, <1>9, <2>1, <3>1, <3>2 DEF HasBlock
    <2>2. CASE b # a
        <3>1. b \in DOMAIN w.array /\ Held(w, b)  BY <1>6, <1>8, <1>10, <2>2
        <3>2. HasBlock(w, b)  BY <3>1 DEF Sound
        <3> QED BY <1>7, <1>8, <3>1, <3>2 DEF HasBlock
    <2> QED BY <2>1, <2>2
<1>11. ASSUME NEW b \in DOMAIN v.array, NEW d \in DOMAIN v.array, Held(v, b), Held(v, d)
       PROVE  Apart(v, b, d)
    <2>1. ASSUME NEW e \in DOMAIN w.array, Held(w, e), NumElements(L) # 0
          PROVE  Base(w, e) # p
        <3>1. HasBlock(w, e)  BY <2>1 DEF Sound
        <3> QED BY <1>3, <2>1, <3>1 DEF HasBlock
    <2>2. CASE b # a /\ d # a
        <3>1. b \in DOMAIN w.array /\ d \in DOMAIN w.array /\ Held(w, b) /\ Held(w, d)
            BY <1>6, <1>8, <1>11, <2>2
        <3>2. Apart(w, b, d)  BY <3>1 DEF Sound
        <3> QED BY <1>8, <3>1, <3>2 DEF Apart
    <2>3. CASE b = a /\ d # a
        BY <1>6, <1>8, <1>9, <1>11, <2>1, <2>3 DEF Apart
    <2>4. CASE b # a /\ d = a
        BY <1>6, <1>8, <1>9, <1>11, <2>1, <2>4 DEF Apart
    <2> QED BY <2>2, <2>3, <2>4 DEF Apart
<1>12. ASSUME NEW q \in DOMAIN v.heap
       PROVE  KeptIn(v, q) \/ LostIn(v, q)
    <2>1. CASE q \in DOMAIN w.heap
        <3>1. KeptIn(w, q) \/ LostIn(w, q)  BY <2>1 DEF Sound
        <3> QED BY <1>6, <1>7, <1>8, <2>1, <3>1 DEF KeptIn, LostIn
    <2>2. CASE q \notin DOMAIN w.heap
        <3>1. NumElements(L) # 0 /\ q = p  BY <1>7, <2>2
        <3> QED BY <1>6, <1>9, <3>1 DEF KeptIn
    <2> QED BY <2>1, <2>2
<1>13. DOMAIN v.array \subseteq Arrays \cup {Temp}  BY <1>1, <1>6 DEF IsWorld
<1>14. Sound(v)  BY <1>2, <1>6, <1>7, <1>10, <1>11, <1>12, <1>13 DEF Sound, IsWorld
<1>15. ASSUME NEW b \in DOMAIN w.array PROVE CellsOf(v, b) = CellsOf(w, b)
    <2>1. Held(w, b) => Base(w, b) \in DOMAIN w.heap  BY DEF Sound, HasBlock
    <2> QED BY <1>7, <1>8, <2>1 DEF CellsOf, Held, Base
<1>16. NumElements(L) # 0 => CellsOf(v, a) = cells  BY <1>4, <1>6, <1>7 DEF CellsOf, c
<1> QED BY <1>6, <1>14, <1>15, <1>16 DEF h, Added, Preserved, Holds

(* The elements of an array change, and those of no other array. *)
LEMMA RewrittenSound ==
    ASSUME NEW w, Sound(w), NEW a \in DOMAIN w.array, Held(w, a),
           NEW c \in Seq(Elements), Len(c) = NumElements(w.array[a].layout),
           NEW v, v = [w EXCEPT !.heap[Base(w, a)].cells = c]
    PROVE  /\ Sound(v) /\ v.array = w.array /\ CellsOf(v, a) = c
           /\ \A b \in DOMAIN w.array : b # a => CellsOf(v, b) = CellsOf(w, b)
<1> DEFINE p == Base(w, a)
<1>1. IsWorld(w) /\ HasBlock(w, a)  BY DEF Sound
<1>2. p \in DOMAIN w.heap /\ w.heap[p] \in Chunks  BY <1>1 DEF IsWorld, HasBlock
<1>3. /\ v = [array |-> v.array, heap |-> v.heap] /\ v.array = w.array
      /\ v.heap = [w.heap EXCEPT ![p] = [@ EXCEPT !.cells = c]]
    BY <1>1 DEF IsWorld
<1> HIDE DEF p
<1>4. [w.heap[p] EXCEPT !.cells = c] = [alloc |-> w.heap[p].alloc, cells |-> c]
    BY <1>2 DEF Chunks
<1>5. /\ DOMAIN v.heap = DOMAIN w.heap /\ v.heap[p].cells = c /\ v.heap[p].alloc = w.heap[p].alloc
      /\ v.heap \in [DOMAIN v.heap -> Chunks]
      /\ \A q \in DOMAIN w.heap : q # p => v.heap[q] = w.heap[q]
    <2> DEFINE e == [alloc |-> w.heap[p].alloc, cells |-> c]
    <2>1. e \in Chunks /\ e.cells = c /\ e.alloc = w.heap[p].alloc  BY <1>2 DEF Chunks
    <2>2. w.heap \in [DOMAIN w.heap -> Chunks]  BY <1>1 DEF IsWorld
    <2>3. v.heap = [w.heap EXCEPT ![p] = e]  BY <1>2, <1>3, <1>4
    <2> HIDE DEF e
    <2> QED BY <1>2, <2>1, <2>2, <2>3, ZenonT(30)
<1>6. ASSUME NEW b \in DOMAIN w.array
      PROVE  Held(v, b) = Held(w, b) /\ Base(v, b) = Base(w, b)
    BY <1>3 DEF Held, Base
<1>7. ASSUME NEW b \in DOMAIN w.array, Held(w, b), b # a
      PROVE  HasBlock(w, b) /\ Base(w, b) # p
    BY <1>7 DEF Sound, Apart, p
<1>8. ASSUME NEW b \in DOMAIN v.array, Held(v, b)
      PROVE  HasBlock(v, b)
    <2>1. b \in DOMAIN w.array /\ Held(w, b)  BY <1>3, <1>6, <1>8
    <2>2. CASE b = a
        BY <1>1, <1>3, <1>5, <1>6, <2>2 DEF HasBlock, p
    <2>3. CASE b # a
        BY <1>3, <1>5, <1>6, <1>7, <2>1, <2>3, ZenonT(30) DEF HasBlock
    <2> QED BY <2>2, <2>3
<1>9. ASSUME NEW b \in DOMAIN v.array, NEW d \in DOMAIN v.array, Held(v, b), Held(v, d)
      PROVE  Apart(v, b, d)
    BY <1>3, <1>6, <1>9 DEF Sound, Apart
<1>10. ASSUME NEW q \in DOMAIN v.heap
       PROVE  KeptIn(v, q) \/ LostIn(v, q)
    <2>1. CASE q = p
        BY <1>3, <1>6, <2>1 DEF KeptIn, p
    <2>2. CASE q # p
        <3>1. q \in DOMAIN w.heap /\ v.heap[q] = w.heap[q]  BY <1>5, <2>2
        <3>2. KeptIn(w, q) \/ LostIn(w, q)  BY <3>1 DEF Sound
        <3> QED BY <1>3, <1>6, <3>1, <3>2 DEF KeptIn, LostIn
    <2> QED BY <2>1, <2>2
<1>11. Sound(v)  BY <1>1, <1>3, <1>5, <1>8, <1>9, <1>10 DEF Sound, IsWorld
<1>12. ASSUME NEW b \in DOMAIN w.array, b # a PROVE CellsOf(v, b) = CellsOf(w, b)
    <2>1. CASE ~ Held(w, b)
        BY <1>3, <2>1 DEF CellsOf, Held
    <2>2. CASE Held(w, b)
        <3>1. Base(w, b) \in DOMAIN w.heap /\ Base(w, b) # p  BY <1>7, <1>12, <2>2 DEF HasBlock
        <3>2. v.heap[Base(w, b)] = w.heap[Base(w, b)]  BY <1>5, <3>1
        <3>3. v.array = w.array  BY <1>3
        <3> HIDE DEF p
        <3>4. v.array[b].base = Base(w, b) /\ w.array[b].base = Base(w, b)  BY <3>3 DEF Base
        <3>5. CellsOf(v, b) = v.heap[Base(w, b)].cells  BY <2>2, <3>3, <3>4, Zenon DEF CellsOf, Held
        <3>6. CellsOf(w, b) = w.heap[Base(w, b)].cells  BY <2>2, <3>4, Zenon DEF CellsOf, Held
        <3> QED BY <3>2, <3>5, <3>6
    <2> QED BY <2>1, <2>2
<1>13. CellsOf(v, a) = c
    <2>1. v.array[a].base = p /\ NumElements(v.array[a].layout) # 0  BY <1>3 DEF Held, Base, p
    <2> QED BY <1>5, <2>1 DEF CellsOf
<1> QED BY <1>3, <1>11, <1>12, <1>13

(* An array gives its block back, and is gone or has no elements. *)
LEMMA ReleasedSound ==
    ASSUME NEW w, Sound(w), NEW a \in DOMAIN w.array,
           NEW v, v = [array |-> v.array, heap |-> Deallocate(w, a).heap],
           v.array \in [DOMAIN v.array -> Handles],
           DOMAIN w.array \ {a} \subseteq DOMAIN v.array, DOMAIN v.array \subseteq DOMAIN w.array,
           \A b \in DOMAIN w.array \ {a} : v.array[b] = w.array[b],
           a \in DOMAIN v.array => ~ Held(v, a)
    PROVE  /\ Sound(v)
           /\ \A b \in DOMAIN w.array \ {a} : CellsOf(v, b) = CellsOf(w, b)
<1> DEFINE p == Base(w, a)
<1>1. IsWorld(w)  BY DEF Sound
<1>2. v.heap = IF Held(w, a) THEN Without(w.heap, p) ELSE w.heap
    <2>1. w = [array |-> w.array, heap |-> w.heap]  BY <1>1 DEF IsWorld
    <2>2. v.heap = Deallocate(w, a).heap  OBVIOUS
    <2>3. CASE Held(w, a)
        <3>1. Deallocate(w, a) = [w EXCEPT !.heap = Without(@, p)]  BY <2>3 DEF Deallocate, Held, Base
        <3> QED BY <2>1, <2>2, <2>3, <3>1
    <2>4. CASE ~ Held(w, a)
        <3>1. Deallocate(w, a) = w  BY <2>4 DEF Deallocate, Held
        <3> QED BY <2>2, <2>4, <3>1
    <2> QED BY <2>3, <2>4
<1> HIDE DEF p
<1>3. /\ DOMAIN v.heap = DOMAIN w.heap \ (IF Held(w, a) THEN {p} ELSE {})
      /\ v.heap \in [DOMAIN v.heap -> Chunks]
      /\ \A q \in DOMAIN v.heap : v.heap[q] = w.heap[q]
    <2>1. w.heap \in [DOMAIN w.heap -> Chunks]  BY <1>1 DEF IsWorld
    <2> QED BY <1>2, <2>1 DEF Without, Restrict
<1>4. ASSUME NEW b \in DOMAIN w.array \ {a}
      PROVE  Held(v, b) = Held(w, b) /\ Base(v, b) = Base(w, b)
    BY DEF Held, Base
<1>5. ASSUME NEW b \in DOMAIN v.array, Held(v, b)
      PROVE  b # a /\ b \in DOMAIN w.array \ {a} /\ Held(w, b)
    BY <1>4, <1>5
<1>6. ASSUME NEW b \in DOMAIN w.array \ {a}, Held(w, b)
      PROVE  HasBlock(w, b) /\ Base(w, b) \in DOMAIN v.heap
    <2>1. HasBlock(w, b)  BY <1>6 DEF Sound
    <2>2. Held(w, a) => Base(w, b) # p  BY <1>6 DEF Sound, Apart, p
    <2> QED BY <1>3, <2>1, <2>2 DEF HasBlock
<1>7. ASSUME NEW b \in DOMAIN v.array, Held(v, b)
      PROVE  HasBlock(v, b)
    <2>1. b \in DOMAIN w.array \ {a} /\ Held(w, b)  BY <1>5, <1>7
    <2>2. HasBlock(w, b) /\ Base(w, b) \in DOMAIN v.heap  BY <1>6, <2>1
    <2> QED BY <1>3, <1>4, <2>1, <2>2 DEF HasBlock
<1>8. ASSUME NEW b \in DOMAIN v.array, NEW d \in DOMAIN v.array, Held(v, b), Held(v, d)
      PROVE  Apart(v, b, d)
    <2>1. Apart(w, b, d)  BY <1>5, <1>8 DEF Sound
    <2> QED BY <1>4, <1>5, <1>8, <2>1 DEF Apart
<1>9. ASSUME NEW q \in DOMAIN v.heap
      PROVE  KeptIn(v, q) \/ LostIn(v, q)
    <2>1. q \in DOMAIN w.heap /\ v.heap[q] = w.heap[q]  BY <1>3
    <2>2. CASE LostIn(w, q)
        BY <2>1, <2>2 DEF LostIn
    <2>3. CASE KeptIn(w, q)
        <3>1. PICK b \in DOMAIN w.array : Held(w, b) /\ Base(w, b) = q  BY <2>3 DEF KeptIn
        <3>2. b # a  BY <1>3, <3>1 DEF p
        <3> QED BY <1>4, <3>1, <3>2 DEF KeptIn
    <2> QED BY <2>1, <2>2, <2>3 DEF Sound
<1>10. Sound(v)
    <2>1. DOMAIN v.array \subseteq Arrays \cup {Temp} /\ DOMAIN v.heap \subseteq Blocks
        BY <1>1, <1>3 DEF IsWorld
    <2> QED BY <1>3, <1>7, <1>8, <1>9, <2>1 DEF Sound, IsWorld
<1>11. ASSUME NEW b \in DOMAIN w.array \ {a} PROVE CellsOf(v, b) = CellsOf(w, b)
    BY <1>3, <1>6 DEF CellsOf, Held, Base
<1> QED BY <1>10, <1>11

(* The blocks stay, and so do the arrays that have them, whatever their names and layouts. *)
Took(v, a, w, b) == /\ b \in DOMAIN w.array /\ Held(w, b)
                    /\ Base(v, a) = Base(w, b)
                    /\ NumElements(v.array[a].layout) = NumElements(w.array[b].layout)
                    /\ "move" \notin Unchecked => v.array[a].alloc = w.array[b].alloc

(* What one array is in one world, another is in another. *)
Matches(w, a, v, b)   == ExtentsOf(v, b) = ExtentsOf(w, a) /\ CellsOf(v, b) = CellsOf(w, a)
Unaltered(w, v, S)    == \A b \in S : Matches(w, b, v, b)
Exchanged(w, a, b, v) == /\ Matches(w, b, v, a) /\ Matches(w, a, v, b)
                         /\ Unaltered(w, v, DOMAIN w.array \ {a, b})
Emptied(v, a)         == v.array[a].layout = NoLayout(Rank)

LEMMA HandedMatches ==
    ASSUME NEW w, NEW v, v.heap = w.heap, NEW a, NEW b, Base(v, b) = Base(w, a),
           ExtentsOf(v, b) = ExtentsOf(w, a),
           NumElements(v.array[b].layout) = NumElements(w.array[a].layout)
    PROVE  Matches(w, a, v, b)
BY DEF Matches, CellsOf, Base

LEMMA HandedWhole ==
    ASSUME NEW w, NEW v, v.heap = w.heap, NEW a, NEW b, v.array[b] = w.array[a]
    PROVE  Matches(w, a, v, b)
BY DEF Matches, CellsOf, ExtentsOf

LEMMA HandedSound ==
    ASSUME NEW w, Sound(w), NEW v, v = [array |-> v.array, heap |-> w.heap],
           v.array \in [DOMAIN v.array -> Handles], DOMAIN v.array \subseteq Arrays \cup {Temp},
           NEW from,
           \A a \in DOMAIN v.array : Held(v, a) => Took(v, a, w, from[a]),
           \A a, b \in DOMAIN v.array : Held(v, a) /\ Held(v, b) /\ a # b => from[a] # from[b],
           \A b \in DOMAIN w.array : Held(w, b) => \E a \in DOMAIN v.array : Held(v, a) /\ from[a] = b
    PROVE  Sound(v)
<1>1. IsWorld(w) /\ v.heap = w.heap  BY DEF Sound
<1>2. ASSUME NEW a \in DOMAIN v.array, Held(v, a) PROVE HasBlock(v, a)
    <2>1. Took(v, a, w, from[a])  BY <1>2
    <2>2. HasBlock(w, from[a])  BY <2>1 DEF Sound, Took
    <2> QED BY <1>1, <2>1, <2>2 DEF HasBlock, Took
<1>3. ASSUME NEW a \in DOMAIN v.array, NEW b \in DOMAIN v.array, Held(v, a), Held(v, b)
      PROVE  Apart(v, a, b)
    <2>1. Took(v, a, w, from[a]) /\ Took(v, b, w, from[b])  BY <1>3
    <2>2. Apart(w, from[a], from[b])  BY <2>1 DEF Sound, Took
    <2>3. a # b => from[a] # from[b]  BY <1>3
    <2> QED BY <2>1, <2>2, <2>3 DEF Took, Apart
<1>4. ASSUME NEW q \in DOMAIN v.heap PROVE KeptIn(v, q) \/ LostIn(v, q)
    <2>1. q \in DOMAIN w.heap /\ v.heap[q] = w.heap[q]  BY <1>1
    <2>2. CASE LostIn(w, q)
        BY <2>1, <2>2 DEF LostIn
    <2>3. CASE KeptIn(w, q)
        <3>1. PICK b \in DOMAIN w.array : Held(w, b) /\ Base(w, b) = q  BY <2>3 DEF KeptIn
        <3>2. PICK a \in DOMAIN v.array : Held(v, a) /\ from[a] = b  BY <3>1
        <3>3. Took(v, a, w, b)  BY <3>2
        <3> QED BY <3>1, <3>2, <3>3 DEF KeptIn, Took
    <2> QED BY <2>1, <2>2, <2>3 DEF Sound
<1> QED BY <1>1, <1>2, <1>3, <1>4 DEF Sound, IsWorld

(* An array is destroyed (~static_array). *)
LEMMA DestroySound ==
    ASSUME NEW w, Sound(w), NEW a \in DOMAIN w.array, NEW v, v = Destroy(w, a)
    PROVE  /\ Sound(v) /\ DOMAIN v.array = DOMAIN w.array \ {a}
           /\ \A b \in DOMAIN v.array : v.array[b] = w.array[b] /\ CellsOf(v, b) = CellsOf(w, b)
<1> DEFINE d == Deallocate(w, a)
<1>1. w = [array |-> w.array, heap |-> w.heap] /\ w.array \in [DOMAIN w.array -> Handles]
    BY DEF Sound, IsWorld
<1>2. d = [array |-> w.array, heap |-> d.heap]
    BY <1>1 DEF Deallocate
<1>3. v = [d EXCEPT !.array = Without(@, a)]  BY Zenon DEF Destroy
<1> HIDE DEF d
<1>4. v = [array |-> Without(w.array, a), heap |-> d.heap]  BY <1>2, <1>3
<1>5. /\ DOMAIN v.array = DOMAIN w.array \ {a} /\ v.array \in [DOMAIN v.array -> Handles]
      /\ \A b \in DOMAIN w.array \ {a} : v.array[b] = w.array[b]
    BY <1>1, <1>4 DEF Without, Restrict
<1>6. v = [array |-> v.array, heap |-> Deallocate(w, a).heap]  BY <1>4 DEF d
<1>7. Sound(v) /\ \A b \in DOMAIN w.array \ {a} : CellsOf(v, b) = CellsOf(w, b)
    BY <1>5, <1>6, ReleasedSound
<1> QED BY <1>5, <1>7

(* An array is emptied (array::clear). *)
LEMMA ClearSound ==
    ASSUME NEW w, Sound(w), NEW a \in DOMAIN w.array, NEW v, v = Clear(w, a)
    PROVE  /\ Sound(v) /\ DOMAIN v.array = DOMAIN w.array
           /\ v.array[a] = [w.array[a] EXCEPT !.layout = NoLayout(Rank)]
           /\ DOMAIN v.heap \subseteq DOMAIN w.heap
           /\ \A b \in DOMAIN w.array \ {a} : v.array[b] = w.array[b] /\ CellsOf(v, b) = CellsOf(w, b)
<1> DEFINE d == Deallocate(w, a)
           h == [w.array[a] EXCEPT !.layout = NoLayout(Rank)]
<1>1. w = [array |-> w.array, heap |-> w.heap] /\ w.array \in [DOMAIN w.array -> Handles]
    BY DEF Sound, IsWorld
<1>2. d = [array |-> w.array, heap |-> d.heap]
    BY <1>1 DEF Deallocate
<1>3. v = [d EXCEPT !.array[a].layout = NoLayout(Len(@))]  BY Zenon DEF Clear
<1> HIDE DEF d
<1>4. w.array[a] \in Handles /\ Len(w.array[a].layout) = Rank  BY WorldFacts
<1>5. v = [array |-> [w.array EXCEPT ![a] = h], heap |-> d.heap]
    BY <1>1, <1>2, <1>3, <1>4
<1>6. h \in Handles /\ NumElements(h.layout) = 0
    BY <1>4, NoLayoutFacts DEF Handles
<1> HIDE DEF h
<1>7. /\ DOMAIN v.array = DOMAIN w.array /\ v.array \in [DOMAIN v.array -> Handles]
      /\ v.array[a] = h /\ \A b \in DOMAIN w.array \ {a} : v.array[b] = w.array[b]
    BY <1>1, <1>5, <1>6
<1>8. ~ Held(v, a)  BY <1>6, <1>7 DEF Held
<1>9. v = [array |-> v.array, heap |-> Deallocate(w, a).heap]  BY <1>5 DEF d
<1>10. Sound(v) /\ \A b \in DOMAIN w.array \ {a} : CellsOf(v, b) = CellsOf(w, b)
    BY <1>7, <1>8, <1>9, ReleasedSound
<1>11. DOMAIN v.heap \subseteq DOMAIN w.heap
    <2>1. d.heap = w.heap \/ d.heap = Without(w.heap, Base(w, a))  BY <1>1 DEF d, Deallocate, Base
    <2> QED BY <1>5, <2>1 DEF Without, Restrict
<1> QED BY <1>7, <1>10, <1>11 DEF h

(* A block changes hands, to a new array (static_array's move constructors). *)
LEMMA MoveSound ==
    ASSUME NEW w, Sound(w), NEW a \in (Arrays \cup {Temp}) \ DOMAIN w.array,
           NEW b \in DOMAIN w.array, NEW al \in Allocators,
           "move" \notin Unchecked => al = w.array[b].alloc,
           NEW v, v = Move(w, a, b, al)
    PROVE  /\ Sound(v) /\ Added(w, a, v)
           /\ Matches(w, b, v, a) /\ Emptied(v, b) /\ Unaltered(w, v, DOMAIN w.array \ {b})
<1> DEFINE r == w.array[b]
           h == [r EXCEPT !.base = Null, !.layout = NoLayout(Rank)]
           g == [alloc |-> al, base |-> r.base, layout |-> LayoutOf(Extensions(r.layout))]
           from == [c \in DOMAIN w.array \cup {a} |-> IF c = a THEN b ELSE c]
<1>1. /\ w = [array |-> w.array, heap |-> w.heap] /\ w.array \in [DOMAIN w.array -> Handles]
      /\ DOMAIN w.array \subseteq Arrays \cup {Temp}
    BY DEF Sound, IsWorld
<1>2. /\ r \in Handles /\ Len(r.layout) = Rank /\ r.layout \in Layouts /\ r.base \in Blocks \cup {Null}
    BY WorldFacts
<1>3. h \in Handles /\ NumElements(h.layout) = 0 /\ h.layout = NoLayout(Rank)
    BY <1>2, NoLayoutFacts DEF Handles
<1>4. /\ g \in Handles /\ g.alloc = al /\ g.base = r.base
      /\ NumElements(g.layout) = NumElements(r.layout) /\ Extensions(g.layout) = Extensions(r.layout)
    BY <1>2, LayoutFacts DEF Handles
<1>5. v = [array |-> With([w.array EXCEPT ![b] = h], a, g), heap |-> w.heap]
    <2>1. [w.array EXCEPT ![b].base = Null, ![b].layout = NoLayout(Len(@))] = [w.array EXCEPT ![b] = h]
        BY <1>1, <1>2
    <2>2. v = [w EXCEPT !.array = With([@ EXCEPT ![b].base = Null, ![b].layout = NoLayout(Len(@))], a, g)]
        BY Zenon DEF Move
    <2> HIDE DEF h, g
    <2> QED BY <1>1, <2>1, <2>2
<1> HIDE DEF h, g
<1>6. /\ DOMAIN v.array = DOMAIN w.array \cup {a} /\ v.array \in [DOMAIN v.array -> Handles]
      /\ v.array[a] = g /\ v.array[b] = h
      /\ \A c \in DOMAIN w.array \ {b} : v.array[c] = w.array[c]
    BY <1>1, <1>3, <1>4, <1>5 DEF With
<1>7. ~ Held(v, b) /\ Held(v, a) = Held(w, b)
    BY <1>3, <1>4, <1>6 DEF Held
<1>8. \A c \in DOMAIN w.array \ {b} : Held(v, c) = Held(w, c)  BY <1>6 DEF Held
<1>9. from[a] = b /\ \A c \in DOMAIN w.array : from[c] = c  OBVIOUS
<1> HIDE DEF from
<1>10. ASSUME NEW c \in DOMAIN v.array, Held(v, c) PROVE Took(v, c, w, from[c])
    <2>1. CASE c = a
        BY <1>4, <1>6, <1>7, <1>9, <1>10, <2>1 DEF Took, Base
    <2>2. CASE c # a
        <3>1. c \in DOMAIN w.array \ {b}  BY <1>6, <1>7, <1>10, <2>2
        <3> QED BY <1>6, <1>8, <1>9, <1>10, <3>1 DEF Took, Base
    <2> QED BY <2>1, <2>2
<1>11. \A c, d \in DOMAIN v.array : Held(v, c) /\ Held(v, d) /\ c # d => from[c] # from[d]
    BY <1>6, <1>7, <1>9
<1>12. ASSUME NEW c \in DOMAIN w.array, Held(w, c)
       PROVE  \E d \in DOMAIN v.array : Held(v, d) /\ from[d] = c
    BY <1>6, <1>7, <1>8, <1>9, <1>12
<1>13. v = [array |-> v.array, heap |-> w.heap] /\ DOMAIN v.array \subseteq Arrays \cup {Temp}
    BY <1>1, <1>5, <1>6
<1>14. Sound(v)  BY <1>6, <1>10, <1>11, <1>12, <1>13, HandedSound
<1>15. v.heap = w.heap  BY <1>5
<1>16. Matches(w, b, v, a)
    <2>1. Base(v, a) = Base(w, b) /\ ExtentsOf(v, a) = ExtentsOf(w, b)
          /\ NumElements(v.array[a].layout) = NumElements(w.array[b].layout)
        BY <1>4, <1>6 DEF Base, ExtentsOf
    <2> QED BY <1>15, <2>1, HandedMatches
<1>17. Unaltered(w, v, DOMAIN w.array \ {b})  BY <1>6, <1>15, HandedWhole DEF Unaltered
<1> QED BY <1>3, <1>6, <1>14, <1>16, <1>17 DEF Added, Emptied

(* ... and to one that gives back what it had; to itself, it gives it back (array::operator=(array&&)). *)
LEMMA MoveAssignSound ==
    ASSUME NEW w, Sound(w), NEW a \in DOMAIN w.array, NEW b \in DOMAIN w.array,
           NEW v, v = MoveAssign(w, a, b)
    PROVE  /\ Sound(v) /\ DOMAIN v.array = DOMAIN w.array
           /\ a # b => Matches(w, b, v, a)
           /\ Emptied(v, b) /\ Unaltered(w, v, DOMAIN w.array \ {a, b})
<1> DEFINE u == Clear(w, a)
           r == u.array[b]
           h == [r EXCEPT !.base = Null, !.layout = NoLayout(Rank)]
           from == [c \in DOMAIN u.array |-> IF c = a THEN b ELSE c]
<1>1. /\ Sound(u) /\ DOMAIN u.array = DOMAIN w.array
      /\ u.array[a] = [w.array[a] EXCEPT !.layout = NoLayout(Rank)]
      /\ \A c \in DOMAIN w.array \ {a} : u.array[c] = w.array[c] /\ CellsOf(u, c) = CellsOf(w, c)
    BY ClearSound
<1>2. v = [u EXCEPT !.array = [@ EXCEPT ![b].base = Null, ![b].layout = NoLayout(Len(@)), ![a] = r]]
    BY Zenon DEF MoveAssign
<1>3. u.array[a].layout = NoLayout(Rank)
    <2>1. w.array[a] \in Handles  BY WorldFacts
    <2> QED BY <1>1, <2>1 DEF Handles
<1> HIDE DEF u
<1>4. /\ u = [array |-> u.array, heap |-> u.heap] /\ u.array \in [DOMAIN u.array -> Handles]
      /\ DOMAIN u.array \subseteq Arrays \cup {Temp}
    BY <1>1 DEF Sound, IsWorld
<1>5. r \in Handles /\ Len(r.layout) = Rank  BY <1>1, WorldFacts
<1>6. h \in Handles /\ NumElements(h.layout) = 0 /\ h.layout = NoLayout(Rank)
    BY <1>5, NoLayoutFacts DEF Handles
<1>7. ~ Held(u, a)  BY <1>3, NoLayoutFacts DEF Held
<1>8. v = [array |-> [[u.array EXCEPT ![b] = h] EXCEPT ![a] = r], heap |-> u.heap]
    <2>1. [u.array EXCEPT ![b].base = Null, ![b].layout = NoLayout(Len(@))] = [u.array EXCEPT ![b] = h]
        BY <1>1, <1>4, <1>5
    <2> HIDE DEF h, r
    <2> QED BY <1>2, <1>4, <2>1
<1> HIDE DEF h
<1>9. /\ DOMAIN v.array = DOMAIN u.array /\ v.array \in [DOMAIN v.array -> Handles]
      /\ v.array[a] = r /\ (b # a => v.array[b] = h)
      /\ \A c \in DOMAIN u.array \ {a, b} : v.array[c] = u.array[c]
    BY <1>1, <1>4, <1>5, <1>6, <1>8
<1>10. Held(v, a) = Held(u, b) /\ (b # a => ~ Held(v, b))  BY <1>6, <1>9 DEF Held
<1>11. \A c \in DOMAIN u.array \ {a, b} : Held(v, c) = Held(u, c)  BY <1>9 DEF Held
<1>12. a # b => ~ Held(u, a)  BY <1>7
<1>13. from[a] = b /\ \A c \in DOMAIN u.array \ {a} : from[c] = c  BY <1>1
<1> HIDE DEF from
<1>14. ASSUME NEW c \in DOMAIN v.array, Held(v, c) PROVE Took(v, c, u, from[c])
    <2>1. CASE c = a
        BY <1>1, <1>9, <1>10, <1>13, <1>14, <2>1 DEF Took, Base
    <2>2. CASE c # a
        <3>1. c \in DOMAIN u.array \ {a, b}  BY <1>9, <1>10, <1>14, <2>2
        <3> QED BY <1>9, <1>11, <1>13, <1>14, <3>1 DEF Took, Base
    <2> QED BY <2>1, <2>2
<1>15. \A c, d \in DOMAIN v.array : Held(v, c) /\ Held(v, d) /\ c # d => from[c] # from[d]
    BY <1>9, <1>10, <1>13
<1>16. ASSUME NEW c \in DOMAIN u.array, Held(u, c)
       PROVE  \E d \in DOMAIN v.array : Held(v, d) /\ from[d] = c
    <2>1. c # a  BY <1>7, <1>16
    <2> QED BY <1>1, <1>9, <1>10, <1>11, <1>13, <1>16, <2>1
<1>17. v = [array |-> v.array, heap |-> u.heap] /\ DOMAIN v.array \subseteq Arrays \cup {Temp}
    BY <1>4, <1>8, <1>9
<1>18. Sound(v)  BY <1>1, <1>9, <1>14, <1>15, <1>16, <1>17, HandedSound
<1>19. v.heap = u.heap  BY <1>8
<1>20. \A c \in DOMAIN w.array \ {a} : Matches(w, c, u, c)  BY <1>1 DEF Matches, ExtentsOf
<1>21. a # b => Matches(w, b, v, a)
    <2>1. Matches(u, b, v, a)  BY <1>9, <1>19, HandedWhole
    <2> QED BY <1>20, <2>1 DEF Matches
<1>22. Unaltered(w, v, DOMAIN w.array \ {a, b})
    <2>1. \A c \in DOMAIN w.array \ {a, b} : Matches(u, c, v, c)  BY <1>1, <1>9, <1>19, HandedWhole
    <2> QED BY <1>20, <2>1 DEF Matches, Unaltered
<1>23. Emptied(v, b)
    <2>1. CASE a = b
        BY <1>3, <1>9, <2>1 DEF Emptied
    <2>2. CASE a # b
        BY <1>6, <1>9, <2>2 DEF Emptied
    <2> QED BY <2>1, <2>2
<1> QED BY <1>1, <1>9, <1>18, <1>21, <1>22, <1>23

(* Two arrays exchange all they have (array::swap). *)
LEMMA SwapSound ==
    ASSUME NEW w, Sound(w), NEW a \in DOMAIN w.array, NEW b \in DOMAIN w.array,
           NEW v, v = Swap(w, a, b)
    PROVE  /\ Sound(v) /\ DOMAIN v.array = DOMAIN w.array
           /\ v.array[a] = w.array[b] /\ Exchanged(w, a, b, v)
<1> DEFINE from == [c \in DOMAIN w.array |-> IF c = a THEN b ELSE IF c = b THEN a ELSE c]
<1>1. /\ w = [array |-> w.array, heap |-> w.heap] /\ w.array \in [DOMAIN w.array -> Handles]
      /\ DOMAIN w.array \subseteq Arrays \cup {Temp}
    BY DEF Sound, IsWorld
<1>2. v = [array |-> [[w.array EXCEPT ![a] = w.array[b]] EXCEPT ![b] = w.array[a]], heap |-> w.heap]
    BY <1>1 DEF Swap
<1>3. /\ DOMAIN v.array = DOMAIN w.array /\ v.array \in [DOMAIN v.array -> Handles]
      /\ \A c \in DOMAIN w.array : v.array[c] = w.array[from[c]]
      /\ \A c \in DOMAIN w.array : from[c] \in DOMAIN w.array /\ from[from[c]] = c
    BY <1>1, <1>2
<1>4. /\ v.array[a] = w.array[b] /\ v.array[b] = w.array[a]
      /\ \A c \in DOMAIN w.array \ {a, b} : v.array[c] = w.array[c]
    BY <1>1, <1>2
<1> HIDE DEF from
<1>5. \A c \in DOMAIN w.array : Held(v, c) = Held(w, from[c])  BY <1>3 DEF Held
<1>6. \A c \in DOMAIN v.array : Held(v, c) => Took(v, c, w, from[c])
    BY <1>3, <1>5 DEF Took, Base
<1>7. \A c, d \in DOMAIN v.array : Held(v, c) /\ Held(v, d) /\ c # d => from[c] # from[d]
    BY <1>3
<1>8. \A c \in DOMAIN w.array : Held(w, c) => \E d \in DOMAIN v.array : Held(v, d) /\ from[d] = c
    BY <1>3, <1>5
<1>9. v = [array |-> v.array, heap |-> w.heap] /\ DOMAIN v.array \subseteq Arrays \cup {Temp}
    BY <1>1, <1>2, <1>3
<1>10. Sound(v)  BY <1>3, <1>6, <1>7, <1>8, <1>9, HandedSound
<1>11. v.heap = w.heap  BY <1>2
<1>12. Matches(w, b, v, a) /\ Matches(w, a, v, b)  BY <1>4, <1>11, HandedWhole
<1>13. Unaltered(w, v, DOMAIN w.array \ {a, b})  BY <1>4, <1>11, HandedWhole DEF Unaltered
<1> QED BY <1>3, <1>4, <1>10, <1>12, <1>13 DEF Exchanged

(* Elements are written by their indices (operator[], elements(), std::copy_n of rows). *)
WrittenTo(w, a, f, v) ==
    \A ix \in Box(ExtentsOf(w, a)) :
        Element(v, a, ix) = IF ix \in DOMAIN f THEN f[ix] ELSE Element(w, a, ix)

LEMMA WrittenSound ==
    ASSUME NEW w, Sound(w), NEW a \in DOMAIN w.array,
           NEW f, \A ix \in DOMAIN f : f[ix] \in Elements, DOMAIN f # {} => Held(w, a),
           NEW v, v = Written(w, a, f)
    PROVE  /\ Sound(v) /\ v.array = w.array
           /\ \A b \in DOMAIN w.array : b # a => CellsOf(v, b) = CellsOf(w, b)
           /\ DOMAIN f \subseteq Box(ExtentsOf(w, a)) => WrittenTo(w, a, f, v)
<1>1. CASE DOMAIN f = {}
    <2>1. v = w  BY <1>1 DEF Written
    <2>2. WrittenTo(w, a, f, v)  BY <1>1, <2>1 DEF WrittenTo
    <2> QED BY <2>1, <2>2
<1>2. CASE DOMAIN f # {}
    <2> DEFINE r == w.array[a]
               p == Base(w, a)
               at(k) == {ix \in DOMAIN f : Position(r.layout, ix) + 1 = k}
               old == w.heap[p].cells
               c == [k \in DOMAIN old |-> IF at(k) = {} THEN old[k] ELSE f[CHOOSE ix \in at(k) : TRUE]]
    <2>1. Held(w, a)  BY <1>2
    <2>2. v = [w EXCEPT !.heap[p].cells = c]
        <3>1. HasBlock(w, a) /\ IsWorld(w)  BY <2>1 DEF Sound
        <3>2. w = [array |-> w.array, heap |-> w.heap] /\ p \in DOMAIN w.heap /\ w.heap[p] \in Chunks
            BY <3>1 DEF HasBlock, IsWorld
        <3>3. v = [w EXCEPT !.heap[p].cells =
                      [k \in DOMAIN @ |-> IF at(k) = {} THEN @[k] ELSE f[CHOOSE ix \in at(k) : TRUE]]]
            BY <1>2 DEF Written, Base
        <3> HIDE DEF at
        <3> QED BY <3>2, <3>3 DEF Chunks
    <2>0. CellsOf(w, a) = old  BY <2>1 DEF CellsOf, Held, Base
    <2>3. old \in Seq(Elements) /\ Len(old) = NumElements(r.layout)
        BY <2>0, WorldFacts
    <2>4. \A k : at(k) # {} => f[CHOOSE ix \in at(k) : TRUE] \in Elements
        <3> SUFFICES ASSUME NEW k, at(k) # {} PROVE f[CHOOSE ix \in at(k) : TRUE] \in Elements
            OBVIOUS
        <3>1. (CHOOSE ix \in at(k) : TRUE) \in at(k)  OBVIOUS
        <3> QED BY <3>1
    <2> HIDE DEF at, old
    <2>5. c \in Seq(Elements) /\ Len(c) = NumElements(r.layout)
        <3>1. DOMAIN old = 1 .. Len(old) /\ Len(old) \in Nat /\ \A k \in 1 .. Len(old) : old[k] \in Elements
            BY <2>3
        <3>2. c \in [1 .. Len(old) -> Elements]  BY <2>4, <3>1
        <3> HIDE DEF c
        <3> QED BY <2>3, <3>1, <3>2
    <2>6. \A k \in 1 .. NumElements(r.layout) :
              c[k] = IF at(k) = {} THEN old[k] ELSE f[CHOOSE ix \in at(k) : TRUE]
        BY <2>3
    <2> HIDE DEF c
    <2>7. /\ Sound(v) /\ v.array = w.array /\ CellsOf(v, a) = c
          /\ \A b \in DOMAIN w.array : b # a => CellsOf(v, b) = CellsOf(w, b)
        BY <2>1, <2>2, <2>5, RewrittenSound
    <2>8. ASSUME DOMAIN f \subseteq Box(ExtentsOf(w, a)), NEW ix \in Box(ExtentsOf(w, a))
          PROVE  Element(v, a, ix) = IF ix \in DOMAIN f THEN f[ix] ELSE Element(w, a, ix)
        <3> DEFINE L == r.layout
                   q == Position(L, ix) + 1
        <3>1. L \in ArrayLayouts /\ NumElements(L) \in Nat  BY WorldFacts, LayoutFacts
        <3>2. ExtentsOf(w, a) = Extensions(L)  BY DEF ExtentsOf
        <3>3. Element(v, a, ix) = c[q] /\ Element(w, a, ix) = old[q]
            BY <2>0, <2>7 DEF Element
        <3>4. at(q) = {jx \in DOMAIN f : Position(L, jx) + 1 = q}  BY DEF at
        <3>5. ix \in Box(Extensions(L)) /\ DOMAIN f \subseteq Box(Extensions(L))  BY <2>8, <3>2
        <3> HIDE DEF L
        <3>6. \A jx \in Box(Extensions(L)) : Position(L, jx) \in 0 .. NumElements(L) - 1
            BY <3>1, DenseInBlock
        <3>7. q \in 1 .. NumElements(L)  BY <3>1, <3>5, <3>6
        <3>8. \A jx \in at(q) : jx = ix
            <4> SUFFICES ASSUME NEW jx \in at(q) PROVE jx = ix
                OBVIOUS
            <4>1. jx \in Box(Extensions(L)) /\ Position(L, jx) + 1 = Position(L, ix) + 1
                BY <3>4, <3>5
            <4>2. Position(L, jx) \in Int /\ Position(L, ix) \in Int  BY <3>5, <3>6, <4>1
            <4>3. Position(L, jx) = Position(L, ix)  BY <4>1, <4>2
            <4> QED BY <3>1, <3>5, <4>1, <4>3, DenseApart
        <3>9. ix \in DOMAIN f => ix \in at(q)  BY <3>4
        <3>10. at(q) # {} => ix \in at(q) /\ ix \in DOMAIN f /\ (CHOOSE jx \in at(q) : TRUE) = ix
            BY <3>4, <3>8
        <3>11. c[q] = IF at(q) = {} THEN old[q] ELSE f[CHOOSE jx \in at(q) : TRUE]
            BY <2>6, <3>7 DEF L
        <3> HIDE DEF q
        <3> QED BY <3>3, <3>9, <3>10, <3>11
    <2> QED BY <2>7, <2>8 DEF WrittenTo
<1> QED BY <1>1, <1>2

(* The first k elements are assigned (adl_copy_n, as far as it came). *)
RefilledTo(w, a, cells, k, v) ==
    \A i \in 1 .. NumElements(w.array[a].layout) :
        CellsOf(v, a)[i] = IF i <= k THEN cells[i] ELSE CellsOf(w, a)[i]

LEMMA OverwrittenSound ==
    ASSUME NEW w, Sound(w), NEW a \in DOMAIN w.array,
           NEW k \in Nat, k <= NumElements(w.array[a].layout),
           NEW cells, \A i \in 1 .. k : cells[i] \in Elements,
           NEW v, v = Overwritten(w, a, cells, k)
    PROVE  /\ Sound(v) /\ v.array = w.array
           /\ \A b \in DOMAIN w.array : b # a => CellsOf(v, b) = CellsOf(w, b)
           /\ RefilledTo(w, a, cells, k, v)
<1>1. CASE k = 0
    BY <1>1 DEF Overwritten, RefilledTo
<1>2. CASE k # 0
    <2> DEFINE p == Base(w, a)
               old == w.heap[p].cells
               c == [i \in DOMAIN old |-> IF i <= k THEN cells[i] ELSE old[i]]
    <2>1. Held(w, a)  BY <1>2, WorldFacts DEF Held
    <2>2. v = [w EXCEPT !.heap[p].cells = c]
        <3>1. HasBlock(w, a) /\ IsWorld(w)  BY <2>1 DEF Sound
        <3>2. w = [array |-> w.array, heap |-> w.heap] /\ p \in DOMAIN w.heap /\ w.heap[p] \in Chunks
            BY <3>1 DEF HasBlock, IsWorld
        <3> QED BY <1>2, <3>2 DEF Chunks, Overwritten, Base
    <2>0. CellsOf(w, a) = old  BY <2>1 DEF CellsOf, Held, Base
    <2>3. old \in Seq(Elements) /\ Len(old) = NumElements(w.array[a].layout)
        BY <2>0, WorldFacts
    <2> HIDE DEF old
    <2>4. c \in Seq(Elements) /\ Len(c) = NumElements(w.array[a].layout)
        <3>1. DOMAIN old = 1 .. Len(old) /\ Len(old) \in Nat /\ \A i \in 1 .. Len(old) : old[i] \in Elements
            BY <2>3
        <3>2. c \in [1 .. Len(old) -> Elements]  BY <3>1
        <3> HIDE DEF c
        <3> QED BY <2>3, <3>1, <3>2
    <2>5. \A i \in 1 .. NumElements(w.array[a].layout) : c[i] = IF i <= k THEN cells[i] ELSE old[i]
        BY <2>3
    <2> HIDE DEF c
    <2>6. /\ Sound(v) /\ v.array = w.array /\ CellsOf(v, a) = c
          /\ \A b \in DOMAIN w.array : b # a => CellsOf(v, b) = CellsOf(w, b)
        BY <2>1, <2>2, <2>4, RewrittenSound
    <2>7. RefilledTo(w, a, cells, k, v)  BY <2>0, <2>5, <2>6 DEF RefilledTo
    <2> QED BY <2>6, <2>7
<1> QED BY <1>1, <1>2

(* Arrays of equal extensions have as many elements. *)
LEMMA SameExtents ==
    ASSUME NEW w, Sound(w), NEW a \in DOMAIN w.array, NEW b \in DOMAIN w.array,
           ExtentsOf(w, a) = ExtentsOf(w, b)
    PROVE  NumElements(w.array[a].layout) = NumElements(w.array[b].layout)
<1>1. w.array[a].layout \in Seq(ArrayDims) /\ w.array[b].layout \in Seq(ArrayDims)
    BY WorldFacts, LayoutFacts
<1> QED BY <1>1, ExtensionsFacts DEF NumElements, ExtentsOf

(* Elements are assigned where extensions agree (array::operator=). *)
LEMMA RefillSound ==
    ASSUME NEW w, Sound(w), NEW a \in DOMAIN w.array, NEW b \in DOMAIN w.array,
           ExtentsOf(w, a) = ExtentsOf(w, b), NEW k \in Nat, k <= NumElements(w.array[a].layout),
           NEW v, v = Overwritten(w, a, CellsOf(w, b), k)
    PROVE  /\ Sound(v) /\ v.array = w.array
           /\ \A d \in DOMAIN w.array : d # a => CellsOf(v, d) = CellsOf(w, d)
           /\ RefilledTo(w, a, CellsOf(w, b), k, v)
<1>1. NumElements(w.array[a].layout) = NumElements(w.array[b].layout)  BY SameExtents
<1>2. /\ CellsOf(w, b) \in Seq(Elements) /\ Len(CellsOf(w, b)) = NumElements(w.array[a].layout)
      /\ NumElements(w.array[a].layout) \in Nat
    BY <1>1, WorldFacts
<1>3. \A i \in 1 .. k : CellsOf(w, b)[i] \in Elements  BY <1>2
<1> QED BY <1>3, OverwrittenSound

(* A copy has as many elements, in a block of its own (static_array's copy constructors). *)
LEMMA CopySound ==
    ASSUME NEW w, Sound(w), NEW a \in (Arrays \cup {Temp}) \ DOMAIN w.array,
           NEW b \in DOMAIN w.array, NEW al \in Allocators,
           NEW p \in Places(w, NumElements(w.array[b].layout)),
           NEW v, v = Copy(w, a, b, al, p)
    PROVE  /\ Sound(v) /\ Added(w, a, v) /\ Preserved(w, v)
           /\ Matches(w, b, v, a)
<1> DEFINE L == LayoutOf(ExtentsOf(w, b))
           c == CellsOf(w, b)
<1>1. /\ L \in Layouts /\ NumElements(L) = NumElements(w.array[b].layout)
      /\ Extensions(L) = ExtentsOf(w, b)
    BY WorldFacts, LayoutFacts DEF ExtentsOf
<1>6. NumElements(L) = 0 => c = <<>>  BY <1>1 DEF CellsOf
<1>7. CellsOf(w, b) = c  OBVIOUS
<1>2. v = Construct(w, a, al, p, L, c)  BY DEF Copy
<1>3. NumElements(L) # 0 => c \in Seq(Elements) /\ Len(c) = NumElements(L)  BY <1>1, WorldFacts
<1>4. p \in Places(w, NumElements(L))  BY <1>1
<1> HIDE DEF L, c
<1>5. Constructible(w, a, al, p, L, c)  BY <1>1, <1>3, <1>4 DEF Constructible
<1>8. Sound(v) /\ Added(w, a, v) /\ Preserved(w, v)  BY ONLY <1>2, <1>5, ConstructSound, Zenon
<1>9. v.array[a] = [alloc |-> al, base |-> p, layout |-> L]  BY ONLY <1>2, <1>5, ConstructSound
<1>10. NumElements(L) # 0 => CellsOf(v, a) = c
    <2>1. Holds(v, a, L, c)  BY ONLY <1>2, <1>5, ConstructSound, Zenon
    <2> QED BY <2>1 DEF Holds
<1>11. v.array[a].layout = L  BY <1>9
<1>12. NumElements(L) = 0 => CellsOf(v, a) = <<>>  BY <1>11 DEF CellsOf
<1>13. ExtentsOf(v, a) = ExtentsOf(w, b)  BY <1>1, <1>11 DEF ExtentsOf
<1>14. CellsOf(v, a) = CellsOf(w, b)  BY <1>6, <1>7, <1>10, <1>12
<1> QED BY <1>8, <1>13, <1>14 DEF Matches

(* What ranges of rows are made of. *)
LEMMA RowExtentFacts ==
    ASSUME NEW x \in RowExtents
    PROVE  x \in Intervals
<1>1. PICK xs \in Shapes : Len(xs) = 2 /\ x = xs[2]  BY DEF RowExtents
<1>2. xs \in Seq(Intervals)  BY ShapeFacts
<1> QED BY <1>1, <1>2

LEMMA RowsFacts ==
    ASSUME NEW rows \in ListsOfRows
    PROVE  \E n \in Nat \ {0} : rows \in [1 .. n -> Elements]
<1>1. PICK n \in 1 .. MaxRows : rows \in [1 .. n -> Elements]  BY DEF ListsOfRows
<1>2. n \in Nat \ {0}  BY MaxRowsAssumption
<1> QED BY <1>1, <1>2

(* A new array of one value throughout. *)
LEMMA FilledFacts ==
    ASSUME NEW L \in Layouts, NEW e \in Elements
    PROVE  Filled(L, e) \in Seq(Elements) /\ Len(Filled(L, e)) = NumElements(L)
<1>1. NumElements(L) \in Nat  BY LayoutFacts
<1> QED BY <1>1 DEF Filled

LEMMA FilledSound ==
    ASSUME NEW w, Sound(w), NEW a \in (Arrays \cup {Temp}) \ DOMAIN w.array,
           NEW al \in Allocators, NEW L \in Layouts, NEW p \in Places(w, NumElements(L)),
           NEW e \in Elements,
           NEW v, v = Construct(w, a, al, p, L, Filled(L, e))
    PROVE  /\ Sound(v) /\ Added(w, a, v) /\ Preserved(w, v)
           /\ v.array[a] = [alloc |-> al, base |-> p, layout |-> L]
<1> DEFINE c == Filled(L, e)
<1>1. c \in Seq(Elements) /\ Len(c) = NumElements(L)  BY FilledFacts
<1> HIDE DEF c
<1>2. Constructible(w, a, al, p, L, c)  BY <1>1 DEF Constructible
<1>3. v = Construct(w, a, al, p, L, c)  BY DEF c
<1>4. Sound(v) /\ Added(w, a, v) /\ Preserved(w, v)
    BY ONLY <1>2, <1>3, ConstructSound, Zenon
<1>5. v.array[a] = [alloc |-> al, base |-> p, layout |-> L]
    BY ONLY <1>2, <1>3, ConstructSound
<1> QED BY <1>4, <1>5

(* The elements of an array, through its layout or through it turned. *)
LEMMA ViewFacts ==
    ASSUME NEW w, Sound(w), NEW b \in DOMAIN w.array, NEW turned \in BOOLEAN,
           NEW L, L = ViewLayout(w, b, turned)
    PROVE  /\ LayoutOf(Extensions(L)) \in Layouts
           /\ NumElements(LayoutOf(Extensions(L))) = NumElements(w.array[b].layout)
           /\ \A ix \in Box(Extensions(L)) : CellsOf(w, b)[Position(L, ix) + 1] \in Elements
           /\ Box(Extensions(L)) # {} => NumElements(w.array[b].layout) # 0
<1> DEFINE M == w.array[b].layout
<1>1. /\ M \in Seq(ArrayDims) /\ M \in ArrayLayouts /\ Len(M) = Rank /\ NumElements(M) \in Nat
      /\ CellsOf(w, b) \in Seq(Elements) /\ Len(CellsOf(w, b)) = NumElements(M)
      /\ Len(M) > 0
    BY WorldFacts, LayoutFacts, ShapeFacts
<1>2. L = M \/ L = Rotate(M, 1)  BY DEF ViewLayout
<1> HIDE DEF M
<1>3. L \in Seq(ArrayDims) /\ Len(L) = Rank /\ NumElements(L) = NumElements(M)
    <2>1. CASE L = M
        BY <1>1, <2>1
    <2>2. CASE L = Rotate(M, 1)
        BY <1>1, <2>2, RotateOne, RotateNumElements
    <2> QED BY <1>2, <2>1, <2>2
<1>4. ASSUME NEW ix \in Box(Extensions(L))
      PROVE  Position(L, ix) \in 0 .. NumElements(M) - 1
    <2>1. CASE L = M
        BY <1>1, <2>1, DenseInBlock
    <2>2. CASE L = Rotate(M, 1)
        BY <1>1, <2>2, TurnedInBlock
    <2> QED BY <1>2, <2>1, <2>2
<1>5. \A ix \in Box(Extensions(L)) : CellsOf(w, b)[Position(L, ix) + 1] \in Elements
    <2> SUFFICES ASSUME NEW ix \in Box(Extensions(L)) PROVE CellsOf(w, b)[Position(L, ix) + 1] \in Elements
        OBVIOUS
    <2>1. Position(L, ix) + 1 \in 1 .. Len(CellsOf(w, b))  BY <1>1, <1>4
    <2> QED BY <1>1, <2>1
<1>6. Box(Extensions(L)) # {} => NumElements(L) # 0
    <2> SUFFICES ASSUME NEW ix \in Box(Extensions(L)) PROVE NumElements(L) # 0
        OBVIOUS
    <2> QED BY <1>3, BoxOfLayout
<1>7. LayoutOf(Extensions(L)) \in Layouts /\ NumElements(LayoutOf(Extensions(L))) = NumElements(M)
    <2>1. Extensions(L) \in Seq(Intervals) /\ Len(Extensions(L)) = Rank  BY <1>3, ExtensionsFacts
    <2>2. LayoutOf(Extensions(L)) \in Layouts  BY <2>1, NewTold DEF Layouts
    <2> QED BY <1>3, <2>2, CopyHasRoom
<1> QED BY <1>3, <1>5, <1>6, <1>7 DEF M

(* A view is copied (static_array(basic_array const&)): room for all of it, then its elements. *)
LEMMA CopyViewSound ==
    ASSUME Default \in Elements,
           NEW w, Sound(w), NEW a \in (Arrays \cup {Temp}) \ DOMAIN w.array,
           NEW b \in DOMAIN w.array, NEW turned \in BOOLEAN, NEW al \in Allocators,
           NEW p \in Places(w, NumElements(w.array[b].layout)),
           NEW v, v = CopyView(w, a, b, turned, al, p)
    PROVE  /\ Sound(v) /\ Added(w, a, v)
           /\ \A d \in DOMAIN w.array : v.array[d] = w.array[d]
<1> DEFINE L == ViewLayout(w, b, turned)
           new == LayoutOf(Extensions(L))
           made == Construct(w, a, al, p, new, Filled(new, Default))
           f == ViewOf(w, b, L)
<1>1. /\ new \in Layouts /\ NumElements(new) = NumElements(w.array[b].layout)
      /\ \A ix \in Box(Extensions(L)) : CellsOf(w, b)[Position(L, ix) + 1] \in Elements
      /\ Box(Extensions(L)) # {} => NumElements(w.array[b].layout) # 0
    <2> HIDE DEF L
    <2> QED BY ViewFacts DEF L
<1>2. v = Written(made, a, f)  BY Zenon DEF CopyView
<1>3. /\ \A ix \in DOMAIN f : f[ix] \in Elements
      /\ DOMAIN f # {} => NumElements(new) # 0
    <2>1. f = [ix \in Box(Extensions(L)) |-> CellsOf(w, b)[Position(L, ix) + 1]]  BY Zenon DEF ViewOf
    <2> HIDE DEF L, new, f
    <2> QED BY <1>1, <2>1
<1> HIDE DEF new, f, L
<1>4. /\ Sound(made) /\ Added(w, a, made) /\ Preserved(w, made)
      /\ made.array[a] = [alloc |-> al, base |-> p, layout |-> new]
    <2>1. p \in Places(w, NumElements(new))  BY <1>1
    <2> HIDE DEF made
    <2> QED BY <1>1, <2>1, FilledSound DEF made
<1> HIDE DEF made
<1>5. a \in DOMAIN made.array  BY <1>4 DEF Added
<1>6. DOMAIN f # {} => Held(made, a)  BY <1>3, <1>4 DEF Held
<1>7. Sound(v) /\ v.array = made.array
    BY ONLY <1>2, <1>3, <1>4, <1>5, <1>6, WrittenSound
<1> QED BY <1>4, <1>7 DEF Added, Preserved

(* Rows of equal elements are copied into a new matrix (static_array(initializer_list)). *)
CellsOfRows(L, x, rows) ==
    [k \in 1 .. NumElements(L) |-> rows[((k - 1) \div Count(x)) + 1]]

LEMMA RangeConstructible ==
    ASSUME NEW w, Sound(w), NEW a \in (Arrays \cup {Temp}) \ DOMAIN w.array,
           Standard \in Allocators, Rank = 2, NEW x \in Intervals,
           NEW n \in Nat \ {0}, NEW rows \in [1 .. n -> Elements],
           NEW p \in Places(w, Len(rows) * Count(x)),
           NEW v, v = ConstructRange(w, a, x, rows, p),
           NEW L, L = LayoutOf(<<<<0, n>>, x>>)
    PROVE  /\ Constructible(w, a, Standard, p, L, CellsOfRows(L, x, rows))
           /\ v = Construct(w, a, Standard, p, L, CellsOfRows(L, x, rows))
           /\ NumElements(L) \in Nat
<1> DEFINE y == <<0, n>>
           new == LayoutOf(<<y, x>>)
           c == CellsOfRows(new, x, rows)
<1>1. Len(rows) = n  OBVIOUS
<1>2. y \in Intervals /\ Count(y) = n /\ Count(x) \in Nat  BY DEF Intervals, Count
<1>3. v = Construct(w, a, Standard, p, new, c)
    BY <1>1, Zenon DEF ConstructRange, CellsOfRows
<1>0. L = new  OBVIOUS
<1> HIDE DEF y
<1>4. new \in Layouts /\ NumElements(new) = n * Count(x)
    <2>1. <<y, x>> \in Seq(Intervals) /\ Len(<<y, x>>) = 2  BY <1>2
    <2>2. new \in ArrayLayouts /\ Len(new) = 2 /\ Told(new)  BY <2>1, NewTold
    <2>3. NumElements(new) = n * Count(x)  BY <1>2, MatrixElements
    <2> HIDE DEF new
    <2> QED BY <2>2, <2>3 DEF Layouts
<1> HIDE DEF new
<1>5. ASSUME NEW k \in 1 .. NumElements(new) PROVE ((k - 1) \div Count(x)) + 1 \in 1 .. n
    <2> DEFINE m == Count(x)
               q == (k - 1) \div m
    <2>1. m \in Nat /\ k \in Int /\ 1 <= k /\ k <= n * m  BY <1>2, <1>4
    <2>2. m > 0
        <3>1. m = 0 => n * m = 0  OBVIOUS
        <3> QED BY <2>1, <3>1
    <2> HIDE DEF m
    <2>3. q \in Int /\ q >= 0 /\ q * m <= k - 1  BY <2>1, <2>2
    <2> HIDE DEF q
    <2>4. q < n
        <3> SUFFICES ASSUME q >= n PROVE FALSE
            BY <2>3
        <3>1. q * m >= n * m  BY <2>1, <2>2, <2>3
        <3>2. q * m \in Int /\ n * m \in Int  BY <2>1, <2>3
        <3> QED BY <2>1, <2>3, <3>1, <3>2
    <2>5. q + 1 \in 1 .. n  BY <2>3, <2>4
    <2> QED BY <2>5 DEF q, m
<1>6. c \in Seq(Elements) /\ Len(c) = NumElements(new)
    <2>1. \A k \in 1 .. NumElements(new) : rows[((k - 1) \div Count(x)) + 1] \in Elements  BY <1>5
    <2>2. NumElements(new) \in Nat  BY <1>4, LayoutFacts
    <2>3. c \in [1 .. NumElements(new) -> Elements]  BY <2>1 DEF CellsOfRows
    <2> HIDE DEF c
    <2> QED BY <2>2, <2>3
<1> HIDE DEF c
<1>7. p \in Places(w, NumElements(new))  BY <1>1, <1>4
<1>8. Constructible(w, a, Standard, p, new, c)  BY <1>4, <1>6, <1>7 DEF Constructible
<1>9. NumElements(new) \in Nat  BY <1>4, LayoutFacts
<1> QED BY ONLY <1>0, <1>3, <1>8, <1>9, Zenon DEF c

LEMMA ConstructRangeSound ==
    ASSUME NEW w, Sound(w), NEW a \in (Arrays \cup {Temp}) \ DOMAIN w.array,
           Standard \in Allocators, Rank = 2, NEW x \in Intervals,
           NEW n \in Nat \ {0}, NEW rows \in [1 .. n -> Elements],
           NEW p \in Places(w, Len(rows) * Count(x)),
           NEW v, v = ConstructRange(w, a, x, rows, p)
    PROVE  Sound(v) /\ Added(w, a, v)
<1> DEFINE L == LayoutOf(<<<<0, n>>, x>>)
           c == CellsOfRows(L, x, rows)
<1>1. Constructible(w, a, Standard, p, L, c) /\ v = Construct(w, a, Standard, p, L, c)
    <2> HIDE DEF L
    <2> QED BY RangeConstructible DEF L
<1> HIDE DEF L, c
<1> QED BY ONLY <1>1, ConstructSound, Zenon

(***************************************************************************)
(* Whole operations: the temporary is gone when they return.               *)
(***************************************************************************)
Settled(w) == Sound(w) /\ DOMAIN w.array \subseteq Arrays

(* From a temporary, which is destroyed (array::operator=). *)
LEMMA ReplaceSettles ==
    ASSUME NEW u, Settled(u), NEW w, Sound(w), Added(u, Temp, w), NEW a \in DOMAIN u.array,
           NEW v, v = Replace(w, a)
    PROVE  Settled(v)
<1> DEFINE m == MoveAssign(w, a, Temp)
<1>1. a \in DOMAIN w.array /\ Temp \in DOMAIN w.array  BY DEF Added
<1>2. Sound(m) /\ DOMAIN m.array = DOMAIN w.array  BY <1>1, MoveAssignSound
<1>3. v = Destroy(m, Temp)  BY DEF Replace
<1> HIDE DEF m
<1>4. Temp \in DOMAIN m.array  BY <1>1, <1>2
<1>5. Sound(v) /\ DOMAIN v.array = DOMAIN m.array \ {Temp}
    BY ONLY <1>2, <1>3, <1>4, DestroySound
<1> QED BY <1>2, <1>5 DEF Settled, Added

(* Assignment, where extensions agree and where they do not (array::operator=(array const&)). *)
LEMMA AssignSettles ==
    ASSUME NEW w, Settled(w), NEW a \in DOMAIN w.array, NEW b \in DOMAIN w.array,
           NEW p \in Places(w, NumElements(w.array[b].layout)),
           NEW v, v = Assign(w, a, b, p)
    PROVE  Settled(v)
<1>1. Sound(w) /\ DOMAIN w.array \subseteq Arrays  BY DEF Settled
<1>2. CASE ExtentsOf(w, a) = ExtentsOf(w, b)
    <2> DEFINE k == NumElements(w.array[b].layout)
    <2>1. v = Overwritten(w, a, CellsOf(w, b), k)  BY <1>2 DEF Assign, Refill
    <2>2. k \in Nat /\ k <= NumElements(w.array[a].layout)
        <3>1. k = NumElements(w.array[a].layout)  BY <1>1, <1>2, SameExtents
        <3>2. k \in Nat  BY <1>1, WorldFacts
        <3> QED BY <3>1, <3>2
    <2> HIDE DEF k
    <2>3. Sound(v) /\ v.array = w.array  BY ONLY <1>1, <1>2, <2>1, <2>2, RefillSound
    <2> QED BY <1>1, <2>3 DEF Settled
<1>3. CASE ExtentsOf(w, a) # ExtentsOf(w, b)
    <2> DEFINE al == w.array[b].alloc
               c == Copy(w, Temp, b, al, p)
    <2>1. v = Replace(c, a)  BY <1>3 DEF Assign
    <2>2. Temp \in (Arrays \cup {Temp}) \ DOMAIN w.array  BY <1>1, NamesAssumption
    <2>3. al \in Allocators  BY <1>1, WorldFacts
    <2> HIDE DEF al
    <2>4. Sound(c) /\ Added(w, Temp, c)  BY <1>1, <2>2, <2>3, CopySound
    <2> HIDE DEF c
    <2>5. Settled(w)  OBVIOUS
    <2> QED BY ONLY <2>1, <2>4, <2>5, ReplaceSettles
<1> QED BY <1>2, <1>3

(* An array that has an index has an element there. *)
LEMMA ElementFacts ==
    ASSUME NEW w, Sound(w), NEW a \in DOMAIN w.array, NEW ix \in Box(ExtentsOf(w, a))
    PROVE  Element(w, a, ix) \in Elements /\ Held(w, a)
<1> DEFINE L == w.array[a].layout
<1>1. /\ L \in Layouts /\ NumElements(L) \in Nat
      /\ CellsOf(w, a) \in Seq(Elements) /\ Len(CellsOf(w, a)) = NumElements(L)
    BY WorldFacts
<1>2. ix \in Box(Extensions(L))  BY DEF ExtentsOf
<1>3. L \in ArrayLayouts /\ L \in Seq(ArrayDims)  BY <1>1, LayoutFacts
<1>4. Element(w, a, ix) = CellsOf(w, a)[Position(L, ix) + 1]  BY DEF Element
<1>5. Held(w, a) = (NumElements(L) # 0)  BY DEF Held
<1> HIDE DEF L
<1>6. Position(L, ix) \in 0 .. NumElements(L) - 1  BY <1>2, <1>3, DenseInBlock
<1>7. NumElements(L) # 0  BY <1>2, <1>3, BoxOfLayout
<1>8. Position(L, ix) + 1 \in 1 .. Len(CellsOf(w, a))  BY <1>1, <1>6
<1>9. CellsOf(w, a)[Position(L, ix) + 1] \in Elements  BY <1>1, <1>8
<1> QED BY <1>4, <1>5, <1>7, <1>9

(* A temporary of the new extensions takes the common elements, then the array's place *)
(* (array::reextent).                                                                   *)
LEMMA ResizedSettles ==
    ASSUME NEW w, Settled(w), NEW a \in DOMAIN w.array, NEW xs, LayoutOf(xs) \in Layouts,
           NEW e \in Elements, NEW p \in Places(w, NumElements(LayoutOf(xs))),
           NEW v, v = Resized(w, a, xs, e, p)
    PROVE  /\ Settled(v) /\ DOMAIN v.array = DOMAIN w.array
           /\ v.array[a].layout = LayoutOf(xs)
<1> DEFINE new == LayoutOf(xs)
           al == w.array[a].alloc
           made == Construct(w, Temp, al, p, new, Filled(new, e))
           f == Common(made, Temp, a)
           u == Written(made, Temp, f)
           s == Swap(u, a, Temp)
<1>1. Sound(w) /\ DOMAIN w.array \subseteq Arrays  BY DEF Settled
<1>2. v = Destroy(s, Temp)  BY Zenon DEF Resized
<1>3. Temp \in (Arrays \cup {Temp}) \ DOMAIN w.array /\ Temp # a  BY <1>1, NamesAssumption
<1>4. al \in Allocators  BY <1>1, WorldFacts
<1>5. new \in Layouts /\ p \in Places(w, NumElements(new))  OBVIOUS
<1> HIDE DEF al, new
<1>6. /\ Sound(made) /\ Added(w, Temp, made)
      /\ made.array[Temp] = [alloc |-> al, base |-> p, layout |-> new]
    <2> HIDE DEF made
    <2> QED BY <1>1, <1>3, <1>4, <1>5, FilledSound DEF made
<1> HIDE DEF made
<1>7. Temp \in DOMAIN made.array /\ a \in DOMAIN made.array  BY <1>6 DEF Added
<1>8. /\ \A ix \in DOMAIN f : f[ix] \in Elements
      /\ DOMAIN f # {} => Held(made, Temp)
    <2>1. f = [ix \in Box(ExtentsOf(made, Temp)) \cap Box(ExtentsOf(made, a)) |-> Element(made, a, ix)]
        BY DEF Common
    <2>2. \A ix \in Box(ExtentsOf(made, a)) : Element(made, a, ix) \in Elements
        BY <1>6, <1>7, ElementFacts
    <2>3. \A ix \in Box(ExtentsOf(made, Temp)) : Held(made, Temp)
        BY <1>6, <1>7, ElementFacts
    <2> HIDE DEF f
    <2> QED BY <2>1, <2>2, <2>3
<1> HIDE DEF f
<1>9. Sound(u) /\ u.array = made.array
    <2> HIDE DEF u
    <2> QED BY <1>6, <1>7, <1>8, WrittenSound DEF u
<1> HIDE DEF u
<1>10. /\ Sound(s) /\ DOMAIN s.array = DOMAIN made.array
       /\ s.array[a] = made.array[Temp]
    BY <1>7, <1>9, SwapSound
<1> HIDE DEF s
<1>11. /\ Sound(v) /\ DOMAIN v.array = DOMAIN s.array \ {Temp}
       /\ \A b \in DOMAIN v.array : v.array[b] = s.array[b]
    <2>1. Temp \in DOMAIN s.array  BY <1>7, <1>10
    <2>2. Sound(s)  BY <1>10
    <2> QED BY ONLY <1>2, <2>1, <2>2, DestroySound
<1>12. DOMAIN v.array = DOMAIN w.array  BY <1>1, <1>3, <1>6, <1>10, <1>11 DEF Added
<1>13. v.array[a].layout = new  BY <1>6, <1>10, <1>11, <1>12
<1> QED BY <1>1, <1>11, <1>12, <1>13 DEF Settled, new

LEMMA AddedSettles ==
    ASSUME NEW w, Settled(w), NEW a \in Arrays, NEW v, Sound(v), Added(w, a, v)
    PROVE  Settled(v)
BY DEF Settled, Added

LEMMA SameSettles ==
    ASSUME NEW w, Settled(w), NEW v, Sound(v), DOMAIN v.array \subseteq DOMAIN w.array
    PROVE  Settled(v)
BY DEF Settled

(* A temporary with the elements of a view is assigned from, k of them, and destroyed. *)
LEMMA RefillFromTempSettles ==
    ASSUME NEW u, Settled(u), NEW w, Sound(w), Added(u, Temp, w), NEW a \in DOMAIN u.array,
           ExtentsOf(w, a) = ExtentsOf(w, Temp),
           NEW k \in Nat, k <= NumElements(w.array[a].layout),
           NEW v, v = Destroy(Overwritten(w, a, CellsOf(w, Temp), k), Temp)
    PROVE  Settled(v)
<1> DEFINE m == Overwritten(w, a, CellsOf(w, Temp), k)
<1>1. a \in DOMAIN w.array /\ Temp \in DOMAIN w.array  BY DEF Added
<1>2. Sound(m) /\ m.array = w.array
    <2> HIDE DEF m
    <2> QED BY <1>1, RefillSound DEF m
<1>3. v = Destroy(m, Temp)  OBVIOUS
<1> HIDE DEF m
<1>4. Temp \in DOMAIN m.array  BY <1>1, <1>2
<1>5. Sound(v) /\ DOMAIN v.array = DOMAIN m.array \ {Temp}
    BY ONLY <1>2, <1>3, <1>4, DestroySound
<1> QED BY <1>2, <1>5 DEF Settled, Added

(* An archive's elements are read into an array that has the extensions it was saved with. *)
LEMMA LoadSettles ==
    ASSUME Default \in Elements,
           NEW w, Settled(w), NEW a \in DOMAIN w.array, NEW b \in DOMAIN w.array,
           NEW p \in Places(w, NumElements(w.array[b].layout)),
           NEW u, u = IF ExtentsOf(w, b) = ExtentsOf(w, a) THEN w
                      ELSE Resized(Clear(w, a), a, ExtentsOf(w, b), Default, p),
           NEW v, v = Written(u, a, [ix \in Box(ExtentsOf(w, b)) |-> Element(w, b, ix)])
    PROVE  Settled(v)
<1> DEFINE xs == ExtentsOf(w, b)
           f == [ix \in Box(xs) |-> Element(w, b, ix)]
<1>1. Sound(w) /\ DOMAIN w.array \subseteq Arrays  BY DEF Settled
<1>2. /\ LayoutOf(xs) \in Layouts
      /\ NumElements(LayoutOf(xs)) = NumElements(w.array[b].layout)
    BY <1>1, WorldFacts, LayoutFacts DEF ExtentsOf
<1>3. /\ \A ix \in DOMAIN f : f[ix] \in Elements
      /\ DOMAIN f # {} => Held(w, b)
    BY <1>1, ElementFacts
<1>4. v = Written(u, a, f)  OBVIOUS
<1> HIDE DEF f
<1>5. /\ Settled(u) /\ DOMAIN u.array = DOMAIN w.array
      /\ Held(w, b) => Held(u, a)
    <2>1. CASE xs = ExtentsOf(w, a)
        <3>1. u = w  BY <2>1
        <3>2. NumElements(w.array[a].layout) = NumElements(w.array[b].layout)
            BY <1>1, <2>1, SameExtents
        <3> QED BY <3>1, <3>2 DEF Held
    <2>2. CASE xs # ExtentsOf(w, a)
        <3> DEFINE c == Clear(w, a)
        <3>1. u = Resized(c, a, xs, Default, p)  BY <2>2
        <3>2. /\ Sound(c) /\ DOMAIN c.array = DOMAIN w.array
              /\ DOMAIN c.heap \subseteq DOMAIN w.heap
            BY <1>1, ClearSound
        <3> HIDE DEF c, xs
        <3>3. Settled(c) /\ a \in DOMAIN c.array  BY <1>1, <3>2 DEF Settled
        <3>4. p \in Places(c, NumElements(LayoutOf(xs)))  BY <1>2, <3>2 DEF Places
        <3>5. /\ Settled(u) /\ DOMAIN u.array = DOMAIN c.array
              /\ u.array[a].layout = LayoutOf(xs)
            <4>1. Default \in Elements  OBVIOUS
            <4> QED BY ONLY <1>2, <3>1, <3>3, <3>4, <4>1, ResizedSettles
        <3> QED BY <1>2, <3>2, <3>5 DEF Held
    <2> QED BY <2>1, <2>2
<1>6. Sound(u) /\ a \in DOMAIN u.array  BY <1>5 DEF Settled
<1>7. DOMAIN f # {} => Held(u, a)  BY <1>3, <1>5
<1>8. Sound(v) /\ v.array = u.array
    BY ONLY <1>3, <1>4, <1>6, <1>7, WrittenSound
<1> QED BY <1>5, <1>8 DEF Settled

(* Every leading index of an array finds its row among as many rows. *)
LEMMA RowInPlace ==
    ASSUME NEW w, Sound(w), NEW a \in DOMAIN w.array,
           NEW n \in Nat, Size(Head(w.array[a].layout)) = n,
           NEW ix \in Box(ExtentsOf(w, a))
    PROVE  ix[1] - ExtentsOf(w, a)[1][1] + 1 \in 1 .. n /\ Held(w, a)
<1> DEFINE L == w.array[a].layout
<1>2. L \in Seq(ArrayDims) /\ Len(L) > 0 /\ ExtentsOf(w, a) = Extensions(L)
    BY WorldFacts, LayoutFacts, ShapeFacts DEF ExtentsOf
<1>3. Size(L[1]) = n /\ 1 \in 1 .. Len(L) /\ L[1] \in ArrayDims
    <2>1. Head(L) = L[1]  BY <1>2
    <2> QED BY <1>2, <2>1
<1>4. Extensions(L)[1] = Extension(L[1])  BY <1>2, <1>3, ExtensionsFacts
<1>5. Held(w, a) = (NumElements(L) # 0)  BY DEF Held
<1> HIDE DEF L
<1> DEFINE x == Extension(L[1])
<1>6. ix[1] \in Indices(x) /\ NumElements(L) # 0  BY <1>2, <1>3, BoxOfLayout
<1>7. x \in Intervals /\ Count(x) = n  BY <1>3, ArrayDimFacts
<1>8. x[1] \in Int /\ x[2] \in Int /\ x[2] - x[1] = n  BY <1>7 DEF Intervals, Count
<1>9. ix[1] \in x[1] .. x[2] - 1  BY <1>6 DEF Indices
<1>10. ExtentsOf(w, a)[1][1] = x[1]  BY <1>2, <1>4
<1> HIDE DEF x
<1>11. ix[1] - x[1] + 1 \in 1 .. n  BY <1>8, <1>9
<1> QED BY <1>5, <1>6, <1>10, <1>11

(* Rows are assigned where they are, if there are as many of them (array::assign). *)
LEMMA RowsInPlaceSettles ==
    ASSUME NEW w, Settled(w), NEW a \in DOMAIN w.array,
           NEW n \in Nat, NEW rows \in [1 .. n -> Elements],
           Size(Head(w.array[a].layout)) = Len(rows),
           NEW v, v = Written(w, a, [ix \in Box(ExtentsOf(w, a)) |->
                                         rows[ix[1] - ExtentsOf(w, a)[1][1] + 1]])
    PROVE  Settled(v)
<1> DEFINE f == [ix \in Box(ExtentsOf(w, a)) |-> rows[ix[1] - ExtentsOf(w, a)[1][1] + 1]]
<1>1. Sound(w) /\ DOMAIN w.array \subseteq Arrays  BY DEF Settled
<1>2. Size(Head(w.array[a].layout)) = n  OBVIOUS
<1>6. ASSUME NEW ix \in Box(ExtentsOf(w, a))
      PROVE  ix[1] - ExtentsOf(w, a)[1][1] + 1 \in 1 .. n /\ Held(w, a)
    BY <1>1, <1>2, RowInPlace
<1>7. /\ \A ix \in DOMAIN f : f[ix] \in Elements
      /\ DOMAIN f # {} => Held(w, a)
    BY <1>6
<1>8. v = Written(w, a, f)  OBVIOUS
<1> HIDE DEF f
<1>9. Sound(v) /\ v.array = w.array
    BY ONLY <1>1, <1>7, <1>8, WrittenSound
<1> QED BY <1>1, <1>9 DEF Settled

(* A layout of as many elements replaces an array's (array::reshape, array::reindex). *)
LEMMA RelaidSettles ==
    ASSUME NEW w, Settled(w), NEW a \in DOMAIN w.array, NEW L \in Layouts,
           NumElements(L) = NumElements(w.array[a].layout),
           NEW v, v = [w EXCEPT !.array[a].layout = L]
    PROVE  Settled(v)
<1> DEFINE h == [w.array[a] EXCEPT !.layout = L]
           from == [b \in DOMAIN w.array |-> b]
<1>1. /\ Sound(w) /\ w = [array |-> w.array, heap |-> w.heap]
      /\ w.array \in [DOMAIN w.array -> Handles] /\ DOMAIN w.array \subseteq Arrays
    BY DEF Settled, Sound, IsWorld
<1>2. v = [array |-> [w.array EXCEPT ![a] = h], heap |-> w.heap]  BY <1>1
<1>3. w.array[a] \in Handles  BY <1>1
<1>4. h \in Handles /\ h.layout = L /\ h.base = w.array[a].base /\ h.alloc = w.array[a].alloc
    BY <1>3 DEF Handles
<1> HIDE DEF h
<1>5. /\ DOMAIN v.array = DOMAIN w.array /\ v.array \in [DOMAIN v.array -> Handles]
      /\ v.array[a] = h /\ \A b \in DOMAIN w.array \ {a} : v.array[b] = w.array[b]
    BY <1>1, <1>2, <1>4
<1>6. \A b \in DOMAIN w.array : Held(v, b) = Held(w, b)
    BY <1>4, <1>5 DEF Held
<1>7. \A b \in DOMAIN w.array : from[b] = b  OBVIOUS
<1> HIDE DEF from
<1>8. ASSUME NEW b \in DOMAIN v.array, Held(v, b) PROVE Took(v, b, w, from[b])
    <2>1. CASE b = a
        BY <1>4, <1>5, <1>6, <1>7, <1>8, <2>1 DEF Took, Base
    <2>2. CASE b # a
        BY <1>5, <1>6, <1>7, <1>8, <2>2 DEF Took, Base
    <2> QED BY <2>1, <2>2
<1>9. \A b, d \in DOMAIN v.array : Held(v, b) /\ Held(v, d) /\ b # d => from[b] # from[d]
    BY <1>5, <1>7
<1>10. \A b \in DOMAIN w.array : Held(w, b) => \E d \in DOMAIN v.array : Held(v, d) /\ from[d] = b
    BY <1>5, <1>6, <1>7
<1>11. v = [array |-> v.array, heap |-> w.heap] /\ DOMAIN v.array \subseteq Arrays \cup {Temp}
    BY <1>1, <1>2, <1>5
<1>12. Sound(v)  BY ONLY <1>1, <1>5, <1>8, <1>9, <1>10, <1>11, HandedSound
<1> QED BY <1>1, <1>5, <1>12 DEF Settled

(***************************************************************************)
(* The arrays are values: what each operation does to the value of the     *)
(* array it is called with, and that it leaves those of the others.        *)
(***************************************************************************)
Same(w, v, S) == \A b \in S : ValueOf(v, b) = ValueOf(w, b)
(* A world with one array more, of value x, ... *)
Gains(w, a, v, x)   == Added(w, a, v) /\ ValueOf(v, a) = x /\ Same(w, v, DOMAIN w.array)
(* ... or with a new value x of one array. *)
Becomes(w, a, v, x) == /\ DOMAIN v.array = DOMAIN w.array /\ ValueOf(v, a) = x
                       /\ Same(w, v, DOMAIN w.array \ {a})

(* The value of an array is told by its layout and its block. *)
LEMMA ValueFacts ==
    ASSUME NEW w, Sound(w), NEW a \in DOMAIN w.array, NEW L, L = w.array[a].layout
    PROVE  /\ ValueOf(w, a) = [extents |-> Extensions(L),
                               element |-> [ix \in Names(L) |-> CellsOf(w, a)[Position(L, ix) + 1]]]
           /\ ValueOf(w, a).extents = Extensions(L) /\ DOMAIN ValueOf(w, a).element = Names(L)
           /\ \A ix \in Names(L) : ValueOf(w, a).element[ix] = Element(w, a, ix)
           /\ ExtentsOf(w, a) = Extensions(L) /\ Box(ExtentsOf(w, a)) = Names(L)
           /\ Values!Box(Extensions(L)) = Names(L) /\ Values!Normal(Extensions(L)) = Extensions(L)
           /\ L \in Layouts /\ L \in ArrayLayouts /\ L \in Seq(ArrayDims) /\ Len(L) = Rank /\ Len(L) > 0
           /\ Extensions(L) \in Seq(Intervals) /\ Len(Extensions(L)) = Rank
<1>1. L \in Layouts /\ L \in ArrayLayouts /\ L \in Seq(ArrayDims) /\ Len(L) = Rank /\ Len(L) > 0
    BY WorldFacts, LayoutFacts, ShapeFacts
<1>2. Values!Normal(Extensions(L)) = Extensions(L)  BY <1>1, LayoutFacts DEF Told
<1>3. Extensions(L) \in Seq(Intervals) /\ Len(Extensions(L)) = Rank  BY <1>1, ExtensionsFacts
<1>4. Values!Box(Extensions(L)) = Names(L)  BY <1>3, ValueBox DEF Names
<1>5. ExtentsOf(w, a) = Extensions(L) /\ Box(ExtentsOf(w, a)) = Names(L)  BY DEF ExtentsOf, Names
<1>6. \A ix : Element(w, a, ix) = CellsOf(w, a)[Position(L, ix) + 1]  BY DEF Element
<1>7. ValueOf(w, a) = [extents |-> Extensions(L), element |-> [ix \in Names(L) |-> Element(w, a, ix)]]
    BY <1>5 DEF ValueOf
<1>8. [ix \in Names(L) |-> Element(w, a, ix)]
          = [ix \in Names(L) |-> CellsOf(w, a)[Position(L, ix) + 1]]
    BY <1>6
<1> QED BY <1>1, <1>2, <1>3, <1>4, <1>5, <1>7, <1>8

LEMMA ValueMade ==
    ASSUME NEW v, Sound(v), NEW a \in DOMAIN v.array, NEW L, L = v.array[a].layout,
           NEW f, f = [ix \in Names(L) |-> f[ix]], \A ix \in Names(L) : Element(v, a, ix) = f[ix]
    PROVE  ValueOf(v, a) = [extents |-> Extensions(L), element |-> f]
<1>1. ExtentsOf(v, a) = Extensions(L) /\ Box(ExtentsOf(v, a)) = Names(L)  BY ValueFacts
<1>2. ValueOf(v, a) = [extents |-> Extensions(L), element |-> [ix \in Names(L) |-> Element(v, a, ix)]]
    BY <1>1 DEF ValueOf
<1>3. [ix \in Names(L) |-> Element(v, a, ix)] = f  OBVIOUS
<1> QED BY <1>2, <1>3

(* Arrays of the same extensions and elements have the same value. *)
LEMMA MatchesValue ==
    ASSUME NEW w, Sound(w), NEW a \in DOMAIN w.array, NEW v, Sound(v), NEW b \in DOMAIN v.array,
           Matches(w, a, v, b)
    PROVE  ValueOf(v, b) = ValueOf(w, a)
<1> DEFINE L == w.array[a].layout
           M == v.array[b].layout
           c == CellsOf(w, a)
<1>1. /\ ValueOf(w, a) = [extents |-> Extensions(L), element |-> [ix \in Names(L) |-> c[Position(L, ix) + 1]]]
      /\ ExtentsOf(w, a) = Extensions(L) /\ L \in ArrayLayouts
    BY ValueFacts
<1>2. /\ ValueOf(v, b) = [extents |-> Extensions(M),
                          element |-> [ix \in Names(M) |-> CellsOf(v, b)[Position(M, ix) + 1]]]
      /\ ExtentsOf(v, b) = Extensions(M) /\ M \in ArrayLayouts
    BY ValueFacts
<1>3. Extensions(M) = Extensions(L) /\ CellsOf(v, b) = c  BY <1>1, <1>2 DEF Matches
<1> HIDE DEF L, M, c
<1>4. Names(M) = Names(L)  BY <1>3 DEF Names
<1>5. \A ix \in Names(L) : Position(M, ix) = Position(L, ix)  BY <1>1, <1>2, <1>3, SamePositions
<1>6. [ix \in Names(M) |-> CellsOf(v, b)[Position(M, ix) + 1]] = [ix \in Names(L) |-> c[Position(L, ix) + 1]]
    BY <1>3, <1>4, <1>5
<1> QED BY <1>1, <1>2, <1>3, <1>6

(* An array without elements (static_array(), array::clear). *)
LEMMA EmptiedValue ==
    ASSUME NEW v, Sound(v), NEW a \in DOMAIN v.array, Emptied(v, a)
    PROVE  ValueOf(v, a) = Values!Nothing(Rank)
<1> DEFINE L == NoLayout(Rank)
           xs == [k \in 1 .. Rank |-> <<0, 0>>]
           f == [ix \in Names(L) |-> CellsOf(v, a)[Position(L, ix) + 1]]
<1>1. L = v.array[a].layout  BY DEF Emptied
<1>2. /\ ValueOf(v, a) = [extents |-> Extensions(L), element |-> f]
      /\ Values!Box(Extensions(L)) = Names(L) /\ L \in Seq(ArrayDims)
      /\ Len(L) = Rank /\ Len(L) > 0
      /\ Extensions(L) \in Seq(Intervals) /\ Len(Extensions(L)) = Rank
    <2> HIDE DEF L
    <2> QED BY <1>1, ValueFacts
<1>3. Rank \in Nat \ {0}  BY ShapeFacts
<1>4. \A k \in 1 .. Rank : L[k] = Dim(1, 0, 0)  BY DEF NoLayout
<1>5. Extension(Dim(1, 0, 0)) = <<0, 0>>  BY DEF Dim, Extension
<1>6. NumElements(L) = 0  BY NoLayoutFacts
<1> HIDE DEF L
<1>7. Extensions(L) = xs
    <2>1. \A k \in 1 .. Rank : Extensions(L)[k] = xs[k]  BY <1>2, <1>4, <1>5, ExtensionsFacts
    <2>2. <<0, 0>> \in Intervals  BY DEF Intervals
    <2>3. xs \in Seq(Intervals) /\ Len(xs) = Rank  BY <1>3, <2>2
    <2> HIDE DEF xs
    <2> QED BY <1>2, <2>1, <2>3, EqualSequences
<1>8. Names(L) = {}
    <2> SUFFICES ASSUME NEW ix \in Names(L) PROVE FALSE
        OBVIOUS
    <2> QED BY <1>2, <1>6, BoxOfLayout DEF Names
<1>9. Values!Nothing(Rank) = [extents |-> xs, element |-> [ix \in Values!Box(xs) |-> Default]]
    BY DEF Values!Nothing, Values!Value
<1>10. f = [ix \in {} |-> Default]
    <2>1. f = [ix \in {} |-> CellsOf(v, a)[Position(L, ix) + 1]]  BY <1>8
    <2> HIDE DEF f
    <2> QED BY <2>1
<1> HIDE DEF f, xs
<1> QED BY <1>2, <1>7, <1>8, <1>9, <1>10

LEMMA PreservedSame ==
    ASSUME NEW w, Sound(w), NEW v, Sound(v), NEW S, S \subseteq DOMAIN w.array, S \subseteq DOMAIN v.array,
           \A b \in S : v.array[b] = w.array[b] /\ CellsOf(v, b) = CellsOf(w, b)
    PROVE  Same(w, v, S)
<1> SUFFICES ASSUME NEW b \in S PROVE ValueOf(v, b) = ValueOf(w, b)
    BY DEF Same
<1>1. b \in DOMAIN w.array /\ b \in DOMAIN v.array  OBVIOUS
<1>2. Matches(w, b, v, b)  BY DEF Matches, ExtentsOf
<1> QED BY <1>1, <1>2, MatchesValue

LEMMA UnalteredSame ==
    ASSUME NEW w, Sound(w), NEW v, Sound(v), NEW S, S \subseteq DOMAIN w.array, S \subseteq DOMAIN v.array,
           Unaltered(w, v, S)
    PROVE  Same(w, v, S)
<1> SUFFICES ASSUME NEW b \in S PROVE ValueOf(v, b) = ValueOf(w, b)
    BY DEF Same
<1>1. b \in DOMAIN w.array /\ b \in DOMAIN v.array  OBVIOUS
<1>2. Matches(w, b, v, b)  BY DEF Unaltered
<1> QED BY <1>1, <1>2, MatchesValue

(* A new array has the value it is constructed with; the others keep theirs. *)
LEMMA ConstructGains ==
    ASSUME NEW w, NEW a, NEW al, NEW L, NEW p, NEW cells, Constructible(w, a, al, p, L, cells),
           NEW v, v = Construct(w, a, al, p, L, cells),
           NEW f, f = [ix \in Names(L) |-> f[ix]], \A ix \in Names(L) : cells[Position(L, ix) + 1] = f[ix]
    PROVE  Gains(w, a, v, [extents |-> Extensions(L), element |-> f])
<1>1. Sound(v) /\ Added(w, a, v) /\ Preserved(w, v) /\ Holds(v, a, L, cells)
    BY ONLY Constructible(w, a, al, p, L, cells), v = Construct(w, a, al, p, L, cells), ConstructSound, Zenon
<1>2. v.array[a] = [alloc |-> al, base |-> p, layout |-> L]
    BY ONLY Constructible(w, a, al, p, L, cells), v = Construct(w, a, al, p, L, cells), ConstructSound
<1>3. Sound(w) /\ a \notin DOMAIN w.array /\ L \in Layouts  BY DEF Constructible
<1>4. a \in DOMAIN v.array /\ DOMAIN w.array \subseteq DOMAIN v.array  BY <1>1 DEF Added
<1>5. L = v.array[a].layout  BY <1>2
<1>6. ASSUME NEW ix \in Names(L) PROVE Element(v, a, ix) = f[ix]
    <2>1. L \in Seq(ArrayDims)  BY <1>3, LayoutFacts
    <2>2. NumElements(L) # 0  BY <2>1, BoxOfLayout DEF Names
    <2>3. CellsOf(v, a) = cells  BY <1>1, <2>2 DEF Holds
    <2>4. Element(v, a, ix) = CellsOf(v, a)[Position(L, ix) + 1]  BY <1>5 DEF Element
    <2> QED BY <2>3, <2>4
<1>7. ValueOf(v, a) = [extents |-> Extensions(L), element |-> f]
    BY ONLY <1>1, <1>4, <1>5, <1>6, f = [ix \in Names(L) |-> f[ix]], ValueMade
<1>8. Same(w, v, DOMAIN w.array)
    <2>1. \A b \in DOMAIN w.array : v.array[b] = w.array[b] /\ CellsOf(v, b) = CellsOf(w, b)
        BY <1>1 DEF Preserved
    <2> QED BY <1>1, <1>3, <1>4, <2>1, PreservedSame
<1> QED BY <1>1, <1>7, <1>8 DEF Gains

LEMMA FilledGains ==
    ASSUME NEW w, Sound(w), NEW a \in (Arrays \cup {Temp}) \ DOMAIN w.array,
           NEW al \in Allocators, NEW L \in Layouts, NEW p \in Places(w, NumElements(L)),
           NEW e \in Elements,
           NEW v, v = Construct(w, a, al, p, L, Filled(L, e))
    PROVE  Gains(w, a, v, [extents |-> Extensions(L), element |-> [ix \in Names(L) |-> e]])
<1> DEFINE c == Filled(L, e)
           f == [ix \in Names(L) |-> e]
<1>1. c \in Seq(Elements) /\ Len(c) = NumElements(L)  BY FilledFacts
<1>2. \A k \in 1 .. NumElements(L) : c[k] = e  BY DEF Filled
<1>3. v = Construct(w, a, al, p, L, c)  OBVIOUS
<1>4. f = [ix \in Names(L) |-> f[ix]] /\ \A ix \in Names(L) : f[ix] = e  OBVIOUS
<1> HIDE DEF c, f
<1>5. Constructible(w, a, al, p, L, c)  BY <1>1 DEF Constructible
<1>6. ASSUME NEW ix \in Names(L) PROVE c[Position(L, ix) + 1] = f[ix]
    <2>1. L \in ArrayLayouts /\ NumElements(L) \in Nat  BY LayoutFacts
    <2>2. Position(L, ix) \in 0 .. NumElements(L) - 1  BY <2>1, DenseInBlock DEF Names
    <2> QED BY <1>2, <1>4, <2>1, <2>2
<1>7. Gains(w, a, v, [extents |-> Extensions(L), element |-> f])
    BY ONLY <1>3, <1>4, <1>5, <1>6, ConstructGains
<1> QED BY <1>7 DEF f

LEMMA CopyGains ==
    ASSUME NEW w, Sound(w), NEW a \in (Arrays \cup {Temp}) \ DOMAIN w.array,
           NEW b \in DOMAIN w.array, NEW al \in Allocators,
           NEW p \in Places(w, NumElements(w.array[b].layout)),
           NEW v, v = Copy(w, a, b, al, p)
    PROVE  Gains(w, a, v, ValueOf(w, b))
<1>1. Sound(v) /\ Added(w, a, v) /\ Preserved(w, v) /\ Matches(w, b, v, a)  BY CopySound
<1>2. a \in DOMAIN v.array /\ DOMAIN w.array \subseteq DOMAIN v.array  BY <1>1 DEF Added
<1>3. ValueOf(v, a) = ValueOf(w, b)  BY <1>1, <1>2, MatchesValue
<1>4. \A d \in DOMAIN w.array : v.array[d] = w.array[d] /\ CellsOf(v, d) = CellsOf(w, d)
    BY <1>1 DEF Preserved
<1>5. Same(w, v, DOMAIN w.array)  BY <1>1, <1>2, <1>4, PreservedSame
<1> QED BY <1>1, <1>3, <1>5 DEF Gains

(* Elements are written to an array, and to no other. *)
LEMMA WrittenBecomes ==
    ASSUME NEW w, Sound(w), NEW a \in DOMAIN w.array, NEW L, L = w.array[a].layout,
           NEW f, \A ix \in DOMAIN f : f[ix] \in Elements, DOMAIN f \subseteq Names(L),
           NEW v, v = Written(w, a, f),
           NEW g, g = [ix \in Names(L) |-> g[ix]],
           \A ix \in Names(L) : g[ix] = IF ix \in DOMAIN f THEN f[ix] ELSE Element(w, a, ix)
    PROVE  Sound(v) /\ Becomes(w, a, v, [extents |-> Extensions(L), element |-> g])
<1>1. L \in Layouts /\ L \in Seq(ArrayDims) /\ ExtentsOf(w, a) = Extensions(L) /\ Box(ExtentsOf(w, a)) = Names(L)
    BY ValueFacts
<1>2. DOMAIN f # {} => Held(w, a)
    <2> SUFFICES ASSUME NEW ix \in DOMAIN f PROVE Held(w, a)
        OBVIOUS
    <2>1. ix \in Names(L)  OBVIOUS
    <2>2. NumElements(L) # 0  BY <1>1, <2>1, BoxOfLayout DEF Names
    <2> QED BY <2>2 DEF Held
<1>3. /\ Sound(v) /\ v.array = w.array
      /\ \A b \in DOMAIN w.array : b # a => CellsOf(v, b) = CellsOf(w, b)
      /\ DOMAIN f \subseteq Box(ExtentsOf(w, a)) => WrittenTo(w, a, f, v)
    BY <1>2, WrittenSound
<1>4. WrittenTo(w, a, f, v)  BY <1>1, <1>3
<1>5. \A ix \in Names(L) : Element(v, a, ix) = g[ix]  BY <1>1, <1>4 DEF WrittenTo
<1>6. a \in DOMAIN v.array /\ L = v.array[a].layout  BY <1>3
<1>7. ValueOf(v, a) = [extents |-> Extensions(L), element |-> g]
    BY <1>3, <1>5, <1>6, ValueMade
<1>8. Same(w, v, DOMAIN w.array \ {a})
    <2>1. \A b \in DOMAIN w.array \ {a} : v.array[b] = w.array[b] /\ CellsOf(v, b) = CellsOf(w, b)
        BY <1>3
    <2> QED BY <1>3, <2>1, PreservedSame
<1> QED BY <1>3, <1>7, <1>8 DEF Becomes

LEMMA GainsBecomes ==
    ASSUME NEW w, NEW u, NEW v, NEW x, NEW y, NEW a, a \notin DOMAIN w.array,
           Gains(w, a, u, x), Becomes(u, a, v, y)
    PROVE  Gains(w, a, v, y)
BY DEF Gains, Becomes, Added, Same

(* The value of a view is told by its layout: that of the array, or of its rotation. *)
LEMMA ViewValue ==
    ASSUME NEW w, Sound(w), NEW b \in DOMAIN w.array, NEW turned \in BOOLEAN,
           NEW L, L = ViewLayout(w, b, turned), NEW M, M = LayoutOf(Extensions(L))
    PROVE  /\ Names(M) = Names(L)
           /\ Values!View(ValueOf(w, b), turned)
                  = [extents |-> Extensions(M),
                     element |-> [ix \in Names(M) |-> CellsOf(w, b)[Position(L, ix) + 1]]]
<1> DEFINE N == w.array[b].layout
           c == CellsOf(w, b)
           x == ValueOf(w, b)
           g == [ix \in Names(N) |-> c[Position(N, ix) + 1]]
<1>1. /\ x = [extents |-> Extensions(N), element |-> g]
      /\ Values!Normal(Extensions(N)) = Extensions(N)
      /\ N \in Seq(ArrayDims) /\ Len(N) = Rank /\ Len(N) > 0
    BY ValueFacts
<1>2. L = IF turned THEN Rotate(N, 1) ELSE N  BY DEF ViewLayout
<1> HIDE DEF N, c, x
<1>3. L \in Seq(ArrayDims)
    BY <1>1, <1>2, RotateOne
<1>4. Extensions(L) \in Seq(Intervals)  BY <1>3, ExtensionsFacts
<1>5. Extensions(M) = Values!Normal(Extensions(L))  BY <1>4, LayoutNormal
<1>6. Box(Extensions(M)) = Box(Extensions(L)) /\ Extensions(M) \in Seq(Intervals)
    BY <1>4, <1>5, NormalFacts
<1>7. Names(M) = Names(L)  BY <1>6 DEF Names
<1>8. Values!Box(Extensions(M)) = Names(M)  BY <1>6, ValueBox DEF Names
<1>9. ASSUME ~ turned
      PROVE  Values!View(x, turned)
                 = [extents |-> Extensions(M), element |-> [ix \in Names(M) |-> c[Position(L, ix) + 1]]]
    <2>1. L = N  BY <1>2, <1>9
    <2>2. Extensions(M) = Extensions(N) /\ Names(M) = Names(N)  BY <1>1, <1>5, <1>7, <2>1
    <2>3. Values!View(x, turned) = x  BY <1>9 DEF Values!View
    <2>4. [ix \in Names(M) |-> c[Position(L, ix) + 1]] = g  BY <2>1, <2>2
    <2> HIDE DEF g
    <2> QED BY <1>1, <2>2, <2>3, <2>4
<1>10. ASSUME turned
       PROVE  Values!View(x, turned)
                  = [extents |-> Extensions(M), element |-> [ix \in Names(M) |-> c[Position(L, ix) + 1]]]
    <2>1. L = Rotate(N, 1)  BY <1>2, <1>10
    <2>2. /\ Extensions(L) = Values!Onward(Extensions(N))
          /\ \A jx \in Names(L) : /\ Values!Back(jx) \in Names(N)
                                  /\ Position(L, jx) = Position(N, Values!Back(jx))
        BY <1>1, <2>1, TurnedTuples
    <2>3. x.extents = Extensions(N) /\ x.element = g
        <3> HIDE DEF g
        <3> QED BY <1>1
    <2>4. \A ix \in Names(M) : g[Values!Back(ix)] = c[Position(L, ix) + 1]  BY <1>7, <2>2
    <2> HIDE DEF g
    <2> DEFINE ys == Values!Normal(Values!Onward(x.extents))
    <2>5. ys = Extensions(M)  BY <1>5, <2>2, <2>3
    <2> HIDE DEF ys
    <2>6. Values!View(x, turned)
              = [extents |-> ys, element |-> [ix \in Values!Box(ys) |-> x.element[Values!Back(ix)]]]
        BY <1>10 DEF Values!View, Values!Value, ys
    <2>7. Values!Box(ys) = Names(M)  BY <1>8, <2>5
    <2>8. [ix \in Values!Box(ys) |-> x.element[Values!Back(ix)]] = [ix \in Names(M) |-> c[Position(L, ix) + 1]]
        BY <2>3, <2>4, <2>7
    <2> QED BY <2>5, <2>6, <2>8
<1>11. Values!View(x, turned)
           = [extents |-> Extensions(M), element |-> [ix \in Names(M) |-> c[Position(L, ix) + 1]]]
    BY <1>9, <1>10
<1> QED BY <1>7, <1>11 DEF x, c

LEMMA CopyViewGains ==
    ASSUME Default \in Elements,
           NEW w, Sound(w), NEW a \in (Arrays \cup {Temp}) \ DOMAIN w.array,
           NEW b \in DOMAIN w.array, NEW turned \in BOOLEAN, NEW al \in Allocators,
           NEW p \in Places(w, NumElements(w.array[b].layout)),
           NEW v, v = CopyView(w, a, b, turned, al, p)
    PROVE  Gains(w, a, v, Values!View(ValueOf(w, b), turned))
<1> DEFINE L == ViewLayout(w, b, turned)
           new == LayoutOf(Extensions(L))
           made == Construct(w, a, al, p, new, Filled(new, Default))
           f == ViewOf(w, b, L)
           g == [ix \in Names(new) |-> CellsOf(w, b)[Position(L, ix) + 1]]
           x == [extents |-> Extensions(new), element |-> [ix \in Names(new) |-> Default]]
<1>1. /\ new \in Layouts /\ NumElements(new) = NumElements(w.array[b].layout)
      /\ \A ix \in Box(Extensions(L)) : CellsOf(w, b)[Position(L, ix) + 1] \in Elements
    <2> HIDE DEF L
    <2> QED BY ViewFacts DEF L
<1>2. /\ Names(new) = Names(L)
      /\ Values!View(ValueOf(w, b), turned) = [extents |-> Extensions(new), element |-> g]
    <2> HIDE DEF L
    <2> QED BY ViewValue DEF L
<1>3. v = Written(made, a, f)  BY Zenon DEF CopyView
<1>4. f = [ix \in Names(L) |-> CellsOf(w, b)[Position(L, ix) + 1]]  BY Zenon DEF ViewOf, Names
<1>5. g = [ix \in Names(new) |-> g[ix]] /\ \A ix \in Names(new) : g[ix] = CellsOf(w, b)[Position(L, ix) + 1]
    <2> HIDE DEF L, new
    <2> QED OBVIOUS
<1> HIDE DEF L, new, f, g
<1>6. \A ix \in DOMAIN f : f[ix] \in Elements  BY <1>1, <1>4 DEF Names
<1>7. DOMAIN f = Names(new) /\ \A ix \in Names(new) : f[ix] = g[ix]  BY <1>2, <1>4, <1>5
<1>8. p \in Places(w, NumElements(new))  BY <1>1
<1> HIDE DEF made, x
<1>9. Sound(made) /\ Added(w, a, made) /\ made.array[a] = [alloc |-> al, base |-> p, layout |-> new]
    BY <1>1, <1>8, FilledSound DEF made
<1>10. Gains(w, a, made, x)  BY <1>1, <1>8, FilledGains DEF made, x
<1>11. a \in DOMAIN made.array /\ new = made.array[a].layout  BY <1>9 DEF Added
<1>12. \A ix \in Names(new) : g[ix] = IF ix \in DOMAIN f THEN f[ix] ELSE Element(made, a, ix)
    BY <1>7
<1>13. DOMAIN f \subseteq Names(new)  BY <1>7
<1>14. g = [ix \in Names(new) |-> g[ix]]  BY <1>5
<1>15. Becomes(made, a, v, [extents |-> Extensions(new), element |-> g])
    BY ONLY <1>3, <1>6, <1>9, <1>11, <1>12, <1>13, <1>14, WrittenBecomes
<1> QED BY <1>2, <1>10, <1>15, GainsBecomes

(* The value of rows of equal elements. *)
LEMMA RangeGains ==
    ASSUME NEW w, Sound(w), NEW a \in (Arrays \cup {Temp}) \ DOMAIN w.array,
           Standard \in Allocators, Rank = 2, NEW x \in Intervals,
           NEW n \in Nat \ {0}, NEW rows \in [1 .. n -> Elements],
           NEW p \in Places(w, Len(rows) * Count(x)),
           NEW v, v = ConstructRange(w, a, x, rows, p)
    PROVE  Gains(w, a, v, Values!Rows(x, rows))
<1> DEFINE xs == <<<<0, n>>, x>>
           L == LayoutOf(xs)
           c == CellsOfRows(L, x, rows)
           f == [ix \in Names(L) |-> rows[ix[1] + 1]]
<1>1. /\ Constructible(w, a, Standard, p, L, c) /\ v = Construct(w, a, Standard, p, L, c)
      /\ NumElements(L) \in Nat
    <2> HIDE DEF L
    <2> QED BY RangeConstructible DEF L
<1>2. <<0, n>> \in Intervals  BY DEF Intervals
<1>3. xs \in Seq(Intervals) /\ Len(xs) = 2  BY <1>2
<1>4. Extensions(L) = Values!Normal(xs)  BY <1>3, LayoutNormal
<1>5. Values!Box(Values!Normal(xs)) = Names(L)
    <2>1. Values!Normal(xs) \in Seq(Intervals)  BY <1>3, NormalFacts
    <2>2. Values!Box(Values!Normal(xs)) = Box(Values!Normal(xs))  BY <2>1, ValueBox
    <2> QED BY <1>4, <2>2 DEF Names
<1>6. ASSUME NEW ix \in Names(L) PROVE c[Position(L, ix) + 1] = f[ix]
    <2>1. L \in ArrayLayouts  BY <1>3, NewTold
    <2>2. Position(L, ix) \in 0 .. NumElements(L) - 1
        <3> HIDE DEF L
        <3> QED BY <2>1, DenseInBlock DEF Names
    <2>3. Position(L, ix) \div Count(x) = ix[1]
        <3> HIDE DEF L
        <3> QED BY RowOf DEF L
    <2> HIDE DEF L
    <2>4. c = [k \in 1 .. NumElements(L) |-> rows[((k - 1) \div Count(x)) + 1]]  BY DEF CellsOfRows
    <2>5. f[ix] = rows[ix[1] + 1]  OBVIOUS
    <2> HIDE DEF c, f
    <2> DEFINE q == Position(L, ix)
    <2>6. q \in Int /\ q + 1 \in 1 .. NumElements(L) /\ (q + 1) - 1 = q  BY <1>1, <2>2
    <2>7. c[q + 1] = rows[(((q + 1) - 1) \div Count(x)) + 1]
        <3> HIDE DEF q
        <3> QED BY <2>4, <2>6
    <2> QED BY <2>3, <2>5, <2>6, <2>7
<1>7. f = [ix \in Names(L) |-> f[ix]]
    <2> HIDE DEF L
    <2> QED OBVIOUS
<1>8. Values!Rows(x, rows) = [extents |-> Values!Normal(xs),
                              element |-> [ix \in Values!Box(Values!Normal(xs)) |-> rows[ix[1] + 1]]]
    <2>1. Len(rows) = n  OBVIOUS
    <2> QED BY <2>1 DEF Values!Rows, Values!Value
<1>9. Values!Rows(x, rows) = [extents |-> Extensions(L), element |-> f]
    <2> HIDE DEF L, xs
    <2> QED BY <1>4, <1>5, <1>8
<1> HIDE DEF L, c, f, xs
<1>10. Gains(w, a, v, [extents |-> Extensions(L), element |-> f])
    BY ONLY <1>1, <1>6, <1>7, ConstructGains
<1> QED BY <1>9, <1>10

(* A moved array is what the other was, which is left empty. *)
LEMMA MoveValues ==
    ASSUME NEW w, Sound(w), NEW a \in (Arrays \cup {Temp}) \ DOMAIN w.array,
           NEW b \in DOMAIN w.array, NEW al \in Allocators,
           "move" \notin Unchecked => al = w.array[b].alloc,
           NEW v, v = Move(w, a, b, al)
    PROVE  /\ Added(w, a, v) /\ ValueOf(v, a) = ValueOf(w, b)
           /\ ValueOf(v, b) = Values!Nothing(Rank) /\ Same(w, v, DOMAIN w.array \ {b})
<1>1. /\ Sound(v) /\ Added(w, a, v)
      /\ Matches(w, b, v, a) /\ Emptied(v, b) /\ Unaltered(w, v, DOMAIN w.array \ {b})
    BY MoveSound
<1>2. a \in DOMAIN v.array /\ DOMAIN w.array \subseteq DOMAIN v.array  BY <1>1 DEF Added
<1>3. ValueOf(v, a) = ValueOf(w, b)  BY <1>1, <1>2, MatchesValue
<1>4. ValueOf(v, b) = Values!Nothing(Rank)  BY <1>1, <1>2, EmptiedValue
<1>5. Same(w, v, DOMAIN w.array \ {b})  BY <1>1, <1>2, UnalteredSame
<1> QED BY <1>1, <1>3, <1>4, <1>5

LEMMA MoveAssignValues ==
    ASSUME NEW w, Sound(w), NEW a \in DOMAIN w.array, NEW b \in DOMAIN w.array,
           NEW v, v = MoveAssign(w, a, b)
    PROVE  /\ Sound(v) /\ DOMAIN v.array = DOMAIN w.array
           /\ a # b => ValueOf(v, a) = ValueOf(w, b)
           /\ ValueOf(v, b) = Values!Nothing(Rank) /\ Same(w, v, DOMAIN w.array \ {a, b})
<1>1. /\ Sound(v) /\ DOMAIN v.array = DOMAIN w.array
      /\ a # b => Matches(w, b, v, a)
      /\ Emptied(v, b) /\ Unaltered(w, v, DOMAIN w.array \ {a, b})
    BY MoveAssignSound
<1>2. a # b => ValueOf(v, a) = ValueOf(w, b)  BY <1>1, MatchesValue
<1>3. ValueOf(v, b) = Values!Nothing(Rank)  BY <1>1, EmptiedValue
<1>4. Same(w, v, DOMAIN w.array \ {a, b})  BY <1>1, UnalteredSame
<1> QED BY <1>1, <1>2, <1>3, <1>4

LEMMA SwapValues ==
    ASSUME NEW w, Sound(w), NEW a \in DOMAIN w.array, NEW b \in DOMAIN w.array,
           NEW v, v = Swap(w, a, b)
    PROVE  /\ Sound(v) /\ DOMAIN v.array = DOMAIN w.array
           /\ ValueOf(v, a) = ValueOf(w, b) /\ ValueOf(v, b) = ValueOf(w, a)
           /\ Same(w, v, DOMAIN w.array \ {a, b})
<1>1. /\ Sound(v) /\ DOMAIN v.array = DOMAIN w.array
      /\ Matches(w, b, v, a) /\ Matches(w, a, v, b) /\ Unaltered(w, v, DOMAIN w.array \ {a, b})
    BY SwapSound DEF Exchanged
<1>2. ValueOf(v, a) = ValueOf(w, b)  BY <1>1, MatchesValue
<1>3. ValueOf(v, b) = ValueOf(w, a)  BY <1>1, MatchesValue
<1>4. Same(w, v, DOMAIN w.array \ {a, b})  BY <1>1, UnalteredSame
<1> QED BY <1>1, <1>2, <1>3, <1>4

LEMMA DestroyValues ==
    ASSUME NEW w, Sound(w), NEW a \in DOMAIN w.array, NEW v, v = Destroy(w, a)
    PROVE  DOMAIN v.array = DOMAIN w.array \ {a} /\ Same(w, v, DOMAIN w.array \ {a})
<1>1. /\ Sound(v) /\ DOMAIN v.array = DOMAIN w.array \ {a}
      /\ \A b \in DOMAIN v.array : v.array[b] = w.array[b] /\ CellsOf(v, b) = CellsOf(w, b)
    BY DestroySound
<1>2. Same(w, v, DOMAIN w.array \ {a})  BY <1>1, PreservedSame
<1> QED BY <1>1, <1>2

LEMMA ClearBecomes ==
    ASSUME NEW w, Sound(w), NEW a \in DOMAIN w.array, NEW v, v = Clear(w, a)
    PROVE  Becomes(w, a, v, Values!Nothing(Rank))
<1>1. /\ Sound(v) /\ DOMAIN v.array = DOMAIN w.array
      /\ v.array[a] = [w.array[a] EXCEPT !.layout = NoLayout(Rank)]
      /\ \A b \in DOMAIN w.array \ {a} : v.array[b] = w.array[b] /\ CellsOf(v, b) = CellsOf(w, b)
    BY ClearSound
<1>2. Emptied(v, a)
    <2>1. w.array[a] \in Handles  BY WorldFacts
    <2> QED BY <1>1, <2>1 DEF Emptied, Handles
<1>3. ValueOf(v, a) = Values!Nothing(Rank)  BY <1>1, <1>2, EmptiedValue
<1>4. Same(w, v, DOMAIN w.array \ {a})  BY <1>1, PreservedSame
<1> QED BY <1>1, <1>3, <1>4 DEF Becomes

(* An array takes what the temporary held (array::operator=). *)
LEMMA ReplaceBecomes ==
    ASSUME NEW u, Settled(u), NEW w, Sound(w), NEW x, Gains(u, Temp, w, x), NEW a \in DOMAIN u.array,
           NEW v, v = Replace(w, a)
    PROVE  Becomes(u, a, v, x)
<1> DEFINE m == MoveAssign(w, a, Temp)
<1>1. /\ DOMAIN w.array = DOMAIN u.array \cup {Temp} /\ ValueOf(w, Temp) = x
      /\ \A b \in DOMAIN u.array : ValueOf(w, b) = ValueOf(u, b)
    BY DEF Gains, Added, Same
<1>2. Temp \notin DOMAIN u.array /\ a # Temp  BY NamesAssumption DEF Settled
<1>3. v = Destroy(m, Temp)  BY DEF Replace
<1>4. /\ Sound(m) /\ DOMAIN m.array = DOMAIN w.array
      /\ a # Temp => ValueOf(m, a) = ValueOf(w, Temp)
      /\ Same(w, m, DOMAIN w.array \ {a, Temp})
    <2>1. a \in DOMAIN w.array /\ Temp \in DOMAIN w.array  BY <1>1
    <2> HIDE DEF m
    <2> QED BY <2>1, MoveAssignValues DEF m
<1> HIDE DEF m
<1>5. DOMAIN v.array = DOMAIN m.array \ {Temp} /\ Same(m, v, DOMAIN m.array \ {Temp})
    <2>1. Temp \in DOMAIN m.array  BY <1>1, <1>4
    <2> QED BY ONLY <1>3, <1>4, <2>1, DestroyValues
<1>6. DOMAIN v.array = DOMAIN u.array  BY <1>1, <1>2, <1>4, <1>5
<1>7. \A b \in DOMAIN u.array : ValueOf(v, b) = ValueOf(m, b)  BY <1>5, <1>6 DEF Same
<1>8. ValueOf(v, a) = x  BY <1>1, <1>2, <1>4, <1>7
<1>9. \A b \in DOMAIN u.array \ {a} : ValueOf(m, b) = ValueOf(w, b)  BY <1>1, <1>2, <1>4 DEF Same
<1>10. Same(u, v, DOMAIN u.array \ {a})  BY <1>1, <1>7, <1>9 DEF Same
<1> QED BY <1>6, <1>8, <1>10 DEF Becomes

(* The value of an array of which the first k elements were assigned. *)
Partly(x, y, k) ==
    [extents |-> x.extents,
     element |-> [ix \in Values!Box(x.extents) |->
                      IF Values!Ordinal(x.extents, ix) < k THEN y.element[ix] ELSE x.element[ix]]]

LEMMA RefillBecomes ==
    ASSUME NEW w, Sound(w), NEW a \in DOMAIN w.array, NEW b \in DOMAIN w.array,
           ExtentsOf(w, a) = ExtentsOf(w, b), NEW k \in Nat, k <= NumElements(w.array[a].layout),
           NEW v, v = Overwritten(w, a, CellsOf(w, b), k)
    PROVE  Sound(v) /\ Becomes(w, a, v, Partly(ValueOf(w, a), ValueOf(w, b), k))
<1> DEFINE L == w.array[a].layout
           M == w.array[b].layout
           x == ValueOf(w, a)
           y == ValueOf(w, b)
           n == NumElements(L)
           f == [ix \in Names(L) |-> IF Values!Ordinal(x.extents, ix) < k THEN y.element[ix] ELSE x.element[ix]]
<1>1. /\ x.extents = Extensions(L) /\ Values!Box(Extensions(L)) = Names(L)
      /\ \A ix \in Names(L) : x.element[ix] = Element(w, a, ix)
      /\ ExtentsOf(w, a) = Extensions(L) /\ L \in ArrayLayouts
    BY ValueFacts
<1>2. /\ \A ix \in Names(M) : y.element[ix] = Element(w, b, ix)
      /\ ExtentsOf(w, b) = Extensions(M) /\ M \in ArrayLayouts
    BY ValueFacts
<1>3. \A ix : Element(w, a, ix) = CellsOf(w, a)[Position(L, ix) + 1]  BY DEF Element
<1>4. \A ix : Element(w, b, ix) = CellsOf(w, b)[Position(M, ix) + 1]  BY DEF Element
<1>5. /\ Sound(v) /\ v.array = w.array
      /\ \A d \in DOMAIN w.array : d # a => CellsOf(v, d) = CellsOf(w, d)
      /\ RefilledTo(w, a, CellsOf(w, b), k, v)
    BY RefillSound
<1>6. \A ix : Element(v, a, ix) = CellsOf(v, a)[Position(L, ix) + 1]  BY <1>5 DEF Element
<1>7. n \in Nat  BY WorldFacts
<1>8. \A i \in 1 .. n : CellsOf(v, a)[i] = IF i <= k THEN CellsOf(w, b)[i] ELSE CellsOf(w, a)[i]
    BY <1>5 DEF RefilledTo
<1>9. L = v.array[a].layout /\ a \in DOMAIN v.array  BY <1>5
<1>10. f = [ix \in Names(L) |-> f[ix]]
    <2> HIDE DEF L, x, y
    <2> QED OBVIOUS
<1>11. \A ix \in Names(L) :
           f[ix] = IF Values!Ordinal(x.extents, ix) < k THEN y.element[ix] ELSE x.element[ix]
    OBVIOUS
<1>12. Partly(x, y, k) = [extents |-> Extensions(L), element |-> f]
    <2> HIDE DEF L, x, y
    <2> QED BY <1>1 DEF Partly
<1>0. n = NumElements(L) /\ Names(M) = Names(L)  BY <1>1, <1>2 DEF Names
<1> HIDE DEF L, M, x, y, f, n
<1>13. ASSUME NEW ix \in Names(L) PROVE Element(v, a, ix) = f[ix]
    <2> DEFINE q == Position(L, ix)
    <2>1. q \in 0 .. n - 1  BY <1>0, <1>1, DenseInBlock DEF Names
    <2>2. Position(M, ix) = q  BY <1>1, <1>2, SamePositions
    <2>3. Values!Ordinal(x.extents, ix) = q  BY <1>1, OrdinalPosition
    <2>4. /\ y.element[ix] = CellsOf(w, b)[q + 1] /\ x.element[ix] = CellsOf(w, a)[q + 1]
        BY <1>0, <1>1, <1>2, <1>3, <1>4, <2>2
    <2>5. Element(v, a, ix) = CellsOf(v, a)[q + 1]  BY <1>6
    <2>6. f[ix] = IF q < k THEN CellsOf(w, b)[q + 1] ELSE CellsOf(w, a)[q + 1]
        BY <1>11, <2>3, <2>4
    <2> HIDE DEF q
    <2>7. q + 1 \in 1 .. n /\ (q + 1 <= k <=> q < k)  BY <1>7, <2>1
    <2>8. CellsOf(v, a)[q + 1] = IF q + 1 <= k THEN CellsOf(w, b)[q + 1] ELSE CellsOf(w, a)[q + 1]
        BY <1>8, <2>7
    <2> QED BY <2>5, <2>6, <2>7, <2>8
<1>14. ValueOf(v, a) = [extents |-> Extensions(L), element |-> f]
    BY ONLY <1>5, <1>9, <1>10, <1>13, ValueMade
<1>15. Same(w, v, DOMAIN w.array \ {a})
    <2>1. \A d \in DOMAIN w.array \ {a} : v.array[d] = w.array[d] /\ CellsOf(v, d) = CellsOf(w, d)
        BY <1>5
    <2> QED BY <1>5, <2>1, PreservedSame
<1>16. Becomes(w, a, v, Partly(x, y, k))  BY <1>5, <1>12, <1>14, <1>15 DEF Becomes
<1> QED BY <1>5, <1>16 DEF x, y

(* All of them: the array has the other's value. *)
LEMMA PartlyAll ==
    ASSUME NEW w, Sound(w), NEW a \in DOMAIN w.array, NEW b \in DOMAIN w.array,
           ExtentsOf(w, a) = ExtentsOf(w, b), NEW k, k = NumElements(w.array[b].layout)
    PROVE  /\ Partly(ValueOf(w, a), ValueOf(w, b), k) = ValueOf(w, b)
           /\ k \in Nat /\ k = NumElements(w.array[a].layout)
<1> DEFINE M == w.array[b].layout
           x == ValueOf(w, a)
           y == ValueOf(w, b)
<1>1. k \in Nat /\ k = NumElements(w.array[a].layout)  BY WorldFacts, SameExtents
<1>2. x.extents = ExtentsOf(w, a)  BY DEF ValueOf
<1>3. /\ y = [extents |-> Extensions(M), element |-> [ix \in Names(M) |-> CellsOf(w, b)[Position(M, ix) + 1]]]
      /\ Values!Box(Extensions(M)) = Names(M) /\ ExtentsOf(w, b) = Extensions(M)
      /\ M \in ArrayLayouts
    BY ValueFacts
<1>4. x.extents = Extensions(M)  BY <1>2, <1>3
<1>5. k = NumElements(M)  OBVIOUS
<1> HIDE DEF M, x, y
<1>6. y.extents = Extensions(M) /\ y.element = [ix \in Names(M) |-> y.element[ix]]
    BY <1>3
<1>7. \A ix \in Names(M) : Values!Ordinal(Extensions(M), ix) < k
    <2> SUFFICES ASSUME NEW ix \in Names(M) PROVE Values!Ordinal(Extensions(M), ix) < k
        OBVIOUS
    <2>1. Position(M, ix) \in 0 .. k - 1  BY <1>3, <1>5, DenseInBlock DEF Names
    <2>2. Values!Ordinal(Extensions(M), ix) = Position(M, ix)  BY <1>3, OrdinalPosition
    <2> QED BY <1>1, <2>1, <2>2
<1>8. [ix \in Values!Box(x.extents) |->
           IF Values!Ordinal(x.extents, ix) < k THEN y.element[ix] ELSE x.element[ix]]
      = [ix \in Names(M) |-> y.element[ix]]
    BY <1>3, <1>4, <1>7
<1>9. y = [extents |-> y.extents, element |-> y.element]  BY <1>3
<1>10. Partly(x, y, k) = y  BY <1>4, <1>6, <1>8, <1>9 DEF Partly
<1> QED BY <1>1, <1>10 DEF x, y

LEMMA AssignBecomes ==
    ASSUME NEW w, Settled(w), NEW a \in DOMAIN w.array, NEW b \in DOMAIN w.array,
           NEW p \in Places(w, NumElements(w.array[b].layout)),
           NEW v, v = Assign(w, a, b, p)
    PROVE  Becomes(w, a, v, ValueOf(w, b))
<1>1. Sound(w) /\ DOMAIN w.array \subseteq Arrays  BY DEF Settled
<1>2. CASE ExtentsOf(w, a) = ExtentsOf(w, b)
    <2> DEFINE k == NumElements(w.array[b].layout)
    <2>1. v = Overwritten(w, a, CellsOf(w, b), k)  BY <1>2 DEF Assign, Refill
    <2>2. Partly(ValueOf(w, a), ValueOf(w, b), k) = ValueOf(w, b)  BY <1>1, <1>2, PartlyAll
    <2>3. k \in Nat /\ k <= NumElements(w.array[a].layout)
        <3>1. k \in Nat /\ k = NumElements(w.array[a].layout)  BY <1>1, <1>2, PartlyAll
        <3> QED BY <3>1
    <2> HIDE DEF k
    <2>4. Becomes(w, a, v, Partly(ValueOf(w, a), ValueOf(w, b), k))
        BY ONLY <1>1, <1>2, <2>1, <2>3, RefillBecomes
    <2> QED BY <2>2, <2>4
<1>3. CASE ExtentsOf(w, a) # ExtentsOf(w, b)
    <2> DEFINE al == w.array[b].alloc
               c == Copy(w, Temp, b, al, p)
    <2>1. v = Replace(c, a)  BY <1>3 DEF Assign
    <2>2. Temp \in (Arrays \cup {Temp}) \ DOMAIN w.array  BY <1>1, NamesAssumption
    <2>3. al \in Allocators  BY <1>1, WorldFacts
    <2> HIDE DEF al
    <2>4. Sound(c)  BY <1>1, <2>2, <2>3, CopySound
    <2>5. Gains(w, Temp, c, ValueOf(w, b))
        <3> HIDE DEF c
        <3> QED BY <1>1, <2>2, <2>3, CopyGains DEF c
    <2> HIDE DEF c
    <2>6. Settled(w)  OBVIOUS
    <2> QED BY ONLY <2>1, <2>4, <2>5, <2>6, ReplaceBecomes
<1> QED BY <1>2, <1>3

(* An array takes k elements of a temporary, which is destroyed. *)
LEMMA RefillFromTempBecomes ==
    ASSUME NEW u, Settled(u), NEW w, Sound(w), NEW y, Gains(u, Temp, w, y), NEW a \in DOMAIN u.array,
           ExtentsOf(w, a) = ExtentsOf(w, Temp),
           NEW k \in Nat, k <= NumElements(w.array[a].layout),
           NEW v, v = Destroy(Overwritten(w, a, CellsOf(w, Temp), k), Temp)
    PROVE  Becomes(u, a, v, Partly(ValueOf(u, a), y, k))
<1> DEFINE m == Overwritten(w, a, CellsOf(w, Temp), k)
<1>1. /\ DOMAIN w.array = DOMAIN u.array \cup {Temp} /\ ValueOf(w, Temp) = y
      /\ \A b \in DOMAIN u.array : ValueOf(w, b) = ValueOf(u, b)
    BY DEF Gains, Added, Same
<1>2. Temp \notin DOMAIN u.array /\ a # Temp  BY NamesAssumption DEF Settled
<1>3. v = Destroy(m, Temp)  OBVIOUS
<1>4. a \in DOMAIN w.array /\ Temp \in DOMAIN w.array  BY <1>1
<1>5. Sound(m) /\ Becomes(w, a, m, Partly(ValueOf(w, a), ValueOf(w, Temp), k))
    <2> HIDE DEF m
    <2> QED BY <1>4, RefillBecomes DEF m
<1> HIDE DEF m
<1>6. /\ DOMAIN m.array = DOMAIN w.array /\ ValueOf(m, a) = Partly(ValueOf(u, a), y, k)
      /\ \A b \in DOMAIN w.array \ {a} : ValueOf(m, b) = ValueOf(w, b)
    BY <1>1, <1>5 DEF Becomes, Same
<1>7. DOMAIN v.array = DOMAIN m.array \ {Temp} /\ Same(m, v, DOMAIN m.array \ {Temp})
    <2>1. Temp \in DOMAIN m.array  BY <1>4, <1>6
    <2> QED BY ONLY <1>3, <1>5, <2>1, DestroyValues
<1>8. DOMAIN v.array = DOMAIN u.array  BY <1>1, <1>2, <1>6, <1>7
<1>9. \A b \in DOMAIN u.array : ValueOf(v, b) = ValueOf(m, b)  BY <1>7, <1>8 DEF Same
<1>10. ValueOf(v, a) = Partly(ValueOf(u, a), y, k)  BY <1>6, <1>9
<1>11. Same(u, v, DOMAIN u.array \ {a})  BY <1>1, <1>6, <1>9 DEF Same
<1> QED BY <1>8, <1>10, <1>11 DEF Becomes

(* Elements keep their indices where the old and the new extensions meet (array::reextent). *)
LEMMA ResizedBecomes ==
    ASSUME NEW w, Settled(w), NEW a \in DOMAIN w.array, NEW xs, NEW L, L = LayoutOf(xs), L \in Layouts,
           NEW e \in Elements, NEW p \in Places(w, NumElements(L)),
           NEW v, v = Resized(w, a, xs, e, p)
    PROVE  Becomes(w, a, v, [extents |-> Extensions(L),
                             element |-> [ix \in Names(L) |->
                                 IF ix \in DOMAIN ValueOf(w, a).element THEN ValueOf(w, a).element[ix] ELSE e]])
<1> DEFINE al == w.array[a].alloc
           old == ValueOf(w, a)
           made == Construct(w, Temp, al, p, L, Filled(L, e))
           f == Common(made, Temp, a)
           u == Written(made, Temp, f)
           s == Swap(u, a, Temp)
           x == [extents |-> Extensions(L), element |-> [ix \in Names(L) |-> e]]
           g == [ix \in Names(L) |-> IF ix \in DOMAIN old.element THEN old.element[ix] ELSE e]
           y == [extents |-> Extensions(L), element |-> g]
<1>1. Sound(w) /\ DOMAIN w.array \subseteq Arrays  BY DEF Settled
<1>2. v = Destroy(s, Temp)  BY Zenon DEF Resized
<1>3. Temp \in (Arrays \cup {Temp}) \ DOMAIN w.array /\ Temp # a  BY <1>1, NamesAssumption
<1>4. al \in Allocators  BY <1>1, WorldFacts
<1>5. g = [ix \in Names(L) |-> g[ix]]
      /\ \A ix \in Names(L) : g[ix] = IF ix \in DOMAIN old.element THEN old.element[ix] ELSE e
    <2> HIDE DEF old
    <2> QED OBVIOUS
<1> HIDE DEF al, made, x
<1>6. Sound(made) /\ Added(w, Temp, made) /\ made.array[Temp] = [alloc |-> al, base |-> p, layout |-> L]
    BY <1>1, <1>3, <1>4, FilledSound DEF made
<1>7. Gains(w, Temp, made, x)  BY <1>1, <1>3, <1>4, FilledGains DEF made, x
<1>8. /\ DOMAIN made.array = DOMAIN w.array \cup {Temp} /\ ValueOf(made, Temp) = x
      /\ \A b \in DOMAIN w.array : ValueOf(made, b) = ValueOf(w, b)
    BY <1>7 DEF Gains, Added, Same
<1>9. Temp \in DOMAIN made.array /\ a \in DOMAIN made.array /\ L = made.array[Temp].layout
    BY <1>6, <1>8
<1>10. /\ Box(ExtentsOf(made, Temp)) = Names(L)
       /\ \A ix \in Names(L) : ValueOf(made, Temp).element[ix] = Element(made, Temp, ix)
    BY <1>6, <1>9, ValueFacts
<1>11. ValueOf(made, a) = old  BY <1>8
<1>12. /\ DOMAIN old.element = Box(ExtentsOf(made, a))
       /\ \A ix \in Box(ExtentsOf(made, a)) : old.element[ix] = Element(made, a, ix)
    <2> HIDE DEF old
    <2>1. /\ DOMAIN ValueOf(made, a).element = Names(made.array[a].layout)
          /\ Box(ExtentsOf(made, a)) = Names(made.array[a].layout)
          /\ \A ix \in Names(made.array[a].layout) : ValueOf(made, a).element[ix] = Element(made, a, ix)
        BY <1>6, <1>9, ValueFacts
    <2> QED BY <1>11, <2>1
<1>13. /\ DOMAIN f = Names(L) \cap DOMAIN old.element
       /\ \A ix \in DOMAIN f : f[ix] = old.element[ix] /\ f[ix] \in Elements
    <2>1. f = [ix \in Box(ExtentsOf(made, Temp)) \cap Box(ExtentsOf(made, a)) |-> Element(made, a, ix)]
        BY DEF Common
    <2>2. \A ix \in Box(ExtentsOf(made, a)) : Element(made, a, ix) \in Elements
        BY <1>6, <1>9, ElementFacts
    <2> HIDE DEF f, old
    <2> QED BY <1>10, <1>12, <2>1, <2>2
<1>14. \A ix \in Names(L) : Element(made, Temp, ix) = e
    <2>1. x.element = [ix \in Names(L) |-> e]  BY DEF x
    <2> QED BY <1>8, <1>10, <2>1
<1> HIDE DEF f, old, g
<1>15. \A ix \in Names(L) : g[ix] = IF ix \in DOMAIN f THEN f[ix] ELSE Element(made, Temp, ix)
    BY <1>5, <1>13, <1>14
<1>16. \A ix \in DOMAIN f : f[ix] \in Elements  BY <1>13
<1>17. DOMAIN f \subseteq Names(L)  BY <1>13
<1>18. g = [ix \in Names(L) |-> g[ix]]  BY <1>5
<1>19. u = Written(made, Temp, f)  OBVIOUS
<1> HIDE DEF u
<1>20. Sound(u) /\ Becomes(made, Temp, u, [extents |-> Extensions(L), element |-> g])
    BY ONLY <1>6, <1>9, <1>15, <1>16, <1>17, <1>18, <1>19, WrittenBecomes
<1> HIDE DEF y
<1>21. /\ DOMAIN u.array = DOMAIN made.array /\ ValueOf(u, Temp) = y
       /\ \A b \in DOMAIN made.array \ {Temp} : ValueOf(u, b) = ValueOf(made, b)
    BY <1>20 DEF Becomes, Same, y
<1>22. /\ Sound(s) /\ DOMAIN s.array = DOMAIN u.array /\ ValueOf(s, a) = ValueOf(u, Temp)
       /\ Same(u, s, DOMAIN u.array \ {a, Temp})
    <2>1. a \in DOMAIN u.array /\ Temp \in DOMAIN u.array  BY <1>9, <1>21
    <2> HIDE DEF s
    <2> QED BY <1>20, <2>1, SwapValues DEF s
<1> HIDE DEF s
<1>23. DOMAIN v.array = DOMAIN s.array \ {Temp} /\ Same(s, v, DOMAIN s.array \ {Temp})
    <2>1. Temp \in DOMAIN s.array  BY <1>9, <1>21, <1>22
    <2> QED BY ONLY <1>2, <1>22, <2>1, DestroyValues
<1>24. DOMAIN v.array = DOMAIN w.array  BY <1>3, <1>8, <1>21, <1>22, <1>23
<1>25. \A b \in DOMAIN w.array : ValueOf(v, b) = ValueOf(s, b)  BY <1>3, <1>23, <1>24 DEF Same
<1>26. ValueOf(v, a) = y  BY <1>21, <1>22, <1>25
<1>27. Same(w, v, DOMAIN w.array \ {a})
    <2>1. \A b \in DOMAIN w.array \ {a} : ValueOf(s, b) = ValueOf(u, b)
        BY <1>3, <1>8, <1>21, <1>22 DEF Same
    <2>2. \A b \in DOMAIN w.array \ {a} : ValueOf(u, b) = ValueOf(w, b)
        BY <1>3, <1>8, <1>21
    <2> QED BY <1>25, <2>1, <2>2 DEF Same
<1>28. Becomes(w, a, v, y)  BY <1>24, <1>26, <1>27 DEF Becomes
<1> QED BY <1>28 DEF y, g, old

LEMMA BecomesTwice ==
    ASSUME NEW w, NEW u, NEW v, NEW x, NEW y, NEW a \in DOMAIN w.array,
           Becomes(w, a, u, x), Becomes(u, a, v, y)
    PROVE  Becomes(w, a, v, y)
BY DEF Becomes, Same

(* An archive is read into an array of the extensions that were saved. *)
LEMMA LoadBecomes ==
    ASSUME Default \in Elements,
           NEW w, Settled(w), NEW a \in DOMAIN w.array, NEW b \in DOMAIN w.array,
           NEW p \in Places(w, NumElements(w.array[b].layout)),
           NEW u, u = IF ExtentsOf(w, b) = ExtentsOf(w, a) THEN w
                      ELSE Resized(Clear(w, a), a, ExtentsOf(w, b), Default, p),
           NEW v, v = Written(u, a, [ix \in Box(ExtentsOf(w, b)) |-> Element(w, b, ix)])
    PROVE  Becomes(w, a, v, ValueOf(w, b))
<1> DEFINE M == w.array[b].layout
           y == ValueOf(w, b)
           xs == ExtentsOf(w, b)
           f == [ix \in Box(xs) |-> Element(w, b, ix)]
           N == u.array[a].layout
<1>1. Sound(w) /\ DOMAIN w.array \subseteq Arrays  BY DEF Settled
<1>2. /\ y = [extents |-> Extensions(M), element |-> [ix \in Names(M) |-> CellsOf(w, b)[Position(M, ix) + 1]]]
      /\ xs = Extensions(M) /\ Box(xs) = Names(M)
      /\ M \in Layouts
    BY <1>1, ValueFacts
<1>3. \A ix : Element(w, b, ix) = CellsOf(w, b)[Position(M, ix) + 1]  BY DEF Element
<1>4. \A ix \in Box(xs) : Element(w, b, ix) \in Elements  BY <1>1, ElementFacts
<1>5. LayoutOf(xs) \in Layouts /\ NumElements(LayoutOf(xs)) = NumElements(M) /\ Extensions(LayoutOf(xs)) = xs
    <2> HIDE DEF M, xs
    <2> QED BY <1>2, LayoutFacts
<1>6. v = Written(u, a, f)  OBVIOUS
<1> HIDE DEF y, M, xs
<1>7. /\ f = [ix \in Names(M) |-> f[ix]] /\ DOMAIN f = Names(M)
      /\ \A ix \in DOMAIN f : f[ix] \in Elements
      /\ y = [extents |-> xs, element |-> f]
    <2>1. f = [ix \in Names(M) |-> CellsOf(w, b)[Position(M, ix) + 1]]  BY <1>2, <1>3
    <2>2. \A ix \in DOMAIN f : f[ix] \in Elements  BY <1>4
    <2> HIDE DEF f
    <2> QED BY <1>2, <2>1, <2>2
<1> HIDE DEF f, N
<1>8. ASSUME xs = ExtentsOf(w, a)
      PROVE  Sound(u) /\ a \in DOMAIN u.array /\ Extensions(N) = xs /\ u = w
    <2>1. u = w  BY <1>8 DEF xs
    <2> QED BY <1>1, <1>8, <2>1 DEF N, ExtentsOf
<1>9. ASSUME xs # ExtentsOf(w, a)
      PROVE  /\ Sound(u) /\ a \in DOMAIN u.array /\ Extensions(N) = xs
             /\ \E x : Becomes(w, a, u, x)
    <2> DEFINE c == Clear(w, a)
               L == LayoutOf(xs)
               x == [extents |-> Extensions(L),
                     element |-> [ix \in Names(L) |->
                                 IF ix \in DOMAIN ValueOf(c, a).element THEN ValueOf(c, a).element[ix]
                                 ELSE Default]]
    <2>1. u = Resized(c, a, xs, Default, p)  BY <1>9 DEF xs
    <2>2. /\ Sound(c) /\ DOMAIN c.array = DOMAIN w.array
          /\ DOMAIN c.heap \subseteq DOMAIN w.heap
        BY <1>1, ClearSound
    <2>3. Becomes(w, a, c, Values!Nothing(Rank))
        <3> HIDE DEF c
        <3> QED BY <1>1, ClearBecomes DEF c
    <2> HIDE DEF c
    <2>4. Settled(c) /\ a \in DOMAIN c.array  BY <1>1, <2>2 DEF Settled
    <2>5. p \in Places(c, NumElements(LayoutOf(xs)))  BY <1>5, <2>2 DEF Places, M
    <2>6. Default \in Elements  OBVIOUS
    <2>7. /\ Settled(u) /\ DOMAIN u.array = DOMAIN c.array /\ u.array[a].layout = LayoutOf(xs)
        BY ONLY <1>5, <2>1, <2>4, <2>5, <2>6, ResizedSettles
    <2>8. L = LayoutOf(xs) /\ L \in Layouts /\ p \in Places(c, NumElements(L))  BY <1>5, <2>5
    <2>9. Becomes(c, a, u, x)
        <3> HIDE DEF L
        <3> QED BY ONLY <2>1, <2>4, <2>6, <2>8, ResizedBecomes
    <2> HIDE DEF x
    <2>10. Becomes(w, a, u, x)  BY <2>3, <2>9, BecomesTwice
    <2>11. Extensions(N) = xs  BY <1>5, <2>7 DEF N
    <2> QED BY <2>2, <2>4, <2>7, <2>10, <2>11 DEF Settled
<1>10. Sound(u) /\ a \in DOMAIN u.array /\ Extensions(N) = xs  BY <1>8, <1>9
<1>11. Names(N) = Names(M)  BY <1>2, <1>10 DEF Names
<1>12. N = u.array[a].layout  BY DEF N
<1>13. DOMAIN f \subseteq Names(N) /\ f = [ix \in Names(N) |-> f[ix]]  BY <1>7, <1>11
<1>14. \A ix \in Names(N) : f[ix] = IF ix \in DOMAIN f THEN f[ix] ELSE Element(u, a, ix)
    BY <1>7, <1>11
<1>15. \A ix \in DOMAIN f : f[ix] \in Elements  BY <1>7
<1>16. Becomes(u, a, v, [extents |-> Extensions(N), element |-> f])
    BY ONLY <1>6, <1>10, <1>12, <1>13, <1>14, <1>15, WrittenBecomes
<1>17. Becomes(u, a, v, y)  BY <1>7, <1>10, <1>16
<1>18. Becomes(w, a, v, y)
    <2>1. CASE xs = ExtentsOf(w, a)
        BY <1>8, <1>17, <2>1
    <2>2. CASE xs # ExtentsOf(w, a)
        <3>1. PICK x : Becomes(w, a, u, x)  BY <1>9, <2>2
        <3> QED BY <1>17, <3>1, BecomesTwice
    <2> QED BY <2>1, <2>2
<1> QED BY <1>18 DEF y

(* An array is given another layout, of as many elements (array::reshape, array::reindex). *)
LEMMA RelaidBecomes ==
    ASSUME NEW w, Settled(w), NEW a \in DOMAIN w.array, NEW L \in Layouts,
           NumElements(L) = NumElements(w.array[a].layout),
           NEW v, v = [w EXCEPT !.array[a].layout = L],
           NEW f, f = [ix \in Names(L) |-> f[ix]],
           \A ix \in Names(L) : CellsOf(w, a)[Position(L, ix) + 1] = f[ix]
    PROVE  Becomes(w, a, v, [extents |-> Extensions(L), element |-> f])
<1> DEFINE h == [w.array[a] EXCEPT !.layout = L]
<1>1. /\ Sound(w) /\ w = [array |-> w.array, heap |-> w.heap]
      /\ w.array \in [DOMAIN w.array -> Handles]
    BY DEF Settled, Sound, IsWorld
<1>2. v = [array |-> [w.array EXCEPT ![a] = h], heap |-> w.heap]  BY <1>1
<1>3. w.array[a] \in Handles  BY <1>1
<1>4. h.layout = L /\ h.base = w.array[a].base  BY <1>3 DEF Handles
<1> HIDE DEF h
<1>5. /\ DOMAIN v.array = DOMAIN w.array /\ v.heap = w.heap
      /\ v.array[a] = h /\ \A b \in DOMAIN w.array \ {a} : v.array[b] = w.array[b]
    BY <1>1, <1>2
<1>6. Sound(v)  BY RelaidSettles DEF Settled
<1>7. CellsOf(v, a) = CellsOf(w, a)  BY <1>4, <1>5 DEF CellsOf
<1>8. L = v.array[a].layout /\ a \in DOMAIN v.array  BY <1>4, <1>5
<1>9. \A ix \in Names(L) : Element(v, a, ix) = f[ix]  BY <1>7, <1>8 DEF Element
<1>10. ValueOf(v, a) = [extents |-> Extensions(L), element |-> f]
    BY ONLY f = [ix \in Names(L) |-> f[ix]], <1>6, <1>8, <1>9, ValueMade
<1>11. Same(w, v, DOMAIN w.array \ {a})
    <2>1. \A b \in DOMAIN w.array \ {a} : v.array[b] = w.array[b] /\ CellsOf(v, b) = CellsOf(w, b)
        BY <1>5 DEF CellsOf
    <2> QED BY <1>1, <1>5, <1>6, <2>1, PreservedSame
<1> QED BY <1>5, <1>10, <1>11 DEF Becomes

LEMMA LayoutValues ==
    ASSUME NEW xs \in Seq(Intervals), NEW L, L = LayoutOf(xs)
    PROVE  /\ Extensions(L) = Values!Normal(xs) /\ Values!Box(Values!Normal(xs)) = Names(L)
           /\ Values!Box(xs) = Names(L) /\ L \in ArrayLayouts
<1>1. Extensions(L) = Values!Normal(xs)  BY LayoutNormal
<1>2. Values!Normal(xs) \in Seq(Intervals) /\ Box(Values!Normal(xs)) = Box(xs)  BY NormalFacts
<1>3. Values!Box(Values!Normal(xs)) = Box(Values!Normal(xs)) /\ Values!Box(xs) = Box(xs)
    BY <1>2, ValueBox
<1>4. L \in ArrayLayouts  BY NewTold
<1> QED BY <1>1, <1>2, <1>3, <1>4 DEF Names

(* Reshaping keeps the order of the elements: each is where its predecessors put it. *)
InOrder(old, xs, ix) ==
    CHOOSE jx \in Values!Box(old.extents) :
        Values!Ordinal(old.extents, jx) = Values!Ordinal(Values!Normal(xs), ix)
Reordered(old, xs) ==
    [extents |-> Values!Normal(xs),
     element |-> [ix \in Values!Box(Values!Normal(xs)) |-> old.element[InOrder(old, xs, ix)]]]

LEMMA ReshapeBecomes ==
    ASSUME NEW w, Settled(w), NEW a \in DOMAIN w.array, NEW xs \in Shapes, NEW L, L = LayoutOf(xs),
           NumElements(L) = NumElements(w.array[a].layout),
           NEW v, v = [w EXCEPT !.array[a].layout = L],
           NEW old, old = ValueOf(w, a)
    PROVE  /\ Cardinality(Values!Box(xs)) = Cardinality(Values!Box(old.extents))
           /\ Becomes(w, a, v, Reordered(old, xs))
<1> DEFINE M == w.array[a].layout
           pick(ix) == InOrder(old, xs, ix)
           f == [ix \in Names(L) |-> old.element[pick(ix)]]
           n == NumElements(L)
<1>1. Sound(w)  BY DEF Settled
<1>2. /\ old.extents = Extensions(M) /\ Values!Box(Extensions(M)) = Names(M)
      /\ \A jx \in Names(M) : old.element[jx] = Element(w, a, jx)
      /\ M \in ArrayLayouts
    BY <1>1, ValueFacts
<1>3. xs \in Seq(Intervals) /\ L \in Layouts  BY ShapeFacts
<1>4. /\ Extensions(L) = Values!Normal(xs) /\ Values!Box(Values!Normal(xs)) = Names(L)
      /\ Values!Box(xs) = Names(L) /\ L \in ArrayLayouts
    BY <1>3, LayoutValues
<1>5. n = NumElements(L) /\ n = NumElements(M)  OBVIOUS
<1>6. \A jx : Element(w, a, jx) = CellsOf(w, a)[Position(M, jx) + 1]  BY DEF Element
<1>7. f = [ix \in Names(L) |-> f[ix]] /\ \A ix \in Names(L) : f[ix] = old.element[pick(ix)]
    OBVIOUS
<1>8. v = [w EXCEPT !.array[a].layout = L]  OBVIOUS
<1> HIDE DEF f
<1>9. Cardinality(Names(L)) = n /\ Cardinality(Names(M)) = n
    <2> HIDE DEF M, n
    <2> QED BY <1>2, <1>4, <1>5, LayoutTuples
<1>10. ASSUME NEW ix \in Names(L) PROVE CellsOf(w, a)[Position(L, ix) + 1] = f[ix]
    <2> DEFINE q == Position(L, ix)
    <2>1. Values!Ordinal(Values!Normal(xs), ix) = q  BY <1>4, OrdinalPosition
    <2>2. \A jx \in Names(M) : Values!Ordinal(Extensions(M), jx) = Position(M, jx)
        <3> HIDE DEF M
        <3> QED BY <1>2, OrdinalPosition
    <2>3. q \in 0 .. n - 1
        <3> HIDE DEF n
        <3> QED BY <1>4, <1>5, DenseInBlock DEF Names
    <2>4. \E jx \in Names(M) : Position(M, jx) = q
        <3>1. \A r \in 0 .. NumElements(M) - 1 : \E jx \in Names(M) : Position(M, jx) = r
            <4> HIDE DEF M
            <4> QED BY <1>2, LayoutTuples
        <3> HIDE DEF M, q, n
        <3> QED BY <1>5, <2>3, <3>1
    <2>5. pick(ix) \in Names(M) /\ Position(M, pick(ix)) = q
        <3>1. \E jx \in Values!Box(old.extents) :
                  Values!Ordinal(old.extents, jx) = Values!Ordinal(Values!Normal(xs), ix)
            <4> HIDE DEF M, q
            <4> QED BY <1>2, <2>1, <2>2, <2>4
        <3>2. /\ pick(ix) \in Values!Box(old.extents)
              /\ Values!Ordinal(old.extents, pick(ix)) = Values!Ordinal(Values!Normal(xs), ix)
            BY <3>1 DEF InOrder
        <3> HIDE DEF M, q, pick
        <3> QED BY <1>2, <2>1, <2>2, <3>2
    <2> HIDE DEF M, q, pick
    <2>6. old.element[pick(ix)] = CellsOf(w, a)[q + 1]  BY <1>2, <1>6, <2>5
    <2> QED BY <1>7, <2>6 DEF q
<1>11. Becomes(w, a, v, [extents |-> Extensions(L), element |-> f])
    <2>1. NumElements(L) = NumElements(w.array[a].layout) /\ Settled(w)  OBVIOUS
    <2> QED BY ONLY a \in DOMAIN w.array, <1>3, <1>7, <1>8, <1>10, <2>1, RelaidBecomes
<1>12. f = [ix \in Values!Box(Values!Normal(xs)) |-> old.element[pick(ix)]]
    BY <1>4 DEF f
<1>13. Cardinality(Values!Box(xs)) = Cardinality(Values!Box(old.extents))
    BY <1>2, <1>4, <1>9
<1>14. Becomes(w, a, v, Reordered(old, xs))
    <2>1. [extents |-> Extensions(L), element |-> f] = Reordered(old, xs)
        BY <1>4, <1>12 DEF Reordered
    <2> QED BY <1>11, <2>1
<1> QED BY <1>13, <1>14

(* Reindexing moves the leading indices, and the elements with them. *)
LEMMA ReindexBecomes ==
    ASSUME NEW w, Settled(w), NEW a \in DOMAIN w.array, NEW first \in Int,
           NEW M, M = w.array[a].layout, NEW R, R = Reindexed(M, first),
           NEW v, v = [w EXCEPT !.array[a].layout = R],
           NEW old, old = ValueOf(w, a), NEW by, by = first - old.extents[1][1],
           NEW ys, ys = Values!Normal(Moved(old.extents, by))
    PROVE  /\ R \in Layouts
           /\ Becomes(w, a, v, [extents |-> ys,
                                element |-> [ix \in Values!Box(ys) |-> old.element[MovedBack(ix, by)]]])
<1> DEFINE f == [ix \in Names(R) |-> old.element[MovedBack(ix, by)]]
<1>1. Sound(w)  BY DEF Settled
<1>2. /\ old.extents = Extensions(M) /\ \A jx \in Names(M) : old.element[jx] = Element(w, a, jx)
      /\ M \in Layouts /\ M \in ArrayLayouts /\ Len(M) = Rank /\ Len(M) > 0
    BY <1>1, ValueFacts
<1>3. Told(M)  BY <1>2, LayoutFacts
<1>4. by = first - Extensions(M)[1][1]  BY <1>2
<1>5. /\ R \in ArrayLayouts /\ Len(R) = Len(M) /\ NumElements(R) = NumElements(M)
      /\ Moved(Extensions(M), by) \in Seq(Intervals)
      /\ Extensions(R) = Values!Normal(Moved(Extensions(M), by))
      /\ \A ix \in Names(R) : /\ MovedBack(ix, by) \in Names(M)
                              /\ Position(R, ix) = Position(M, MovedBack(ix, by))
    BY ONLY <1>2, <1>3, <1>4, first \in Int, R = Reindexed(M, first), ReindexNames
<1>6. Told(R)  BY <1>2, <1>3, ReindexTold
<1>7. R \in Layouts  BY <1>2, <1>5, <1>6 DEF Layouts
<1>8. \A jx : Element(w, a, jx) = CellsOf(w, a)[Position(M, jx) + 1]  BY DEF Element
<1>9. f = [ix \in Names(R) |-> f[ix]] /\ \A ix \in Names(R) : f[ix] = old.element[MovedBack(ix, by)]
    OBVIOUS
<1> HIDE DEF f
<1>10. \A ix \in Names(R) : CellsOf(w, a)[Position(R, ix) + 1] = f[ix]
    <2> SUFFICES ASSUME NEW ix \in Names(R) PROVE CellsOf(w, a)[Position(R, ix) + 1] = f[ix]
        OBVIOUS
    <2>1. MovedBack(ix, by) \in Names(M) /\ Position(R, ix) = Position(M, MovedBack(ix, by))  BY <1>5
    <2>2. f[ix] = old.element[MovedBack(ix, by)]  BY <1>9
    <2>3. old.element[MovedBack(ix, by)] = Element(w, a, MovedBack(ix, by))  BY <1>2, <2>1
    <2> QED BY <1>8, <2>1, <2>2, <2>3
<1>11. Becomes(w, a, v, [extents |-> Extensions(R), element |-> f])
    <2>1. NumElements(R) = NumElements(w.array[a].layout)  BY <1>5
    <2> QED BY ONLY Settled(w), a \in DOMAIN w.array, v = [w EXCEPT !.array[a].layout = R],
                    <1>7, <1>9, <1>10, <2>1, RelaidBecomes
<1>12. Extensions(R) = ys  BY <1>2, <1>5
<1>13. Values!Box(ys) = Names(R)
    <2>1. R \in Seq(ArrayDims)  BY <1>7, LayoutFacts
    <2>2. Extensions(R) \in Seq(Intervals)  BY <2>1, ExtensionsFacts
    <2> QED BY <1>12, <2>2, ValueBox DEF Names
<1>14. f = [ix \in Values!Box(ys) |-> old.element[MovedBack(ix, by)]]  BY <1>13 DEF f
<1> QED BY <1>7, <1>11, <1>12, <1>14

(* One element is written. *)
LEMMA WriteBecomes ==
    ASSUME NEW w, Sound(w), NEW a \in DOMAIN w.array, NEW ix \in Box(ExtentsOf(w, a)),
           NEW e \in Elements, NEW v, v = Written(w, a, [jx \in {ix} |-> e]),
           NEW old, old = ValueOf(w, a)
    PROVE  /\ ix \in DOMAIN old.element
           /\ Becomes(w, a, v, [old EXCEPT !.element[ix] = e])
<1> DEFINE L == w.array[a].layout
           f == [jx \in {ix} |-> e]
           g == [old.element EXCEPT ![ix] = e]
<1>1. /\ old = [extents |-> Extensions(L),
                element |-> [jx \in Names(L) |-> CellsOf(w, a)[Position(L, jx) + 1]]]
      /\ DOMAIN old.element = Names(L) /\ \A jx \in Names(L) : old.element[jx] = Element(w, a, jx)
      /\ Box(ExtentsOf(w, a)) = Names(L)
    BY ValueFacts
<1>2. ix \in Names(L) /\ L = w.array[a].layout  BY <1>1
<1>3. v = Written(w, a, f)  OBVIOUS
<1>4. DOMAIN f = {ix} /\ f[ix] = e /\ \A jx \in DOMAIN f : f[jx] \in Elements  OBVIOUS
<1> HIDE DEF L, f
<1>5. old = [extents |-> old.extents, element |-> old.element] /\ old.extents = Extensions(L)
      /\ old.element = [jx \in Names(L) |-> old.element[jx]]
    BY <1>1
<1>6. DOMAIN g = Names(L) /\ g = [jx \in Names(L) |-> g[jx]]  BY <1>5
<1>7. \A jx \in Names(L) : g[jx] = IF jx \in DOMAIN f THEN f[jx] ELSE Element(w, a, jx)
    BY <1>1, <1>2, <1>4, <1>5
<1>8. [old EXCEPT !.element[ix] = e] = [extents |-> Extensions(L), element |-> g]  BY <1>5
<1> HIDE DEF g
<1>9. DOMAIN f \subseteq Names(L)  BY <1>2, <1>4
<1>10. Becomes(w, a, v, [extents |-> Extensions(L), element |-> g])
    BY ONLY Sound(w), a \in DOMAIN w.array, <1>2, <1>3, <1>4, <1>6, <1>7, <1>9, WrittenBecomes
<1> QED BY <1>1, <1>2, <1>8, <1>10

(* Rows: as many as the leading extension counts, ... *)
LEMMA HeadCount ==
    ASSUME NEW w, Sound(w), NEW a \in DOMAIN w.array, NEW xs, xs = ValueOf(w, a).extents
    PROVE  Cardinality(Values!Indices(xs[1])) = Size(Head(w.array[a].layout)) /\ xs = ExtentsOf(w, a)
<1> DEFINE L == w.array[a].layout
           x == Extension(L[1])
<1>1. xs = Extensions(L) /\ ExtentsOf(w, a) = Extensions(L) /\ L \in Seq(ArrayDims) /\ Len(L) > 0
    BY ValueFacts
<1> HIDE DEF L
<1>2. Head(L) = L[1] /\ L[1] \in ArrayDims /\ 1 \in 1 .. Len(L)  BY <1>1
<1>3. xs[1] = x  BY <1>1, <1>2, ExtensionsFacts
<1>4. x \in Intervals /\ Count(x) = Size(L[1])  BY <1>2, ArrayDimFacts
<1> HIDE DEF x
<1>5. x[1] \in Int /\ x[2] \in Int /\ x[1] <= x[2] /\ x[2] - x[1] = Size(L[1])
    BY <1>4 DEF Intervals, Count
<1>6. Values!Indices(x) = x[1] .. x[2] - 1  BY DEF Values!Indices
<1>7. Cardinality(x[1] .. x[2] - 1) = Size(L[1])
    <2> DEFINE i == x[1]
               j == x[2] - 1
    <2>1. i \in Int /\ j \in Int  BY <1>5
    <2>2. i <= j + 1 /\ j + 1 - i = Size(L[1])  BY <1>5
    <2> HIDE DEF i, j
    <2>3. Cardinality(i .. j) = IF i > j THEN 0 ELSE j - i + 1  BY <2>1, FS_Interval
    <2>4. Cardinality(i .. j) = Size(L[1])  BY <2>1, <2>2, <2>3
    <2> QED BY <2>4 DEF i, j
<1> QED BY <1>1, <1>2, <1>3, <1>6, <1>7 DEF L

(* ... and of the extension that an array tells. *)
LEMMA RowExtentTold ==
    ASSUME NEW w, Sound(w), NEW a \in DOMAIN w.array, Rank = 2, NEW n \in Nat \ {0},
           Size(Head(w.array[a].layout)) = n, NEW x \in Intervals,
           ExtentsOf(w, a)[2] = Extension(Dim(1, x[1], Count(x)))
    PROVE  ExtentsOf(w, a)[2] = x
<1> DEFINE L == w.array[a].layout
           xs == Extensions(L)
<1>1. /\ ExtentsOf(w, a) = xs /\ L \in Seq(ArrayDims) /\ Len(L) = 2 /\ L \in Layouts
      /\ xs \in Seq(Intervals) /\ Len(xs) = 2
    BY ValueFacts
<1>2. Told(L)  BY <1>1, LayoutFacts
<1>3. Size(L[1]) = n
    <2>1. Head(L) = L[1]  BY <1>1
    <2> QED BY <2>1
<1> HIDE DEF L
<1>4. Count(x) \in Nat /\ x[1] \in Int  BY DEF Intervals, Count
<1>5. Count(x) > 0
    <2> SUFFICES ASSUME Count(x) = 0 PROVE FALSE
        BY <1>4
    <2>1. xs[2] = <<0, 0>>  BY <1>1 DEF Extension, Dim
    <2>2. Count(xs[2]) = 0  BY <2>1 DEF Count
    <2>3. Untold(xs, 1)
        <3>1. 2 \in 1 .. Len(xs)  BY <1>1
        <3> QED BY <2>2, <3>1 DEF Untold
    <2>4. 1 \in 1 .. Len(L)  BY <1>1
    <2>5. Size(L[1]) = 0  BY <1>1, <1>2, <2>3, <2>4, ToldSizes
    <2> QED BY <1>3, <2>5
<1>6. x[1] * 1 = x[1] /\ Count(x) * 1 = Count(x)  BY <1>4
<1>7. Extension(Dim(1, x[1] * 1, Count(x) * 1)) = x  BY <1>5, ExtensionOfDim
<1> QED BY <1>6, <1>7

RowsOver(xs, rows) ==
    [extents |-> xs, element |-> [ix \in Values!Box(xs) |-> rows[ix[1] - xs[1][1] + 1]]]

LEMMA RowsInPlaceBecomes ==
    ASSUME NEW w, Settled(w), NEW a \in DOMAIN w.array,
           NEW n \in Nat \ {0}, NEW rows \in [1 .. n -> Elements],
           Size(Head(w.array[a].layout)) = Len(rows),
           NEW v, v = Written(w, a, [ix \in Box(ExtentsOf(w, a)) |->
                                         rows[ix[1] - ExtentsOf(w, a)[1][1] + 1]]),
           NEW xs, xs = ValueOf(w, a).extents
    PROVE  Becomes(w, a, v, RowsOver(xs, rows))
<1> DEFINE L == w.array[a].layout
           f == [ix \in Box(ExtentsOf(w, a)) |-> rows[ix[1] - ExtentsOf(w, a)[1][1] + 1]]
<1>1. Sound(w)  BY DEF Settled
<1>2. /\ xs = Extensions(L) /\ ExtentsOf(w, a) = Extensions(L) /\ Box(ExtentsOf(w, a)) = Names(L)
      /\ Values!Box(Extensions(L)) = Names(L)
    BY <1>1, ValueFacts
<1>3. Size(Head(w.array[a].layout)) = n /\ n \in Nat  OBVIOUS
<1>4. \A ix \in Box(ExtentsOf(w, a)) : ix[1] - ExtentsOf(w, a)[1][1] + 1 \in 1 .. n
    BY <1>1, <1>3, RowInPlace
<1>5. v = Written(w, a, f) /\ L = w.array[a].layout  OBVIOUS
<1>6. \A ix \in DOMAIN f : f[ix] \in Elements  BY <1>4
<1> HIDE DEF L
<1>7. f = [ix \in Values!Box(xs) |-> rows[ix[1] - xs[1][1] + 1]]  BY <1>2
<1>8. DOMAIN f = Names(L)  BY <1>2
<1> HIDE DEF f
<1>9. f = [ix \in Names(L) |-> f[ix]]
    <2> DEFINE g == [ix \in Values!Box(xs) |-> rows[ix[1] - xs[1][1] + 1]]
    <2>1. g = [ix \in Values!Box(xs) |-> g[ix]] /\ f = g  BY <1>7
    <2> HIDE DEF g
    <2> QED BY <1>2, <2>1
<1>10. \A ix \in Names(L) : f[ix] = IF ix \in DOMAIN f THEN f[ix] ELSE Element(w, a, ix)
    BY <1>8
<1>11. DOMAIN f \subseteq Names(L)  BY <1>8
<1>12. Becomes(w, a, v, [extents |-> Extensions(L), element |-> f])
    BY ONLY a \in DOMAIN w.array, <1>1, <1>5, <1>6, <1>9, <1>10, <1>11, WrittenBecomes
<1>13. [extents |-> Extensions(L), element |-> f] = RowsOver(xs, rows)
    BY <1>2, <1>7 DEF RowsOver
<1> QED BY <1>12, <1>13

(***************************************************************************)
(* The steps of the system: one for each call.                             *)
(***************************************************************************)
(* What a call finds. *)
LEMMA Before ==
    ASSUME IInv
    PROVE  /\ Settled(World) /\ Sound(World)
           /\ World.array = array /\ World.heap = heap /\ Live \subseteq Arrays
           /\ Standard \in Allocators /\ Default \in Elements
           /\ Temp \notin Live /\ Temp \in (Arrays \cup {Temp}) \ DOMAIN World.array
<1>1. World.array = array /\ World.heap = heap  BY DEF World
<1>2. Sound(World) /\ Live \subseteq Arrays /\ program \in Programs  BY DEF IInv
<1>3. Settled(World)  BY <1>1, <1>2 DEF Settled, Live
<1>4. Standard \in Allocators /\ Default \in Elements
    BY <1>2, ProgramAssumption DEF Allocators, Elements
<1> QED BY <1>1, <1>2, <1>3, <1>4, NamesAssumption DEF Live

(* What a call leaves, if the world it makes is settled. *)
LEMMA After ==
    ASSUME IInv, NEW w, Settled(w), Become(w)
    PROVE  IInv'
<1>1. array' = w.array /\ heap' = w.heap /\ program' = program /\ stopped' = stopped
    BY DEF Become
<1>2. w = [array |-> w.array, heap |-> w.heap]  BY DEF Settled, Sound, IsWorld
<1>3. World' = w  BY <1>1, <1>2 DEF World
<1>4. Sound(w) /\ DOMAIN w.array \subseteq Arrays  BY DEF Settled
<1>5. Sound(World)'
    BY <1>1, <1>3, <1>4
    DEF Sound, IsWorld, Handles, Chunks, Allocators, Elements, HasBlock, Held, Base, Apart, KeptIn, World
<1>6. Live' \subseteq Arrays  BY <1>1, <1>4 DEF Live
<1> QED BY <1>1, <1>5, <1>6 DEF IInv

(* ... or that leaves the arrays and the heap. *)
LEMMA UnchangedKeeps ==
    ASSUME IInv, program' = program, array' = array, heap' = heap, stopped' \in BOOLEAN
    PROVE  IInv'
<1>1. World' = World  BY DEF World
<1>2. Sound(World)'
    BY <1>1
    DEF IInv, Sound, IsWorld, Handles, Chunks, Allocators, Elements, HasBlock, Held, Base, Apart, KeptIn, World
<1> QED BY <1>2 DEF IInv, Live

(* The values of the arrays, before a call and after it. *)
LEMMA ValuesBefore ==
    /\ Values!Live = Live /\ DOMAIN ValuesOf(World) = Live /\ World.array = array
    /\ \A b \in Live : ValuesOf(World)[b] = ValueOf(World, b)
BY DEF Values!Live, ValuesOf, World, Live

LEMMA ValuesAfter ==
    ASSUME NEW v, Sound(v), Become(v)
    PROVE  ValuesOf(World)' = ValuesOf(v) /\ ValuesOf(v) = [b \in DOMAIN v.array |-> ValueOf(v, b)]
<1>1. v = [array |-> v.array, heap |-> v.heap]  BY DEF Sound, IsWorld
<1>2. World' = v  BY <1>1 DEF World, Become
<1> QED BY <1>2 DEF ValuesOf

(* An array appears with a value ... *)
LEMMA Appears ==
    ASSUME IInv, NEW a \in Arrays, a \notin Live, NEW v, Sound(v), Become(v),
           NEW x, Gains(World, a, v, x)
    PROVE  IInv' /\ Values!Appear(a, x)
<1> DEFINE u == ValuesOf(World)
<1>1. ValuesOf(World)' = [b \in DOMAIN v.array |-> ValueOf(v, b)]  BY ValuesAfter
<1>2. DOMAIN u = Live /\ \A b \in Live : u[b] = ValueOf(World, b)  BY ValuesBefore
<1>3. /\ DOMAIN v.array = Live \cup {a} /\ ValueOf(v, a) = x
      /\ \A b \in Live : ValueOf(v, b) = ValueOf(World, b)
    BY ValuesBefore DEF Gains, Added, Same, Live
<1> HIDE DEF u
<1>4. [b \in DOMAIN v.array |-> ValueOf(v, b)] = [b \in DOMAIN u \cup {a} |-> IF b = a THEN x ELSE u[b]]
    BY <1>2, <1>3
<1>5. Values!Appear(a, x)  BY <1>1, <1>4 DEF Values!Appear, Values!Live, u
<1>6. Settled(World)  BY Before
<1>7. Added(World, a, v)  BY DEF Gains
<1>8. Settled(v)  BY <1>6, <1>7, AddedSettles
<1>9. IInv'  BY <1>8, After
<1> QED BY <1>5, <1>9

(* ... or takes a new one. *)
LEMMA Alters ==
    ASSUME IInv, NEW a \in Live, NEW v, Settled(v), Become(v), NEW x, Becomes(World, a, v, x)
    PROVE  IInv' /\ Values!Become(a, x)
<1> DEFINE u == ValuesOf(World)
<1>0. Sound(v)  BY DEF Settled
<1>1. ValuesOf(World)' = [b \in DOMAIN v.array |-> ValueOf(v, b)]  BY <1>0, ValuesAfter
<1>2. DOMAIN u = Live /\ \A b \in Live : u[b] = ValueOf(World, b)  BY ValuesBefore
<1>3. /\ DOMAIN v.array = Live /\ ValueOf(v, a) = x
      /\ \A b \in Live \ {a} : ValueOf(v, b) = ValueOf(World, b)
    BY ValuesBefore DEF Becomes, Same, Live
<1> HIDE DEF u
<1>4. [b \in DOMAIN v.array |-> ValueOf(v, b)] = [b \in DOMAIN u |-> IF b = a THEN x ELSE u[b]]
    BY <1>2, <1>3
<1>5. [u EXCEPT ![a] = x] = [b \in DOMAIN u |-> IF b = a THEN x ELSE u[b]]  OBVIOUS
<1>6. Values!Become(a, x)  BY <1>1, <1>4, <1>5 DEF Values!Become, u
<1>7. IInv'  BY After
<1> QED BY <1>6, <1>7

(* What programs pass to operations is what ArrayValues has them pass. *)
LEMMA ValuesInputs ==
    ASSUME IInv
    PROVE  /\ \A e \in Elements : e \in UNION {g.elements : g \in Programs}
           /\ \A rows \in ListsOfRows : rows \in Values!ListsOfRows
           /\ Values!RowExtents = RowExtents
<1> DEFINE E == UNION {g.elements : g \in Programs}
<1>1. Elements \subseteq E  BY DEF IInv, Elements
<1>2. ASSUME NEW rows \in ListsOfRows PROVE rows \in Values!ListsOfRows
    <2>1. PICK n \in 1 .. MaxRows : rows \in [1 .. n -> Elements]  BY DEF ListsOfRows
    <2> HIDE DEF E
    <2>2. rows \in [1 .. n -> E]  BY <1>1, <2>1
    <2> QED BY <2>2 DEF Values!ListsOfRows, E
<1>3. Values!RowExtents = RowExtents  BY DEF Values!RowExtents, RowExtents
<1> QED BY <1>1, <1>2, <1>3

LEMMA ElementCount ==
    ASSUME NEW w, Sound(w), NEW a \in DOMAIN w.array
    PROVE  Values!Cardinality(DOMAIN ValueOf(w, a).element) = NumElements(w.array[a].layout)
<1> DEFINE L == w.array[a].layout
<1>1. \A S : Values!Cardinality(S) = Cardinality(S)  BY DEF Values!Cardinality, Cardinality
<1>2. DOMAIN ValueOf(w, a).element = Names(L) /\ L \in ArrayLayouts  BY ValueFacts
<1> HIDE DEF L
<1>3. Cardinality(Names(L)) = NumElements(L)  BY <1>2, LayoutTuples
<1> QED BY <1>1, <1>2, <1>3 DEF L

(* An assignment that was interrupted is one of the first elements. *)
LEMMA PartlyAssigns ==
    ASSUME NEW a \in Live, NEW b \in Live, NEW turned \in BOOLEAN, NEW k, NEW y,
           y = Values!View(ValueOf(World, b), turned), ValueOf(World, a).extents = y.extents,
           Values!Become(a, Partly(ValueOf(World, a), y, k))
    PROVE  Values!AssignPartly(a, b, turned, k)
<1> DEFINE u == ValuesOf(World)
           x == u[a]
           p == [extents |-> x.extents,
                 element |-> [ix \in Values!Box(x.extents) |->
                      IF Values!Ordinal(x.extents, ix) < k THEN y.element[ix] ELSE x.element[ix]]]
<1>1. u[a] = ValueOf(World, a) /\ u[b] = ValueOf(World, b)  BY ValuesBefore
<1>2. x = ValueOf(World, a) /\ y = Values!View(u[b], turned) /\ x.extents = y.extents  BY <1>1
<1>3. p = Partly(ValueOf(World, a), y, k)
    <2> HIDE DEF x
    <2> QED BY <1>2 DEF Partly
<1>4. Values!Become(a, p)
    <2> HIDE DEF p
    <2> QED BY <1>3
<1> QED BY ONLY <1>2, <1>4 DEF Values!AssignPartly, Values!Value

(* An array is constructed: empty, filled, from rows, by copy, from a view or by move. *)
LEMMA ConstructionKeeps ==
    ASSUME IInv, NEW a \in Arrays, Construction(a)
    PROVE  IInv' /\ Values!Construction(a)
<1> DEFINE w == World
<1>1. /\ Settled(w) /\ Sound(w) /\ w.array = array /\ w.heap = heap
      /\ Standard \in Allocators /\ Default \in Elements
    BY Before
<1>2. a \notin Live  BY DEF Construction
<1>3. a \in (Arrays \cup {Temp}) \ DOMAIN w.array  BY <1>1, <1>2 DEF Live
<1>4. \A b \in Live : b \in DOMAIN w.array /\ w.array[b] = array[b]  BY <1>1 DEF Live
<1>5. /\ Values!Live = Live /\ DOMAIN ValuesOf(w) = Live /\ DOMAIN w.array = Live
      /\ \A b \in Live : ValuesOf(w)[b] = ValueOf(w, b)
    BY ValuesBefore DEF Live
<1>6. ASSUME NEW al \in Allocators, ConstructEmpty(a, al)
      PROVE  IInv' /\ \E xs \in Shapes : Values!ConstructEmpty(a, Len(xs))
    <2> DEFINE L == NoLayout(Rank)
               v == [w EXCEPT !.array = With(@, a, [alloc |-> al, base |-> Null, layout |-> L])]
    <2>1. Become(v)  BY <1>6 DEF ConstructEmpty
    <2> HIDE DEF w
    <2>2. L \in Layouts /\ NumElements(L) = 0  BY NoLayoutFacts
    <2>0. L = NoLayout(Rank)  OBVIOUS
    <2> HIDE DEF L
    <2>3. v = Construct(w, a, al, Null, L, <<>>)
        <3>1. w = [array |-> w.array, heap |-> w.heap]  BY <1>1 DEF Sound, IsWorld
        <3> QED BY <2>2, <3>1 DEF Construct
    <2>4. Constructible(w, a, al, Null, L, <<>>)  BY <1>1, <1>3, <2>2 DEF Constructible, Places
    <2> HIDE DEF v
    <2>5. Sound(v) /\ Added(w, a, v) /\ Preserved(w, v)  BY ONLY <2>3, <2>4, ConstructSound, Zenon
    <2>6. v.array[a] = [alloc |-> al, base |-> Null, layout |-> L]  BY ONLY <2>3, <2>4, ConstructSound
    <2>7. a \in DOMAIN v.array /\ DOMAIN w.array \subseteq DOMAIN v.array  BY <2>5 DEF Added
    <2>8. ValueOf(v, a) = Values!Nothing(Rank)
        <3>1. Emptied(v, a)  BY <2>0, <2>6 DEF Emptied
        <3> QED BY <2>5, <2>7, <3>1, EmptiedValue
    <2>9. Same(w, v, DOMAIN w.array)
        <3>1. \A b \in DOMAIN w.array : v.array[b] = w.array[b] /\ CellsOf(v, b) = CellsOf(w, b)
            BY <2>5 DEF Preserved
        <3> QED BY <1>1, <2>5, <2>7, <3>1, PreservedSame
    <2>10. Gains(w, a, v, Values!Nothing(Rank))  BY <2>5, <2>8, <2>9 DEF Gains
    <2>11. IInv' /\ Values!Appear(a, Values!Nothing(Rank))
        BY ONLY IInv, a \in Arrays, <1>2, <2>1, <2>5, <2>10, Appears DEF w
    <2>12. PICK xs \in Shapes : Len(xs) = Rank  BY ShapesAssumption, ShapeFacts
    <2>13. Values!ConstructEmpty(a, Len(xs))  BY <2>11, <2>12 DEF Values!ConstructEmpty
    <2> QED BY <2>11, <2>13
<1> HIDE DEF w
<1>7. ASSUME NEW v, Sound(v), Become(v), NEW x, Gains(w, a, v, x)
      PROVE  IInv' /\ Values!Appear(a, x)
    BY ONLY IInv, a \in Arrays, <1>2, <1>7, Appears DEF w
<1>8. ASSUME NEW xs \in Shapes, NEW e \in Elements, NEW al \in Allocators, ConstructFilled(a, xs, e, al)
      PROVE  IInv' /\ Values!ConstructFilled(a, xs, e)
    <2> DEFINE L == LayoutOf(xs)
               x == [extents |-> Extensions(L), element |-> [ix \in Names(L) |-> e]]
    <2>1. PICK p \in Places(w, NumElements(L)) : Become(Construct(w, a, al, p, L, Filled(L, e)))
        BY <1>8 DEF ConstructFilled, w
    <2>2. L \in Layouts /\ xs \in Seq(Intervals)  BY ShapeFacts
    <2>3. Extensions(L) = Values!Normal(xs) /\ Values!Box(Values!Normal(xs)) = Names(L)
        <3>1. L = LayoutOf(xs)  OBVIOUS
        <3> HIDE DEF L
        <3> QED BY <2>2, <3>1, LayoutValues
    <2> HIDE DEF L
    <2> DEFINE v == Construct(w, a, al, p, L, Filled(L, e))
    <2>4. Become(v)  BY <2>1
    <2>5. x = [extents |-> Values!Normal(xs), element |-> [ix \in Values!Box(Values!Normal(xs)) |-> e]]
        BY <2>3
    <2> HIDE DEF v, x
    <2>6. Sound(v)  BY <1>1, <1>3, <2>2, FilledSound DEF v
    <2>7. Gains(w, a, v, x)  BY <1>1, <1>3, <2>2, FilledGains DEF v, x
    <2>8. IInv' /\ Values!Appear(a, x)  BY <1>7, <2>4, <2>6, <2>7
    <2> QED BY ONLY <2>5, <2>8 DEF Values!ConstructFilled, Values!Value
<1>9. ASSUME NEW x \in RowExtents, NEW rows \in ListsOfRows, ConstructRows(a, x, rows)
      PROVE  IInv' /\ Values!ConstructRows(a, x, rows)
    <2>1. PICK p \in Places(w, Len(rows) * Count(x)) : Become(ConstructRange(w, a, x, rows, p))
        BY <1>9 DEF ConstructRows, w
    <2>2. x \in Intervals  BY RowExtentFacts
    <2>3. PICK n \in Nat \ {0} : rows \in [1 .. n -> Elements]  BY RowsFacts
    <2>4. Rank = 2  BY <1>9 DEF ConstructRows, RowsCompile
    <2> DEFINE v == ConstructRange(w, a, x, rows, p)
    <2>5. Become(v)  BY <2>1
    <2> HIDE DEF v
    <2>6. Sound(v)  BY <1>1, <1>3, <2>2, <2>3, <2>4, ConstructRangeSound DEF v
    <2>7. Gains(w, a, v, Values!Rows(x, rows))  BY <1>1, <1>3, <2>2, <2>3, <2>4, RangeGains DEF v
    <2>8. IInv' /\ Values!Appear(a, Values!Rows(x, rows))  BY <1>7, <2>5, <2>6, <2>7
    <2> QED BY <2>8 DEF Values!ConstructRows
<1>10. ASSUME NEW b \in Live, NEW turned \in BOOLEAN, NEW al \in Allocators,
              ConstructFromView(a, b, turned, al)
       PROVE  IInv' /\ Values!ConstructCopy(a, b, turned)
    <2>1. PICK p \in Places(w, NumElements(w.array[b].layout)) : Become(CopyView(w, a, b, turned, al, p))
        BY <1>4, <1>10 DEF ConstructFromView, w
    <2> DEFINE v == CopyView(w, a, b, turned, al, p)
    <2>2. Become(v)  BY <2>1
    <2> HIDE DEF v
    <2>3. Sound(v)  BY <1>1, <1>3, <1>4, CopyViewSound DEF v
    <2>4. Gains(w, a, v, Values!View(ValueOf(w, b), turned))  BY <1>1, <1>3, <1>4, CopyViewGains DEF v
    <2>5. IInv' /\ Values!Appear(a, Values!View(ValueOf(w, b), turned))  BY <1>7, <2>2, <2>3, <2>4
    <2> QED BY <1>5, <2>5 DEF Values!ConstructCopy, w
<1>11. ASSUME NEW b \in Live, CopyConstruct(a, b)
       PROVE  IInv' /\ Values!ConstructCopy(a, b, FALSE)
    <2> DEFINE al == w.array[b].alloc
    <2>1. PICK p \in Places(w, NumElements(w.array[b].layout)) : Become(Copy(w, a, b, al, p))
        BY <1>4, <1>11 DEF CopyConstruct, w
    <2>2. al \in Allocators  BY <1>1, <1>4, WorldFacts
    <2> HIDE DEF al
    <2> DEFINE v == Copy(w, a, b, al, p)
    <2>3. Become(v)  BY <2>1
    <2> HIDE DEF v
    <2>4. Sound(v)  BY <1>1, <1>3, <1>4, <2>2, CopySound DEF v
    <2>5. Gains(w, a, v, ValueOf(w, b))  BY <1>1, <1>3, <1>4, <2>2, CopyGains DEF v
    <2>6. IInv' /\ Values!Appear(a, ValueOf(w, b))  BY <1>7, <2>3, <2>4, <2>5
    <2>7. ValueOf(w, b) = Values!View(ValueOf(w, b), FALSE)  BY DEF Values!View
    <2> QED BY <1>5, <2>6, <2>7 DEF Values!ConstructCopy, w
<1>12. ASSUME NEW b \in Live, NEW al \in Allocators, Become(Move(w, a, b, al)),
              "move" \notin Unchecked => al = w.array[b].alloc
       PROVE  IInv' /\ Values!ConstructMoved(a, b)
    <2> DEFINE v == Move(w, a, b, al)
               u == ValuesOf(w)
               empty == Values!Nothing(Len(u[b].extents))
    <2>1. Become(v)  BY <1>12
    <2> HIDE DEF v
    <2>2. Sound(v) /\ Added(w, a, v)  BY <1>1, <1>3, <1>4, <1>12, MoveSound DEF v
    <2>3. /\ ValueOf(v, a) = ValueOf(w, b)
          /\ ValueOf(v, b) = Values!Nothing(Rank) /\ Same(w, v, DOMAIN w.array \ {b})
        BY <1>1, <1>3, <1>4, <1>12, MoveValues DEF v
    <2>4. Settled(v)  BY ONLY <1>1, <2>2, a \in Arrays, AddedSettles
    <2>5. IInv'  BY <2>1, <2>4, After
    <2>6. ValuesOf(World)' = [c \in DOMAIN v.array |-> ValueOf(v, c)]  BY <2>1, <2>2, ValuesAfter
    <2>7. Len(ValueOf(w, b).extents) = Rank  BY <1>1, <1>4, ValueFacts
    <2>8. empty = Values!Nothing(Rank)  BY <1>5, <2>7
    <2>9. u[b] = ValueOf(w, b) /\ \A c \in Live : u[c] = ValueOf(w, c)  BY <1>5
    <2>10. DOMAIN v.array = Live \cup {a}  BY <1>5, <2>2 DEF Added
    <2>11. \A c \in Live \ {b} : ValueOf(v, c) = ValueOf(w, c)  BY <1>5, <2>3 DEF Same
    <2> HIDE DEF u, empty
    <2>12. [c \in DOMAIN v.array |-> ValueOf(v, c)]
           = [c \in Live \cup {a} |-> IF c = a THEN u[b] ELSE IF c = b THEN empty ELSE u[c]]
        BY <1>2, <2>3, <2>8, <2>9, <2>10, <2>11
    <2>13. Values!ConstructMoved(a, b)
        BY <1>5, <2>6, <2>12 DEF Values!ConstructMoved, u, empty, w
    <2> QED BY <2>5, <2>13
<1>13. ASSUME NEW b \in Live, MoveConstruct(a, b) PROVE IInv' /\ Values!ConstructMoved(a, b)
    <2>1. w.array[b].alloc \in Allocators  BY <1>1, <1>4, WorldFacts
    <2>2. Become(Move(w, a, b, w.array[b].alloc))  BY <1>4, <1>13 DEF MoveConstruct, w
    <2> QED BY <1>12, <2>1, <2>2
<1>14. ASSUME NEW b \in Live, NEW al \in Allocators, MoveConstructWith(a, b, al)
       PROVE  IInv' /\ Values!ConstructMoved(a, b)
    <2>1. "move" \notin Unchecked => al = w.array[b].alloc
        BY <1>4, <1>14 DEF MoveConstructWith, Careful
    <2>2. Become(Move(w, a, b, al))  BY <1>14 DEF MoveConstructWith, w
    <2> QED BY <1>12, <2>1, <2>2
<1>15. /\ \A e \in Elements : e \in UNION {g.elements : g \in Programs}
       /\ \A rows \in ListsOfRows : rows \in Values!ListsOfRows
       /\ Values!RowExtents = RowExtents
    BY ValuesInputs
<1>16. IInv'
    BY <1>6, <1>8, <1>9, <1>10, <1>11, <1>13, <1>14 DEF Construction
<1>17. Values!Construction(a)
    BY <1>2, <1>5, <1>6, <1>8, <1>9, <1>10, <1>11, <1>13, <1>14, <1>15
    DEF Construction, Values!Construction
<1> QED BY <1>16, <1>17

(* An array is assigned to, from an array, a view, rows or an archive, to the end or as far *)
(* as an element that throws.                                                               *)
LEMMA AssignmentKeeps ==
    ASSUME IInv, NEW a \in Live, Assignment(a)
    PROVE  IInv' /\ [Values!Assignment(a)]_(ValuesOf(World))
<1> DEFINE w == World
<1>1. /\ Settled(w) /\ Sound(w) /\ w.array = array /\ w.heap = heap
      /\ Standard \in Allocators /\ Default \in Elements
      /\ Temp \in (Arrays \cup {Temp}) \ DOMAIN w.array
    BY Before
<1>2. DOMAIN w.array = Live /\ a \in DOMAIN w.array  BY <1>1 DEF Live
<1>3. /\ Values!Live = Live /\ DOMAIN ValuesOf(w) = Live
      /\ \A b \in Live : ValuesOf(w)[b] = ValueOf(w, b)
    BY ValuesBefore
<1> HIDE DEF w
<1>4. ASSUME NEW v, Sound(v), Become(v), DOMAIN v.array = Live
      PROVE  IInv' /\ ValuesOf(World)' = [c \in Live |-> ValueOf(v, c)]
    <2>1. Settled(v)  BY <1>1, <1>2, <1>4, SameSettles
    <2>2. IInv'  BY <1>4, <2>1, After
    <2>3. ValuesOf(World)' = [c \in DOMAIN v.array |-> ValueOf(v, c)]  BY <1>4, ValuesAfter
    <2> QED BY <1>4, <2>2, <2>3
<1>5. ASSUME NEW v, Settled(v), Become(v), NEW x, Becomes(w, a, v, x)
      PROVE  IInv' /\ Values!Become(a, x)
    BY ONLY IInv, a \in Live, <1>5, Alters DEF w
<1>6. ASSUME NEW b \in Live, AssignMoved(a, b)
      PROVE  IInv' /\ Values!AssignMoved(a, b)
    <2> DEFINE v == MoveAssign(w, a, b)
               u == ValuesOf(w)
               empty == Values!Nothing(Len(u[b].extents))
    <2>1. Become(v)  BY <1>6 DEF AssignMoved, w
    <2> HIDE DEF v
    <2>2. /\ Sound(v) /\ DOMAIN v.array = DOMAIN w.array
          /\ a # b => ValueOf(v, a) = ValueOf(w, b)
          /\ ValueOf(v, b) = Values!Nothing(Rank) /\ Same(w, v, DOMAIN w.array \ {a, b})
        BY <1>1, <1>2, MoveAssignValues DEF v
    <2>3. IInv' /\ ValuesOf(World)' = [c \in Live |-> ValueOf(v, c)]  BY <1>2, <1>4, <2>1, <2>2
    <2>4. Len(ValueOf(w, b).extents) = Rank  BY <1>1, <1>2, ValueFacts
    <2>5. empty = Values!Nothing(Rank)  BY <1>3, <2>4
    <2>6. DOMAIN u = Live /\ \A c \in Live : u[c] = ValueOf(w, c)  BY <1>3
    <2>7. \A c \in Live \ {a, b} : ValueOf(v, c) = ValueOf(w, c)  BY <1>2, <2>2 DEF Same
    <2> HIDE DEF u, empty
    <2>8. [u EXCEPT ![a] = IF a = b THEN empty ELSE u[b], ![b] = empty]
          = [c \in DOMAIN u |-> IF c = b THEN empty
                                ELSE IF c = a THEN (IF a = b THEN empty ELSE u[b]) ELSE u[c]]
        OBVIOUS
    <2>9. [c \in Live |-> ValueOf(v, c)]
          = [c \in DOMAIN u |-> IF c = b THEN empty
                                ELSE IF c = a THEN (IF a = b THEN empty ELSE u[b]) ELSE u[c]]
        BY <2>2, <2>5, <2>6, <2>7
    <2>10. Values!AssignMoved(a, b)
        BY <2>3, <2>8, <2>9 DEF Values!AssignMoved, u, empty, w
    <2> QED BY <2>3, <2>10
<1>7. ASSUME NEW b \in Live, CopyAssign(a, b)
      PROVE  IInv' /\ Values!Assign(a, b, FALSE)
    <2>1. PICK p \in Places(w, NumElements(w.array[b].layout)) : Become(Assign(w, a, b, p))
        BY <1>1, <1>7 DEF CopyAssign, w
    <2> DEFINE v == Assign(w, a, b, p)
    <2>2. Become(v)  BY <2>1
    <2> HIDE DEF v
    <2>3. Settled(v)  BY <1>1, <1>2, AssignSettles DEF v
    <2>4. Becomes(w, a, v, ValueOf(w, b))  BY <1>1, <1>2, AssignBecomes DEF v
    <2>5. IInv' /\ Values!Become(a, ValueOf(w, b))  BY <1>5, <2>2, <2>3, <2>4
    <2>6. ValueOf(w, b) = Values!View(ValueOf(w, b), FALSE)  BY DEF Values!View
    <2> QED BY <1>3, <2>5, <2>6 DEF Values!Assign, w
<1>8. ASSUME NEW b \in Live, SwapArrays(a, b)
      PROVE  IInv' /\ Values!Swap(a, b)
    <2> DEFINE v == Swap(w, a, b)
               u == ValuesOf(w)
    <2>1. Become(v)  BY <1>8 DEF SwapArrays, w
    <2> HIDE DEF v
    <2>2. /\ Sound(v) /\ DOMAIN v.array = DOMAIN w.array
          /\ ValueOf(v, a) = ValueOf(w, b) /\ ValueOf(v, b) = ValueOf(w, a)
          /\ Same(w, v, DOMAIN w.array \ {a, b})
        BY <1>1, <1>2, SwapValues DEF v
    <2>3. IInv' /\ ValuesOf(World)' = [c \in Live |-> ValueOf(v, c)]  BY <1>2, <1>4, <2>1, <2>2
    <2>4. DOMAIN u = Live /\ \A c \in Live : u[c] = ValueOf(w, c)  BY <1>3
    <2>5. \A c \in Live \ {a, b} : ValueOf(v, c) = ValueOf(w, c)  BY <1>2, <2>2 DEF Same
    <2> HIDE DEF u
    <2>6. [u EXCEPT ![a] = u[b], ![b] = u[a]]
          = [c \in DOMAIN u |-> IF c = b THEN u[a] ELSE IF c = a THEN u[b] ELSE u[c]]
        OBVIOUS
    <2>7. [c \in Live |-> ValueOf(v, c)]
          = [c \in DOMAIN u |-> IF c = b THEN u[a] ELSE IF c = a THEN u[b] ELSE u[c]]
        BY <2>2, <2>4, <2>5
    <2>8. Values!Swap(a, b)  BY <2>3, <2>6, <2>7 DEF Values!Swap, u, w
    <2> QED BY <2>3, <2>8
<1>9. ASSUME NEW b \in Live, Load(a, b)
      PROVE  IInv' /\ Values!Assign(a, b, FALSE)
    <2>1. PICK p \in Places(w, NumElements(w.array[b].layout)) :
              Become(Written(IF ExtentsOf(w, b) = ExtentsOf(w, a) THEN w
                             ELSE Resized(Clear(w, a), a, ExtentsOf(w, b), Default, p),
                             a, [ix \in Box(ExtentsOf(w, b)) |-> Element(w, b, ix)]))
        BY <1>1, <1>9 DEF Load, w
    <2> DEFINE u == IF ExtentsOf(w, b) = ExtentsOf(w, a) THEN w
                    ELSE Resized(Clear(w, a), a, ExtentsOf(w, b), Default, p)
               v == Written(u, a, [ix \in Box(ExtentsOf(w, b)) |-> Element(w, b, ix)])
    <2>2. Become(v)  BY <2>1
    <2> HIDE DEF v, u
    <2>3. Settled(v)  BY <1>1, <1>2, LoadSettles DEF v, u
    <2>4. Becomes(w, a, v, ValueOf(w, b))  BY <1>1, <1>2, LoadBecomes DEF v, u
    <2>5. IInv' /\ Values!Become(a, ValueOf(w, b))  BY <1>5, <2>2, <2>3, <2>4
    <2>6. ValueOf(w, b) = Values!View(ValueOf(w, b), FALSE)  BY DEF Values!View
    <2> QED BY <1>3, <2>5, <2>6 DEF Values!Assign, w
<1>10. ASSUME NEW b \in Live, NEW turned \in BOOLEAN, NEW p \in Places(w, NumElements(w.array[b].layout)),
              NEW u, u = CopyView(w, Temp, b, turned, Standard, p),
              NEW y, y = Values!View(ValueOf(w, b), turned)
       PROVE  /\ Sound(u) /\ Added(w, Temp, u) /\ a \in DOMAIN u.array /\ Temp \in DOMAIN u.array
              /\ u.array[a] = w.array[a] /\ Gains(w, Temp, u, y)
              /\ ValueOf(u, Temp) = y /\ ValueOf(u, a) = ValueOf(w, a)
    <2>1. Sound(u) /\ Added(w, Temp, u) /\ \A d \in DOMAIN w.array : u.array[d] = w.array[d]
        BY <1>1, <1>2, <1>10, CopyViewSound
    <2>2. Gains(w, Temp, u, y)  BY <1>1, <1>2, <1>10, CopyViewGains
    <2>3. ValueOf(u, Temp) = y /\ ValueOf(u, a) = ValueOf(w, a)  BY <1>2, <2>2 DEF Gains, Same
    <2> QED BY <1>2, <2>1, <2>2, <2>3 DEF Added
<1>11. ASSUME NEW b \in Live, NEW turned \in BOOLEAN, AssignView(a, b, turned)
       PROVE  IInv' /\ Values!Assign(a, b, turned)
    <2>1. PICK p \in Places(w, NumElements(w.array[b].layout)) :
              LET u == CopyView(w, Temp, b, turned, Standard, p)
              IN  Become(IF ExtentsOf(u, a) = ExtentsOf(u, Temp)
                         THEN Destroy(Refill(u, a, Temp), Temp)
                         ELSE Replace(u, a))
        BY <1>1, <1>11 DEF AssignView, w
    <2> DEFINE u == CopyView(w, Temp, b, turned, Standard, p)
               y == Values!View(ValueOf(w, b), turned)
    <2>0. u = CopyView(w, Temp, b, turned, Standard, p) /\ y = Values!View(ValueOf(w, b), turned)
        OBVIOUS
    <2>5. Become(IF ExtentsOf(u, a) = ExtentsOf(u, Temp) THEN Destroy(Refill(u, a, Temp), Temp)
                 ELSE Replace(u, a))
        BY <2>1
    <2> HIDE DEF u, y
    <2>2. /\ Sound(u) /\ a \in DOMAIN u.array /\ Temp \in DOMAIN u.array
          /\ Added(w, Temp, u) /\ Gains(w, Temp, u, y)
          /\ ValueOf(u, Temp) = y /\ ValueOf(u, a) = ValueOf(w, a)
        BY <1>10, <2>0
    <2>3. ASSUME ExtentsOf(u, a) = ExtentsOf(u, Temp)
          PROVE  IInv' /\ Values!Become(a, y)
        <3> DEFINE k == NumElements(u.array[Temp].layout)
                   v == Destroy(Overwritten(u, a, CellsOf(u, Temp), k), Temp)
        <3>1. Become(v)  BY <2>5, <2>3 DEF Refill
        <3>2. Partly(ValueOf(u, a), ValueOf(u, Temp), k) = ValueOf(u, Temp)
            BY <2>2, <2>3, PartlyAll
        <3>3. k \in Nat /\ k <= NumElements(u.array[a].layout)
            <4>1. k \in Nat /\ k = NumElements(u.array[a].layout)  BY <2>2, <2>3, PartlyAll
            <4> QED BY <4>1
        <3> HIDE DEF k, v
        <3>4. Settled(v)  BY ONLY <1>1, <1>2, <2>2, <2>3, <3>3, RefillFromTempSettles DEF v
        <3>5. Becomes(w, a, v, Partly(ValueOf(w, a), y, k))
            BY ONLY <1>1, <1>2, <2>2, <2>3, <3>3, RefillFromTempBecomes DEF v
        <3>6. Becomes(w, a, v, y)  BY <2>2, <3>2, <3>5
        <3> QED BY <1>5, <3>1, <3>4, <3>6
    <2>4. ASSUME ExtentsOf(u, a) # ExtentsOf(u, Temp)
          PROVE  IInv' /\ Values!Become(a, y)
        <3> DEFINE v == Replace(u, a)
        <3>1. Become(v)  BY <2>5, <2>4
        <3> HIDE DEF v
        <3>2. Settled(v)  BY ONLY <1>1, <1>2, <2>2, ReplaceSettles DEF v
        <3>3. Becomes(w, a, v, y)  BY ONLY <1>1, <1>2, <2>2, ReplaceBecomes DEF v
        <3> QED BY <1>5, <3>1, <3>2, <3>3
    <2>6. IInv' /\ Values!Become(a, y)  BY <2>3, <2>4
    <2> QED BY <1>3, <2>6 DEF Values!Assign, w, y
<1>12. ASSUME NEW b \in Live, NEW k \in 1 .. NumElements(array[a].layout), CopyAssignThrows(a, b, k)
       PROVE  IInv' /\ Values!AssignPartly(a, b, FALSE, k)
    <2> DEFINE v == Overwritten(w, a, CellsOf(w, b), k)
               y == ValueOf(w, b)
    <2>1. Become(v) /\ ExtentsOf(w, a) = ExtentsOf(w, b)  BY <1>12 DEF CopyAssignThrows, w
    <2>2. k \in Nat /\ k <= NumElements(w.array[a].layout)
        <3>1. NumElements(w.array[a].layout) \in Nat  BY <1>1, <1>2, WorldFacts
        <3> QED BY <1>1, <3>1
    <2> HIDE DEF v
    <2>3. Sound(v) /\ v.array = w.array  BY <1>1, <1>2, <2>1, <2>2, RefillSound DEF v
    <2>4. Settled(v)  BY <1>1, <2>3, SameSettles
    <2>5. Becomes(w, a, v, Partly(ValueOf(w, a), y, k))
        BY <1>1, <1>2, <2>1, <2>2, RefillBecomes DEF v
    <2>6. IInv' /\ Values!Become(a, Partly(ValueOf(w, a), y, k))  BY <1>5, <2>1, <2>4, <2>5
    <2>7. y = Values!View(ValueOf(w, b), FALSE)  BY DEF Values!View
    <2>8. ValueOf(w, a).extents = y.extents  BY <2>1 DEF ValueOf
    <2> HIDE DEF y
    <2>9. Values!AssignPartly(a, b, FALSE, k)
        BY ONLY <2>6, <2>7, <2>8, a \in Live, b \in Live, FALSE \in BOOLEAN, PartlyAssigns DEF w
    <2> QED BY <2>6, <2>9
<1>13. ASSUME NEW b \in Live, NEW turned \in BOOLEAN, NEW k \in 1 .. NumElements(array[a].layout),
              AssignViewThrows(a, b, turned, k)
       PROVE  IInv' /\ Values!AssignPartly(a, b, turned, k)
    <2>1. PICK p \in Places(w, NumElements(w.array[b].layout)) :
              LET u == CopyView(w, Temp, b, turned, Standard, p)
              IN  /\ ExtentsOf(u, a) = ExtentsOf(u, Temp)
                  /\ Become(Destroy(Overwritten(u, a, CellsOf(u, Temp), k), Temp))
        BY <1>1, <1>13 DEF AssignViewThrows, w
    <2> DEFINE u == CopyView(w, Temp, b, turned, Standard, p)
               v == Destroy(Overwritten(u, a, CellsOf(u, Temp), k), Temp)
               y == Values!View(ValueOf(w, b), turned)
    <2>0. u = CopyView(w, Temp, b, turned, Standard, p) /\ y = Values!View(ValueOf(w, b), turned)
        OBVIOUS
    <2>2. ExtentsOf(u, a) = ExtentsOf(u, Temp) /\ Become(v)  BY <2>1
    <2> HIDE DEF u, y
    <2>3. /\ Sound(u) /\ Added(w, Temp, u) /\ a \in DOMAIN u.array /\ Temp \in DOMAIN u.array
          /\ u.array[a] = w.array[a] /\ Gains(w, Temp, u, y)
          /\ ValueOf(u, Temp) = y /\ ValueOf(u, a) = ValueOf(w, a)
        BY <1>10, <2>0
    <2>4. k \in Nat /\ k <= NumElements(u.array[a].layout)
        <3>1. NumElements(w.array[a].layout) \in Nat  BY <1>1, <1>2, WorldFacts
        <3> QED BY <1>1, <2>3, <3>1
    <2> HIDE DEF v
    <2>5. Settled(v)  BY ONLY <1>1, <1>2, <2>2, <2>3, <2>4, RefillFromTempSettles DEF v
    <2>6. Becomes(w, a, v, Partly(ValueOf(w, a), y, k))
        BY ONLY <1>1, <1>2, <2>2, <2>3, <2>4, RefillFromTempBecomes DEF v
    <2>7. IInv' /\ Values!Become(a, Partly(ValueOf(w, a), y, k))  BY <1>5, <2>2, <2>5, <2>6
    <2>8. ValueOf(w, a).extents = y.extents
        <3>1. ValueOf(u, a).extents = ValueOf(u, Temp).extents  BY <2>2 DEF ValueOf
        <3> QED BY <2>3, <3>1
    <2>9. Values!AssignPartly(a, b, turned, k)
        BY ONLY <2>0, <2>7, <2>8, a \in Live, b \in Live, turned \in BOOLEAN, PartlyAssigns DEF w
    <2> QED BY <2>7, <2>9
<1>14. ASSUME NEW x \in RowExtents, NEW rows \in ListsOfRows, AssignRowsInPlace(a, x, rows)
       PROVE  IInv' /\ Values!AssignRows(a, x, rows)
    <2> DEFINE v == Written(w, a, [ix \in Box(ExtentsOf(w, a)) |->
                                       rows[ix[1] - ExtentsOf(w, a)[1][1] + 1]])
               xs == ValueOf(w, a).extents
               y == RowsOver(xs, rows)
    <2>1. /\ Become(v) /\ Size(Head(w.array[a].layout)) = Len(rows)
          /\ ExtentsOf(w, a)[2] = Extension(Dim(1, x[1], Count(x)))
        BY <1>1, <1>14 DEF AssignRowsInPlace, w
    <2>2. PICK n \in Nat \ {0} : rows \in [1 .. n -> Elements]  BY RowsFacts
    <2>3. Rank = 2 /\ x \in Intervals  BY <1>14, RowExtentFacts DEF AssignRowsInPlace, RowsCompile
    <2>4. /\ v = Written(w, a, [ix \in Box(ExtentsOf(w, a)) |-> rows[ix[1] - ExtentsOf(w, a)[1][1] + 1]])
          /\ xs = ValueOf(w, a).extents
        OBVIOUS
    <2>0. n = Len(rows)  BY <2>2
    <2> HIDE DEF v, xs
    <2>5. Settled(v)
        <3>1. n \in Nat  OBVIOUS
        <3> QED BY ONLY <1>1, <1>2, <2>1, <2>2, <2>4, <3>1, RowsInPlaceSettles
    <2>6. Becomes(w, a, v, y)
        BY ONLY n \in Nat \ {0}, <1>1, <1>2, <2>1, <2>2, <2>4, RowsInPlaceBecomes
    <2> HIDE DEF y
    <2>7. IInv' /\ Values!Become(a, y)  BY <1>5, <2>1, <2>5, <2>6
    <2>8. Cardinality(Values!Indices(xs[1])) = Len(rows) /\ xs = ExtentsOf(w, a)
        BY <1>1, <1>2, <2>1, <2>4, HeadCount
    <2>9. xs[2] = x
        <3>1. Size(Head(w.array[a].layout)) = n  BY <2>0, <2>1
        <3>2. ExtentsOf(w, a)[2] = x
            BY ONLY n \in Nat \ {0}, <1>1, <1>2, <2>1, <2>3, <3>1, RowExtentTold
        <3> QED BY <2>8, <3>2
    <2>10. Values!Cardinality(Values!Indices(xs[1])) = Len(rows)
        <3>1. \A S : Values!Cardinality(S) = Cardinality(S)  BY DEF Values!Cardinality, Cardinality
        <3> QED BY <2>8, <3>1
    <2>11. ValuesOf(w)[a].extents = xs  BY <1>3, <2>4
    <2>12. Values!AssignRows(a, x, rows)
        BY ONLY <2>7, <2>9, <2>10, <2>11 DEF Values!AssignRows, Values!Value, RowsOver, y, w
    <2> QED BY <2>7, <2>12
<1>15. ASSUME NEW x \in RowExtents, NEW rows \in ListsOfRows, AssignOtherRows(a, x, rows)
       PROVE  IInv' /\ Values!AssignRows(a, x, rows)
    <2>1. PICK p \in Places(w, Len(rows) * Count(x)) : Become(Replace(ConstructRange(w, Temp, x, rows, p), a))
        BY <1>15 DEF AssignOtherRows, w
    <2>2. x \in Intervals  BY RowExtentFacts
    <2>3. PICK n \in Nat \ {0} : rows \in [1 .. n -> Elements]  BY RowsFacts
    <2>4. Rank = 2 /\ Size(Head(w.array[a].layout)) # Len(rows)
        BY <1>1, <1>15 DEF AssignOtherRows, RowsCompile
    <2> DEFINE u == ConstructRange(w, Temp, x, rows, p)
               v == Replace(u, a)
               xs == ValueOf(w, a).extents
    <2>5. Become(v)  BY <2>1
    <2>0. xs = ValueOf(w, a).extents  OBVIOUS
    <2> HIDE DEF u, xs
    <2>6. Sound(u)  BY <1>1, <2>2, <2>3, <2>4, ConstructRangeSound DEF u
    <2>7. Gains(w, Temp, u, Values!Rows(x, rows))  BY <1>1, <2>2, <2>3, <2>4, RangeGains DEF u
    <2>8. Added(w, Temp, u)  BY <2>7 DEF Gains
    <2> HIDE DEF v
    <2>9. Settled(v)  BY ONLY <1>1, <1>2, <2>6, <2>8, ReplaceSettles DEF v
    <2>10. Becomes(w, a, v, Values!Rows(x, rows))
        BY ONLY <1>1, <1>2, <2>6, <2>7, ReplaceBecomes DEF v
    <2>11. IInv' /\ Values!Become(a, Values!Rows(x, rows))  BY <1>5, <2>5, <2>9, <2>10
    <2>12. Values!Cardinality(Values!Indices(xs[1])) # Len(rows)
        <3>1. \A S : Values!Cardinality(S) = Cardinality(S)  BY DEF Values!Cardinality, Cardinality
        <3>2. Cardinality(Values!Indices(xs[1])) = Size(Head(w.array[a].layout))
            BY <1>1, <1>2, <2>0, HeadCount
        <3> QED BY <2>4, <3>1, <3>2
    <2>13. ValuesOf(w)[a].extents = xs  BY <1>3, <2>0
    <2>14. Values!AssignRows(a, x, rows)
        BY ONLY <2>11, <2>12, <2>13 DEF Values!AssignRows, w
    <2> QED BY <2>11, <2>14
<1>16. ASSUME NEW x \in RowExtents, NEW rows \in ListsOfRows, AssignRowsStops(a, x, rows)
       PROVE  IInv' /\ ValuesOf(World)' = ValuesOf(World)
    <2>1. program' = program /\ array' = array /\ heap' = heap /\ stopped' = TRUE
        BY <1>16 DEF AssignRowsStops
    <2>2. IInv'  BY <2>1, UnchangedKeeps
    <2>3. World' = World  BY <2>1 DEF World
    <2> QED BY <2>2, <2>3 DEF ValuesOf
<1>17. IInv'
    BY <1>6, <1>7, <1>8, <1>9, <1>11, <1>12, <1>13, <1>14, <1>15, <1>16 DEF Assignment
<1>18. \A k : k \in 1 .. NumElements(array[a].layout)
                  => k \in 1 .. Values!Cardinality(DOMAIN ValuesOf(w)[a].element)
    <2>1. Values!Cardinality(DOMAIN ValueOf(w, a).element) = NumElements(w.array[a].layout)
        BY <1>1, <1>2, ElementCount
    <2> QED BY <1>1, <1>3, <2>1
<1>19. /\ \A rows \in ListsOfRows : rows \in Values!ListsOfRows
       /\ Values!RowExtents = RowExtents
    BY ValuesInputs
<1>20. ASSUME NEW b \in Live, Values!AssignMoved(a, b) PROVE Values!Assignment(a)
    BY <1>3, <1>20 DEF Values!Assignment
<1>21. ASSUME NEW b \in Live, Values!Swap(a, b) PROVE Values!Assignment(a)
    BY <1>3, <1>21 DEF Values!Assignment
<1>22. ASSUME NEW b \in Live, NEW turned \in BOOLEAN, Values!Assign(a, b, turned)
       PROVE  Values!Assignment(a)
    BY <1>3, <1>22 DEF Values!Assignment
<1>23. ASSUME NEW b \in Live, NEW turned \in BOOLEAN, NEW k \in 1 .. NumElements(array[a].layout),
              Values!AssignPartly(a, b, turned, k)
       PROVE  Values!Assignment(a)
    <2>1. k \in 1 .. Values!Cardinality(DOMAIN ValuesOf(World)[a].element)  BY <1>18 DEF w
    <2> QED BY <1>3, <1>23, <2>1 DEF Values!Assignment
<1>24. ASSUME NEW x \in RowExtents, NEW rows \in ListsOfRows, Values!AssignRows(a, x, rows)
       PROVE  Values!Assignment(a)
    BY <1>19, <1>24 DEF Values!Assignment
<1>25. Values!Assignment(a) \/ ValuesOf(World)' = ValuesOf(World)
    <2>1. FALSE \in BOOLEAN  OBVIOUS
    <2> QED BY <1>6, <1>7, <1>8, <1>9, <1>11, <1>12, <1>13, <1>14, <1>15, <1>16,
               <1>20, <1>21, <1>22, <1>23, <1>24, <2>1
            DEF Assignment
<1> QED BY <1>17, <1>25

(* An array is cleared, destroyed, resized, reshaped or reindexed, or an element is written. *)
LEMMA ModificationKeeps ==
    ASSUME IInv, NEW a \in Live, Modification(a)
    PROVE  IInv' /\ Values!Modification(a)
<1> DEFINE w == World
<1>1. Settled(w) /\ Sound(w) /\ w.array = array /\ w.heap = heap
    BY Before
<1>2. DOMAIN w.array = Live /\ a \in DOMAIN w.array  BY <1>1 DEF Live
<1>3. /\ Values!Live = Live /\ DOMAIN ValuesOf(w) = Live
      /\ \A b \in Live : ValuesOf(w)[b] = ValueOf(w, b)
    BY ValuesBefore
<1> HIDE DEF w
<1>4. ValuesOf(w)[a] = ValueOf(w, a)  BY <1>3
<1>5. ASSUME NEW v, Settled(v), Become(v), NEW x, Becomes(w, a, v, x)
      PROVE  IInv' /\ Values!Become(a, x)
    BY ONLY IInv, a \in Live, <1>5, Alters DEF w
<1>6. ASSUME ClearArray(a) PROVE IInv' /\ Values!Clear(a)
    <2> DEFINE v == Clear(w, a)
    <2>1. Become(v)  BY <1>6 DEF ClearArray, w
    <2> HIDE DEF v
    <2>2. Sound(v) /\ DOMAIN v.array = DOMAIN w.array  BY <1>1, <1>2, ClearSound DEF v
    <2>3. Settled(v)  BY <1>1, <2>2, SameSettles
    <2>4. Becomes(w, a, v, Values!Nothing(Rank))  BY <1>1, <1>2, ClearBecomes DEF v
    <2>5. IInv' /\ Values!Become(a, Values!Nothing(Rank))  BY <1>5, <2>1, <2>3, <2>4
    <2>6. Len(ValueOf(w, a).extents) = Rank  BY <1>1, <1>2, ValueFacts
    <2>7. Len(ValuesOf(w)[a].extents) = Rank  BY <1>4, <2>6
    <2> QED BY <2>5, <2>7 DEF Values!Clear, w
<1>7. ASSUME DestroyArray(a) PROVE IInv' /\ Values!Destroy(a)
    <2> DEFINE v == Destroy(w, a)
               u == ValuesOf(w)
    <2>1. Become(v)  BY <1>7 DEF DestroyArray, w
    <2> HIDE DEF v
    <2>2. Sound(v) /\ DOMAIN v.array = DOMAIN w.array \ {a}  BY <1>1, <1>2, DestroySound DEF v
    <2>3. Settled(v)  BY <1>1, <2>2, SameSettles
    <2>4. IInv'  BY <2>1, <2>3, After
    <2>5. ValuesOf(World)' = [b \in DOMAIN v.array |-> ValueOf(v, b)]  BY <2>1, <2>2, ValuesAfter
    <2>6. Same(w, v, DOMAIN w.array \ {a})  BY <1>1, <1>2, DestroyValues DEF v
    <2>7. \A b \in Live \ {a} : ValueOf(v, b) = u[b]  BY <1>2, <1>3, <2>6 DEF Same
    <2> HIDE DEF u
    <2>8. [b \in DOMAIN v.array |-> ValueOf(v, b)] = [b \in Live \ {a} |-> u[b]]
        BY <1>2, <2>2, <2>7
    <2>9. Values!Destroy(a)  BY <1>3, <2>5, <2>8 DEF Values!Destroy, u, w
    <2> QED BY <2>4, <2>9
<1>8. ASSUME NEW xs \in Shapes, NEW e \in Elements, Reextent(a, xs, e)
      PROVE  IInv' /\ Values!Reextent(a, xs, e)
    <2> DEFINE L == LayoutOf(xs)
               old == ValueOf(w, a)
               x == [extents |-> Extensions(L),
                     element |-> [ix \in Names(L) |-> IF ix \in DOMAIN old.element
                                                      THEN old.element[ix] ELSE e]]
    <2>1. PICK p \in Places(w, NumElements(L)) : Become(Resized(w, a, xs, e, p))
        BY <1>8 DEF Reextent, w
    <2> DEFINE v == Resized(w, a, xs, e, p)
    <2>2. Become(v)  BY <2>1
    <2>3. L \in Layouts /\ xs \in Seq(Intervals) /\ L = LayoutOf(xs)  BY ShapeFacts
    <2> HIDE DEF v
    <2>4. Settled(v)  BY <1>1, <1>2, <2>3, ResizedSettles DEF v
    <2> HIDE DEF L
    <2>5. Becomes(w, a, v, x)  BY ONLY <1>1, <1>2, <2>1, <2>3, e \in Elements, ResizedBecomes DEF v
    <2>6. Extensions(L) = Values!Normal(xs) /\ Values!Box(Values!Normal(xs)) = Names(L)
        BY <2>3, LayoutValues
    <2> HIDE DEF x, old
    <2>7. IInv' /\ Values!Become(a, x)  BY <1>5, <2>2, <2>4, <2>5
    <2>8. x = [extents |-> Values!Normal(xs),
               element |-> [ix \in Values!Box(Values!Normal(xs)) |->
                   IF ix \in DOMAIN ValuesOf(w)[a].element THEN ValuesOf(w)[a].element[ix] ELSE e]]
        BY <1>4, <2>6 DEF x, old
    <2> QED BY ONLY <2>7, <2>8 DEF Values!Reextent, Values!Value, w
<1>9. ASSUME NEW xs \in Shapes, Reshape(a, xs) PROVE IInv' /\ Values!Reshape(a, xs)
    <2> DEFINE L == LayoutOf(xs)
               v == [w EXCEPT !.array[a].layout = L]
               old == ValueOf(w, a)
               x == Reordered(old, xs)
    <2>1. Become(v) /\ NumElements(L) = NumElements(w.array[a].layout)
        BY <1>1, <1>9 DEF Reshape, w
    <2>2. L \in Layouts  BY ShapeFacts
    <2>3. L = LayoutOf(xs) /\ v = [w EXCEPT !.array[a].layout = L] /\ old = ValueOf(w, a)  OBVIOUS
    <2> HIDE DEF L, v, old
    <2>4. Settled(v)  BY ONLY <1>1, <1>2, <2>1, <2>2, <2>3, RelaidSettles
    <2>5. Cardinality(Values!Box(xs)) = Cardinality(Values!Box(old.extents))
        BY ONLY <1>1, <1>2, <2>1, <2>3, xs \in Shapes, ReshapeBecomes
    <2>6. Becomes(w, a, v, x)
        BY ONLY <1>1, <1>2, <2>1, <2>3, xs \in Shapes, ReshapeBecomes
    <2> HIDE DEF x
    <2>7. IInv' /\ Values!Become(a, x)  BY <1>5, <2>1, <2>4, <2>6
    <2>8. \A S : Values!Cardinality(S) = Cardinality(S)  BY DEF Values!Cardinality, Cardinality
    <2>9. Values!Cardinality(Values!Box(xs)) = Values!Cardinality(Values!Box(old.extents))
        BY <2>5, <2>8
    <2>10. ValuesOf(w)[a] = old  BY <1>4, <2>3
    <2> QED BY ONLY <2>7, <2>9, <2>10 DEF Values!Reshape, Values!Value, Reordered, InOrder, x, w
<1>10. ASSUME NEW first \in Firsts, ReindexArray(a, first) PROVE IInv' /\ Values!Reindex(a, first)
    <2> DEFINE M == w.array[a].layout
               R == Reindexed(M, first)
               v == [w EXCEPT !.array[a].layout = R]
               old == ValueOf(w, a)
               by == first - old.extents[1][1]
               ys == Values!Normal(Moved(old.extents, by))
               x == [extents |-> ys,
                     element |-> [ix \in Values!Box(ys) |-> old.element[MovedBack(ix, by)]]]
    <2>1. /\ M \in ArrayLayouts /\ Len(M) > 0 /\ M \in Seq(ArrayDims) /\ Len(M) = Rank
        BY <1>1, <1>2, WorldFacts, LayoutFacts, ShapeFacts
    <2>2. Become(v)
        <3>1. v = [w EXCEPT !.array[a].layout[1] = Reindex(@, first)]
            <4>1. w = [array |-> w.array, heap |-> w.heap] /\ w.array \in [DOMAIN w.array -> Handles]
                BY <1>1 DEF Sound, IsWorld
            <4>2. w.array[a] \in Handles /\ M \in Seq(ArrayDims) /\ 1 \in DOMAIN M  BY <1>2, <2>1, <4>1
            <4> QED BY <1>2, <4>1, <4>2 DEF Handles, Reindexed
        <3> QED BY <1>10, <3>1 DEF ReindexArray, w
    <2>3. /\ M = w.array[a].layout /\ R = Reindexed(M, first)
          /\ v = [w EXCEPT !.array[a].layout = R] /\ old = ValueOf(w, a)
          /\ by = first - old.extents[1][1] /\ ys = Values!Normal(Moved(old.extents, by))
        OBVIOUS
    <2>4. first \in Int  BY FirstsAssumption
    <2> HIDE DEF M, R, v, old, by, ys
    <2>5. R \in Layouts  BY ONLY <1>1, <1>2, <2>3, <2>4, ReindexBecomes
    <2>6. Becomes(w, a, v, x)  BY ONLY <1>1, <1>2, <2>3, <2>4, ReindexBecomes
    <2>7. NumElements(R) = NumElements(M)
        <3>1. R = [M EXCEPT ![1] = Reindex(M[1], first)]  BY <2>3 DEF Reindexed
        <3> QED BY <2>1, <2>4, <3>1, ReindexFacts
    <2>8. NumElements(R) = NumElements(w.array[a].layout)  BY <2>3, <2>7
    <2>9. Settled(v)  BY ONLY <1>1, <1>2, <2>3, <2>5, <2>8, RelaidSettles
    <2> HIDE DEF x
    <2>10. IInv' /\ Values!Become(a, x)  BY <1>5, <2>2, <2>6, <2>9
    <2>11. ValuesOf(w)[a] = old  BY <1>4, <2>3
    <2>12. Values!Reindex(a, first)
        BY ONLY <2>3, <2>10, <2>11 DEF Values!Reindex, Values!Value, Moved, MovedBack, x, w
    <2> QED BY <2>10, <2>12
<1>11. ASSUME NEW ix \in Box(ExtentsOf(World, a)), NEW e \in Elements, Write(a, ix, e)
       PROVE  IInv' /\ Values!Write(a, ix, e) /\ ix \in DOMAIN ValuesOf(World)[a].element
    <2> DEFINE f == [jx \in {ix} |-> e]
               v == Written(w, a, f)
               old == ValueOf(w, a)
               x == [old EXCEPT !.element[ix] = e]
    <2>1. Become(v)  BY <1>11 DEF Write, w
    <2>2. ix \in Box(ExtentsOf(w, a))  BY DEF w
    <2>3. Held(w, a)  BY <1>1, <1>2, <2>2, ElementFacts
    <2>4. \A jx \in DOMAIN f : f[jx] \in Elements  OBVIOUS
    <2>5. v = Written(w, a, [jx \in {ix} |-> e]) /\ old = ValueOf(w, a)  OBVIOUS
    <2> HIDE DEF f, v, old
    <2>6. Sound(v) /\ v.array = w.array  BY <1>1, <1>2, <2>3, <2>4, WrittenSound DEF v
    <2>7. Settled(v)  BY <1>1, <2>6, SameSettles
    <2>8. ix \in DOMAIN old.element  BY ONLY <1>1, <1>2, <2>2, <2>5, e \in Elements, WriteBecomes
    <2>9. Becomes(w, a, v, x)  BY ONLY <1>1, <1>2, <2>2, <2>5, e \in Elements, WriteBecomes
    <2> HIDE DEF x
    <2>10. IInv' /\ Values!Become(a, x)  BY <1>5, <2>1, <2>7, <2>9
    <2>11. ValuesOf(w)[a] = old  BY <1>4, <2>5
    <2>12. Values!Write(a, ix, e)  BY ONLY <2>8, <2>10, <2>11 DEF Values!Write, x, w
    <2> QED BY <2>8, <2>10, <2>11, <2>12 DEF w
<1>12. \A e \in Elements : e \in UNION {g.elements : g \in Programs}
    BY ValuesInputs
<1>13. IInv'  BY <1>6, <1>7, <1>8, <1>9, <1>10, <1>11 DEF Modification
<1>14. Values!Modification(a)
    BY <1>6, <1>7, <1>8, <1>9, <1>10, <1>11, <1>12 DEF Modification, Values!Modification
<1> QED BY <1>13, <1>14

(* A constructor is interrupted: its block is lost, and no value changes. *)
LEMMA ConstructThrowsKeeps ==
    ASSUME IInv, NEW xs \in Shapes, NEW al \in Allocators, ConstructThrows(xs, al)
    PROVE  IInv' /\ ValuesOf(World)' = ValuesOf(World)
<1> DEFINE w == World
<1>1. Sound(w) /\ w.array = array /\ w.heap = heap  BY Before
<1> HIDE DEF w
<1>2. PICK p \in Blocks \ DOMAIN heap :
          /\ heap' = With(heap, p, [alloc |-> al, cells |-> <<>>])
          /\ UNCHANGED <<program, array, stopped>>
    BY DEF ConstructThrows
<1>0. "construct" \in Throwing  BY DEF ConstructThrows
<1> DEFINE c == [alloc |-> al, cells |-> <<>>]
           v == [array |-> array, heap |-> With(heap, p, c)]
<1>3. Become(v)  BY <1>2 DEF Become
<1>4. /\ v.array = w.array /\ DOMAIN v.heap = DOMAIN w.heap \cup {p}
      /\ v.heap \in [DOMAIN v.heap -> Chunks]
      /\ v.heap[p].cells = <<>> /\ \A q \in DOMAIN w.heap : v.heap[q] = w.heap[q]
    <2>1. c \in Chunks /\ c.cells = <<>>  BY DEF Chunks
    <2>2. w.heap \in [DOMAIN w.heap -> Chunks]  BY <1>1 DEF Sound, IsWorld
    <2> HIDE DEF c
    <2> QED BY <1>1, <2>1, <2>2 DEF With
<1>5. v = [array |-> v.array, heap |-> v.heap]  OBVIOUS
<1> HIDE DEF v
<1>6. IsWorld(v)
    <2>1. DOMAIN v.heap \subseteq Blocks  BY <1>1, <1>4 DEF Sound, IsWorld
    <2> QED BY <1>1, <1>4, <1>5, <2>1 DEF Sound, IsWorld
<1>7. \A a \in DOMAIN w.array : Held(v, a) = Held(w, a) /\ Base(v, a) = Base(w, a)
    BY <1>4 DEF Held, Base
<1>8. ASSUME NEW a \in DOMAIN v.array, Held(v, a) PROVE HasBlock(v, a)
    <2>1. HasBlock(w, a)  BY <1>1, <1>4, <1>7, <1>8 DEF Sound
    <2> QED BY <1>4, <1>7, <2>1 DEF HasBlock
<1>9. \A a, b \in DOMAIN v.array : Held(v, a) /\ Held(v, b) => Apart(v, a, b)
    BY <1>1, <1>4, <1>7 DEF Sound, Apart
<1>10. ASSUME NEW q \in DOMAIN v.heap PROVE KeptIn(v, q) \/ LostIn(v, q)
    <2>1. CASE q = p
        BY <1>0, <1>4, <2>1 DEF LostIn
    <2>2. CASE q # p
        <3>1. q \in DOMAIN w.heap  BY <1>4, <2>2
        <3>2. KeptIn(w, q) \/ LostIn(w, q)  BY <1>1, <3>1 DEF Sound
        <3> QED BY <1>4, <1>7, <3>1, <3>2 DEF KeptIn, LostIn
    <2> QED BY <2>1, <2>2
<1>11. Sound(v)  BY <1>6, <1>8, <1>9, <1>10 DEF Sound
<1>12. Settled(v)  BY <1>1, <1>4, <1>11, Before DEF Settled, Live
<1>13. \A a \in DOMAIN w.array : v.array[a] = w.array[a] /\ CellsOf(v, a) = CellsOf(w, a)
    <2> SUFFICES ASSUME NEW a \in DOMAIN w.array PROVE CellsOf(v, a) = CellsOf(w, a)
        BY <1>4
    <2>1. Held(w, a) => Base(w, a) \in DOMAIN w.heap  BY <1>1 DEF Sound, HasBlock
    <2> QED BY <1>4, <2>1 DEF CellsOf, Held, Base
<1>14. Same(w, v, DOMAIN w.array)  BY <1>1, <1>4, <1>11, <1>13, PreservedSame
<1>15. ValuesOf(World)' = [a \in DOMAIN v.array |-> ValueOf(v, a)]  BY <1>3, <1>11, ValuesAfter
<1>16. [a \in DOMAIN v.array |-> ValueOf(v, a)] = [a \in DOMAIN w.array |-> ValueOf(w, a)]
    BY <1>4, <1>14 DEF Same
<1>17. ValuesOf(World)' = ValuesOf(World)  BY <1>15, <1>16 DEF ValuesOf, w
<1> QED BY <1>3, <1>12, <1>17, After

(***************************************************************************)
(* The inductive invariant and what it implies.                            *)
(***************************************************************************)
LEMMA InitInvariant ==
    ASSUME Init
    PROVE  IInv
<1>1. program \in Programs /\ array = <<>> /\ heap = <<>> /\ stopped = FALSE  BY DEF Init
<1>2. World.array = <<>> /\ World.heap = <<>> /\ World = [array |-> World.array, heap |-> World.heap]
    BY <1>1 DEF World
<1>3. DOMAIN <<>> = {} /\ \A S : <<>> \in [{} -> S]  OBVIOUS
<1>4. IsWorld(World)  BY <1>2, <1>3 DEF IsWorld
<1>5. Sound(World)  BY <1>2, <1>3, <1>4 DEF Sound
<1> QED BY <1>1, <1>3, <1>5 DEF IInv, Live

LEMMA NextInvariant ==
    ASSUME IInv, [Next]_vars
    PROVE  IInv'
<1>1. ASSUME NEW a \in Arrays, Construction(a) PROVE IInv'
    BY <1>1, ConstructionKeeps
<1>2. ASSUME NEW a \in Live, Assignment(a) PROVE IInv'
    BY <1>2, AssignmentKeeps
<1>3. ASSUME NEW a \in Live, Modification(a) PROVE IInv'
    BY <1>3, ModificationKeeps
<1>4. ASSUME NEW xs \in Shapes, NEW al \in Allocators, ConstructThrows(xs, al) PROVE IInv'
    BY <1>4, ConstructThrowsKeeps
<1>5. CASE UNCHANGED vars
    BY <1>5, UnchangedKeeps DEF vars, IInv
<1> QED BY <1>1, <1>2, <1>3, <1>4, <1>5 DEF Next

(* The step of the values that a step of the arrays makes, if it makes any. *)
LEMMA NextValues ==
    ASSUME IInv, [Next]_vars
    PROVE  [Values!Next]_(ValuesOf(World))
<1>1. Values!Live = Live  BY ValuesBefore
<1>2. ASSUME NEW a \in Arrays, Construction(a) PROVE Values!Construction(a)
    BY <1>2, ConstructionKeeps
<1>3. ASSUME NEW a \in Live, Assignment(a) PROVE [Values!Assignment(a)]_(ValuesOf(World))
    BY <1>3, AssignmentKeeps
<1>4. ASSUME NEW a \in Live, Modification(a) PROVE Values!Modification(a)
    BY <1>4, ModificationKeeps
<1>5. ASSUME NEW xs \in Shapes, NEW al \in Allocators, ConstructThrows(xs, al)
      PROVE  UNCHANGED ValuesOf(World)
    BY <1>5, ConstructThrowsKeeps
<1>6. CASE UNCHANGED vars
    <2>1. World' = World  BY <1>6 DEF vars, World
    <2> QED BY <2>1 DEF ValuesOf, ValueOf, ExtentsOf, Element, CellsOf
<1> QED BY <1>1, <1>2, <1>3, <1>4, <1>5, <1>6 DEF Next, Values!Next

(* Whatever operations follow one another, and wherever an element throws, the world of  *)
(* arrays and blocks is sound between two calls, and no temporary array is left over.    *)
THEOREM ArraysInvariant == Spec => []IInv
<1>1. Init => IInv  BY InitInvariant
<1>2. IInv /\ [Next]_vars => IInv'  BY NextInvariant
<1> QED BY <1>1, <1>2, PTL DEF Spec

(* Whatever the program does, arrays and blocks keep their types: a layout has the   *)
(* rank of its array and no negative stride (array.hpp, static_array and array).      *)
THEOREM ArraysTypes == Spec => []ArraysTypeOK
<1>1. ASSUME IInv PROVE ArraysTypeOK
    <2>1. /\ Sound(World) /\ World.array = array /\ World.heap = heap /\ Live \subseteq Arrays
        BY <1>1, Before
    <2>2. ASSUME NEW a \in Live
          PROVE  /\ array[a].alloc \in Allocators /\ array[a].base \in Blocks \cup {Null}
                 /\ Len(array[a].layout) = Rank
                 /\ \A k \in 1 .. Rank : array[a].layout[k] \in [stride : Nat, offset : Int, nelems : Nat]
        <3>1. a \in DOMAIN World.array /\ World.array[a] = array[a]  BY <2>1 DEF Live
        <3>2. /\ array[a].alloc \in Allocators /\ array[a].base \in Blocks \cup {Null}
              /\ array[a].layout \in Layouts
            BY <2>1, <3>1, WorldFacts
        <3>3. array[a].layout \in Seq(ArrayDims) /\ Len(array[a].layout) = Rank  BY <3>2, LayoutFacts
        <3>4. \A d \in ArrayDims : d \in [stride : Nat, offset : Int, nelems : Nat]
            BY DEF ArrayDims, Dims
        <3>5. \A k \in 1 .. Rank : array[a].layout[k] \in ArrayDims  BY <3>3
        <3> QED BY <3>2, <3>3, <3>4, <3>5
    <2>3. ASSUME NEW p \in DOMAIN heap
          PROVE  heap[p].alloc \in Allocators /\ heap[p].cells \in Seq(Elements)
        BY <2>1 DEF Sound, IsWorld, Chunks
    <2>4. DOMAIN heap \subseteq Blocks /\ stopped \in BOOLEAN
        BY <1>1, <2>1 DEF Sound, IsWorld, IInv
    <2> QED BY <2>1, <2>2, <2>3, <2>4 DEF ArraysTypeOK
<1> QED BY <1>1, ArraysInvariant, PTL

(* An array that has elements has a block of its own, as long as its layout.  It is the   *)
(* allocator's that will get it back, if no array is moved to another allocator than its   *)
(* own (static_array(static_array&&, allocator)).                                          *)
THEOREM ArraysOwn ==
    ASSUME "move" \notin Unchecked
    PROVE  Spec => []Owned
<1>1. ASSUME IInv PROVE Owned
    <2>1. Sound(World) /\ World.array = array /\ World.heap = heap  BY <1>1, Before
    <2>2. \A a \in Live : a \in DOMAIN World.array  BY <2>1 DEF Live
    <2>3. \A a \in Live : NumElements(array[a].layout) > 0 => Held(World, a)  BY <2>1 DEF Held
    <2>4. ASSUME NEW a \in Live, NumElements(array[a].layout) > 0
          PROVE  /\ array[a].base \in DOMAIN heap
                 /\ heap[array[a].base].alloc = array[a].alloc
                 /\ Len(heap[array[a].base].cells) = NumElements(array[a].layout)
        <3>1. HasBlock(World, a)  BY <2>1, <2>2, <2>3, <2>4 DEF Sound
        <3> QED BY <2>1, <3>1 DEF HasBlock, Base
    <2>5. ASSUME NEW a \in Live, NumElements(array[a].layout) > 0,
                 NEW b \in Live \ {a}, NumElements(array[b].layout) > 0
          PROVE  array[b].base # array[a].base
        <3>1. Apart(World, a, b)  BY <2>1, <2>2, <2>3, <2>5 DEF Sound
        <3> QED BY <2>1, <3>1 DEF Apart, Base
    <2> QED BY <2>4, <2>5 DEF Owned
<1> QED BY <1>1, ArraysInvariant, PTL

LEMMA KeptAsIn ==
    ASSUME Sound(World), World.array = array, NEW p, KeptIn(World, p)
    PROVE  Kept(p)
<1>1. PICK a \in DOMAIN World.array : Held(World, a) /\ Base(World, a) = p
    BY DEF KeptIn
<1>2. a \in Live /\ array[a].base = p  BY <1>1 DEF Live, Base
<1>3. NumElements(array[a].layout) > 0
    <2>1. NumElements(World.array[a].layout) \in Nat  BY WorldFacts
    <2> QED BY <1>1, <2>1 DEF Held
<1> QED BY <1>2, <1>3 DEF Kept

(* No operation loses a block that ever held elements: what is lost was asked for by a *)
(* constructor that an element interrupted (array_allocator::uninitialized_...).        *)
THEOREM ArraysLoseInConstructionOnly == Spec => []LostInConstructionOnly
<1>1. ASSUME IInv PROVE LostInConstructionOnly
    <2>1. Sound(World) /\ World.array = array /\ World.heap = heap  BY <1>1, Before
    <2>2. \A p \in DOMAIN heap : KeptIn(World, p) => Kept(p)  BY <2>1, KeptAsIn
    <2>3. \A p \in DOMAIN heap : KeptIn(World, p) \/ heap[p].cells = <<>>  BY <2>1 DEF Sound, LostIn
    <2> QED BY <2>2, <2>3 DEF LostInConstructionOnly
<1> QED BY <1>1, ArraysInvariant, PTL

(* Where no element's constructor throws, no block is lost at all. *)
THEOREM ArraysLoseNothing ==
    ASSUME "construct" \notin Throwing
    PROVE  Spec => []NoLeak
<1>1. ASSUME IInv PROVE NoLeak
    <2>1. Sound(World) /\ World.array = array /\ World.heap = heap  BY <1>1, Before
    <2>2. ASSUME NEW p \in DOMAIN heap PROVE Kept(p)
        <3>1. KeptIn(World, p)  BY <2>1, <2>2 DEF Sound, LostIn
        <3> QED BY <2>1, <3>1, KeptAsIn
    <2> QED BY <2>2 DEF NoLeak
<1> QED BY <1>1, ArraysInvariant, PTL

(* The arrays are values: what the program can observe of them, their extensions and     *)
(* elements, changes as if there were no allocators, blocks and layouts, and no call      *)
(* changes an array that it is not called with (README: value semantics).                 *)
THEOREM ArraysImplementValues == Spec => ImplementsValues
<1>1. Init => Values!Init
    <2> SUFFICES ASSUME Init PROVE ValuesOf(World) = <<>>
        BY DEF Values!Init
    <2>1. World.array = <<>>  BY DEF Init, World
    <2>2. DOMAIN <<>> = {} /\ \A f : f \in [{} -> {}] => f = <<>>  OBVIOUS
    <2>3. ValuesOf(World) = [a \in {} |-> ValueOf(World, a)]  BY <2>1, <2>2 DEF ValuesOf
    <2>4. [a \in {} |-> ValueOf(World, a)] \in [{} -> {}]  OBVIOUS
    <2> QED BY <2>2, <2>3, <2>4
<1>2. IInv /\ [Next]_vars => [Values!Next]_(ValuesOf(World))
    BY NextValues
<1> QED BY <1>1, <1>2, ArraysInvariant, PTL DEF Spec, ImplementsValues, Values!Spec

=============================================================================
