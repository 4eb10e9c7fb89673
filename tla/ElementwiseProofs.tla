------------------------- MODULE ElementwiseProofs --------------------------
(***************************************************************************)
(* Theorems about writing through views, for every memory and every set of *)
(* views that name no element twice, of any ranks, extensions and strides. *)
(* First the walk: it meets the elements in lexicographic order of their   *)
(* indices, those of views with the same extensions side by side, as does  *)
(* a walk over a new array with these extensions.  Then the call: what the *)
(* elements written so far and the others hold after every step.  Then     *)
(* comparison: from an order of rows to one of views.                      *)
(***************************************************************************)
EXTENDS Comparison, LayoutProofs

(***************************************************************************)
(* The walk.                                                               *)
(***************************************************************************)
Carries(L, s, f) == /\ f[0] = s
                    /\ \A j \in 1 .. Len(L) : f[j] = Carry(L[Len(L) - j + 1], f[j - 1])

LEMMA CarriesExists ==
    ASSUME NEW L \in Seq(Dims), NEW s
    PROVE  \E f : f = [j \in 0 .. Len(L) |-> IF j = 0 THEN s
                          ELSE Carry(L[Len(L) - j + 1], f[j - 1])]
<1> DEFINE Is(m, f) == f = [j \in 0 .. m |-> IF j = 0 THEN s
                              ELSE Carry(L[Len(L) - j + 1], f[j - 1])]
           S == {m \in 0 .. Len(L) : \E f : Is(m, f)}
<1>1. Len(L) \in Nat  OBVIOUS
<1>2. 0 \in S
    <2>1. Is(0, [j \in 0 .. 0 |-> s])  OBVIOUS
    <2>2. \E f : Is(0, f)  BY <2>1, Zenon
    <2> HIDE DEF Is
    <2> QED BY <1>1, <2>2
<1>3. ASSUME NEW m \in 0 .. Len(L) - 1, m \in S PROVE m + 1 \in S
    <2>1. PICK f : Is(m, f)  BY <1>3
    <2> DEFINE new == Carry(L[Len(L) - (m + 1) + 1], f[m])
               g == [j \in 0 .. m + 1 |-> IF j = m + 1 THEN new ELSE f[j]]
    <2>2. \A j \in 0 .. m : g[j] = f[j]  BY <1>1
    <2>3. Is(m + 1, g)
        <3> SUFFICES ASSUME NEW j \in 0 .. m + 1
                     PROVE  g[j] = IF j = 0 THEN s ELSE Carry(L[Len(L) - j + 1], g[j - 1])
            BY Zenon
        <3>1. CASE j = m + 1
            <4>1. j - 1 = m /\ j # 0  BY <3>1, <1>1
            <4>2. g[m] = f[m]  BY <2>2, <1>1
            <4> QED BY <3>1, <4>1, <4>2
        <3>2. CASE j # m + 1
            <4>1. j \in 0 .. m  BY <3>2, <1>1
            <4>2. f[j] = IF j = 0 THEN s ELSE Carry(L[Len(L) - j + 1], f[j - 1])
                BY <2>1, <4>1
            <4>3. j # 0 => j - 1 \in 0 .. m  BY <4>1, <1>1
            <4> QED BY <2>2, <4>1, <4>2, <4>3
        <3> QED BY <3>1, <3>2
    <2>4. \E h : Is(m + 1, h)  BY <2>3, Zenon
    <2>5. m + 1 \in 0 .. Len(L)  BY <1>1
    <2> HIDE DEF Is
    <2> QED BY <2>4, <2>5
<1> HIDE DEF S
<1>4. \A m \in 0 .. Len(L) : m \in S  BY <1>1, <1>2, <1>3, InductionTo
<1>5. Len(L) \in S  BY <1>1, <1>4
<1> QED BY <1>5, Zenon DEF S

Carried(L, s) == CHOOSE f : f = [j \in 0 .. Len(L) |-> IF j = 0 THEN s
                                   ELSE Carry(L[Len(L) - j + 1], f[j - 1])]

LEMMA CarriedCarries ==
    ASSUME NEW L \in Seq(Dims), NEW s
    PROVE  Carries(L, s, Carried(L, s))
<1> DEFINE at == Carried(L, s)
<1>1. Len(L) \in Nat  OBVIOUS
<1>2. at = [j \in 0 .. Len(L) |-> IF j = 0 THEN s ELSE Carry(L[Len(L) - j + 1], at[j - 1])]
    <2>1. \E f : f = [j \in 0 .. Len(L) |-> IF j = 0 THEN s ELSE Carry(L[Len(L) - j + 1], f[j - 1])]
        BY CarriesExists
    <2> QED BY <2>1, Zenon DEF Carried
<1> HIDE DEF at
<1>3. at[0] = s  BY <1>1, <1>2
<1>4. \A j \in 1 .. Len(L) : at[j] = Carry(L[Len(L) - j + 1], at[j - 1])  BY <1>1, <1>2
<1> QED BY <1>3, <1>4 DEF Carries, at

LEMMA NthCarries ==
    ASSUME NEW v, v.layout \in Seq(Dims), NEW k
    PROVE  \E f : Carries(v.layout, [left |-> k, base |-> v.base], f) /\ Nth(v, k) = f[Len(v.layout)].base
<1> DEFINE s == [left |-> k, base |-> v.base]
<1>1. Nth(v, k) = Carried(v.layout, s)[Len(v.layout)].base  BY Zenon DEF Nth, Carried
<1>2. Carries(v.layout, s, Carried(v.layout, s))  BY CarriedCarries
<1> QED BY <1>1, <1>2, Zenon

(* A view and a new array with the same extensions, none of them empty. *)
Suits(L, D) == /\ L \in Seq(WholeDims) /\ D \in Seq(ArrayDims) /\ Len(L) = Len(D)
               /\ Dense(D)
               /\ \A k \in 1 .. Len(L) : Extension(L[k]) = Extension(D[k])

LEMMA WholeIsArray == \A L \in Seq(WholeDims) : L \in Seq(ArrayDims) /\ L \in Seq(Dims)
<1>1. \A d \in WholeDims : d \in Dims /\ d \in ArrayDims
    BY WholeDimFacts DEF ArrayDims
<1> QED BY <1>1

(* They have the same names, and each dimension the same size. *)
LEMMA SuitsNames ==
    ASSUME NEW L, NEW D, Suits(L, D)
    PROVE  /\ Names(L) = Names(D)
           /\ \A k \in 1 .. Len(L) : Size(L[k]) = Size(D[k]) /\ Size(L[k]) > 0
<1>1. /\ L \in Seq(WholeDims) /\ D \in Seq(ArrayDims) /\ Len(L) = Len(D) /\ Dense(D)
      /\ \A k \in 1 .. Len(L) : Extension(L[k]) = Extension(D[k])
      /\ L \in Seq(ArrayDims)
    BY WholeIsArray DEF Suits
<1>2. \A ix : IsName(L, ix) <=> IsName(D, ix)  BY <1>1 DEF IsName
<1>3. \A ix : ix \in Names(L) <=> IsName(L, ix)  BY <1>1, NamesAre
<1>4. \A ix : ix \in Names(D) <=> IsName(D, ix)  BY <1>1, NamesAre
<1>5. Names(L) = Names(D)  BY <1>2, <1>3, <1>4
<1>6. ASSUME NEW k \in 1 .. Len(L) PROVE Size(L[k]) = Size(D[k]) /\ Size(L[k]) > 0
    <2>1. L[k] \in ArrayDims /\ D[k] \in ArrayDims /\ k \in 1 .. Len(D)  BY <1>1
    <2>2. Count(Extension(L[k])) = Size(L[k])  BY <2>1, ArrayDimFacts
    <2>3. Count(Extension(D[k])) = Size(D[k])  BY <2>1, ArrayDimFacts
    <2>4. Size(D[k]) > 0  BY <1>1, <2>1 DEF Dense
    <2> QED BY <1>1, <2>2, <2>3, <2>4
<1> QED BY <1>5, <1>6

LEMMA SuitsTail ==
    ASSUME NEW L, NEW D, Suits(L, D), Len(L) > 0
    PROVE  /\ Suits(Tail(L), Tail(D))
           /\ NumElements(Tail(D)) = D[1].stride
           /\ Len(L) = Len(Tail(L)) + 1
           /\ \A k \in 1 .. Len(Tail(L)) : Tail(L)[k] = L[k + 1]
<1> DEFINE T == Tail(L)
           U == Tail(D)
<1>1. /\ L \in Seq(WholeDims) /\ D \in Seq(ArrayDims) /\ Len(L) = Len(D) /\ Dense(D)
      /\ \A k \in 1 .. Len(L) : Extension(L[k]) = Extension(D[k])
    BY DEF Suits
<1>2. /\ T \in Seq(WholeDims) /\ Len(L) = Len(T) + 1
      /\ \A k \in 1 .. Len(T) : T[k] = L[k + 1]
    BY <1>1
<1>3. /\ U \in Seq(ArrayDims) /\ Len(D) = Len(U) + 1
      /\ \A k \in 1 .. Len(U) : D[k + 1] = U[k]
    BY <1>1
<1>4. /\ Len(D) > 0 /\ Len(L) \in Nat /\ Len(T) \in Nat /\ Len(U) \in Nat
      /\ Len(L) = Len(T) + 1 /\ Len(T) = Len(U)
    <2>1. Len(L) = Len(T) + 1 /\ Len(L) = Len(U) + 1  BY <1>1, <1>2, <1>3, Zenon
    <2>2. Len(T) \in Nat /\ Len(U) \in Nat  BY <1>2, <1>3
    <2>3. Len(D) = Len(L)  BY <1>1
    <2> HIDE DEF T, U
    <2> QED BY ONLY <2>1, <2>2, <2>3
<1> HIDE DEF T, U
<1>5. Dense(U) /\ NumElements(U) = D[1].stride  BY <1>1, <1>3, <1>4, DenseTail
<1>6. \A k \in 1 .. Len(T) : Extension(T[k]) = Extension(U[k])
    <2> SUFFICES ASSUME NEW k \in 1 .. Len(T) PROVE Extension(T[k]) = Extension(U[k])
        OBVIOUS
    <2>1. k + 1 \in 1 .. Len(L) /\ k \in 1 .. Len(U)  BY <1>4
    <2> QED BY <1>1, <1>2, <1>3, <2>1
<1>7. Suits(T, U)  BY <1>2, <1>3, <1>4, <1>5, <1>6 DEF Suits
<1> QED BY <1>2, <1>5, <1>7 DEF T, U

(* The digits of a number in two places. *)
LEMMA Digits ==
    ASSUME NEW m \in Nat \ {0}, NEW a \in 0 .. m - 1, NEW q \in Nat
    PROVE  (a + q * m) \div m = q /\ (a + q * m) % m = a
<1>1. a + q * m = q * m + a /\ q * m \in Nat  OBVIOUS
<1>2. (a + q * m) % m = a  BY <1>1, Remainder
<1>3. (a + q * m) \div m = q  BY <1>1
<1> QED BY <1>2, <1>3

(* From as many elements on as lie in front of the one with the indices ix, and q times all *)
(* there are, the walk ends at that one, with q left.                                       *)
Lands(L, D) ==
    \A f : \A ix \in Names(D), q \in Nat, b \in Int :
        Carries(L, [left |-> Position(D, ix) + q * NumElements(D), base |-> b], f)
            => f[Len(L)] = [left |-> q, base |-> b + Position(L, ix)]

LEMMA LandsNone == \A L, D : Suits(L, D) /\ Len(L) = 0 => Lands(L, D)
<1> SUFFICES ASSUME NEW L, NEW D, Suits(L, D), Len(L) = 0,
                    NEW f, NEW ix \in Names(D), NEW q \in Nat, NEW b \in Int,
                    Carries(L, [left |-> Position(D, ix) + q * NumElements(D), base |-> b], f)
             PROVE  f[Len(L)] = [left |-> q, base |-> b + Position(L, ix)]
    BY Zenon DEF Lands
<1>1. L = <<>> /\ D = <<>> /\ D \in Seq(ArrayDims) /\ Dense(D)
    <2>1. L \in Seq(WholeDims) /\ D \in Seq(ArrayDims) /\ Len(D) = 0 /\ Dense(D)  BY DEF Suits
    <2>2. \A M \in Seq(WholeDims) : Len(M) = 0 => M = <<>>  OBVIOUS
    <2>3. \A M \in Seq(ArrayDims) : Len(M) = 0 => M = <<>>  OBVIOUS
    <2> QED BY <2>1, <2>2, <2>3
<1>2. NumElements(D) = 1  BY <1>1, DenseNumElements
<1>3. ix = <<>> /\ Position(D, ix) = 0 /\ Position(L, ix) = 0  BY <1>1, NoNames
<1>4. Position(D, ix) + q * NumElements(D) = q /\ b + Position(L, ix) = b  BY <1>2, <1>3
<1>5. f[0] = [left |-> Position(D, ix) + q * NumElements(D), base |-> b]  BY DEF Carries
<1> QED BY <1>4, <1>5

LEMMA LandsMore ==
    ASSUME NEW L, NEW D, Suits(L, D), Len(L) > 0, Lands(Tail(L), Tail(D))
    PROVE  Lands(L, D)
<1> SUFFICES ASSUME NEW f, NEW ix \in Names(D), NEW q \in Nat, NEW b \in Int,
                    Carries(L, [left |-> Position(D, ix) + q * NumElements(D), base |-> b], f)
             PROVE  f[Len(L)] = [left |-> q, base |-> b + Position(L, ix)]
    BY Zenon DEF Lands
<1> DEFINE T == Tail(L)
           U == Tail(D)
           s == [left |-> Position(D, ix) + q * NumElements(D), base |-> b]
           tx == Tail(ix)
           d == L[1]
           m == Size(d)
           a == ix[1] - Extension(d)[1]
<1>1. /\ L \in Seq(WholeDims) /\ L \in Seq(ArrayDims) /\ D \in Seq(ArrayDims) /\ Len(L) = Len(D)
      /\ Dense(D) /\ Len(D) > 0 /\ Len(L) \in Nat
    BY WholeIsArray DEF Suits
<1>2. /\ Names(L) = Names(D) /\ Size(L[1]) = Size(D[1]) /\ Size(L[1]) > 0
      /\ Extension(L[1]) = Extension(D[1])
    <2>1. 1 \in 1 .. Len(L)  BY <1>1
    <2> QED BY <2>1, SuitsNames DEF Suits
<1>3. /\ U \in Seq(ArrayDims) /\ Len(D) = Len(U) + 1 /\ \A k \in 1 .. Len(U) : D[k + 1] = U[k]
      /\ ix[1] \in Indices(Extension(D[1])) /\ tx \in Names(U)
      /\ Position(D, ix) = Shift(D[1], ix[1]) + Position(U, tx)
    BY <1>1, NameTail
<1>4. Position(L, ix) = Shift(d, ix[1]) + Position(T, tx)
    <2>1. ix \in Names(L)  BY <1>2
    <2> QED BY <1>1, <2>1, NameTail
<1>5. /\ Suits(T, U) /\ NumElements(U) = D[1].stride /\ Len(L) = Len(T) + 1
      /\ \A k \in 1 .. Len(T) : T[k] = L[k + 1]
    BY SuitsTail
<1>6. d \in WholeDims /\ D[1] \in WholeDims /\ D[1].stride \in Nat \ {0}
    <2>1. 1 \in 1 .. Len(L) /\ 1 \in 1 .. Len(D)  BY <1>1
    <2>2. d \in WholeDims /\ D[1] \in WholeDims  BY <1>1, <2>1 DEF Dense
    <2> QED BY <2>2, WholeDimFacts
<1>7. a \in 0 .. m - 1 /\ Shift(d, ix[1]) = a * d.stride /\ m \in Nat \ {0} /\ d.stride \in Nat
    <2>1. ix[1] \in Indices(Extension(d)) /\ Size(d) > 0  BY <1>2, <1>3
    <2>2. d.stride \in Nat \ {0} /\ Size(d) \in Nat  BY <1>6, WholeDimFacts
    <2> QED BY <1>6, <2>1, <2>2, ShiftInDim
<1>8. Shift(D[1], ix[1]) = a * D[1].stride
    <2>1. ix[1] \in Indices(Extension(D[1])) /\ Size(D[1]) > 0  BY <1>2, <1>3
    <2>2. Shift(D[1], ix[1]) = (ix[1] - Extension(D[1])[1]) * D[1].stride  BY <1>6, <2>1, ShiftInDim
    <2> QED BY <1>2, <2>2
<1>9. NumElements(D) = m * D[1].stride  BY <1>1, <1>2, <1>3, <1>5, NumElementsFirst
<1>10. Position(U, tx) \in Int /\ Position(T, tx) \in Int
    <2>1. /\ U \in Seq(Dims) /\ T \in Seq(Dims) /\ tx \in Seq(Int) /\ Len(tx) = Len(U) /\ Len(T) = Len(U)
          /\ Len(U) \in Nat
        <3>1. IsName(U, tx)  BY <1>3, NamesAre
        <3>2. T \in Seq(WholeDims) /\ Len(T) = Len(U)  BY <1>5 DEF Suits
        <3>3. \A e \in ArrayDims : e \in Dims  BY DEF ArrayDims
        <3> QED BY <1>3, <3>1, <3>2, <3>3, WholeIsArray DEF IsName
    <2>2. Len(tx) <= Len(U) /\ Len(tx) <= Len(T)  BY <2>1
    <2> QED BY <2>1, <2>2, PositionInt
<1>11. s = [left |-> Position(U, tx) + (a + q * m) * NumElements(U), base |-> b]
    <2>1. (a + q * m) * D[1].stride = a * D[1].stride + q * (m * D[1].stride)
        BY <1>6, <1>7
    <2>2. a * D[1].stride \in Int /\ q * (m * D[1].stride) \in Int  BY <1>6, <1>7
    <2>3. Position(D, ix) + q * NumElements(D) = Position(U, tx) + (a + q * m) * NumElements(U)
        BY <1>3, <1>5, <1>8, <1>9, <1>10, <2>1, <2>2
    <2> QED BY <2>3
<1> HIDE DEF T, U, s, tx, m, a
<1>12. f[0] = s /\ \A j \in 1 .. Len(L) : f[j] = Carry(L[Len(L) - j + 1], f[j - 1])
    BY DEF Carries, s
<1>13. Carries(T, s, f)
    <2> SUFFICES ASSUME NEW j \in 1 .. Len(T) PROVE f[j] = Carry(T[Len(T) - j + 1], f[j - 1])
        BY <1>12 DEF Carries
    <2>1. Len(T) \in Nat  BY <1>1, <1>5 DEF Suits
    <2>2. j \in 1 .. Len(L) /\ Len(T) - j + 1 \in 1 .. Len(T) /\ Len(T) - j + 1 + 1 = Len(L) - j + 1
        BY <1>1, <1>5, <2>1
    <2>3. T[Len(T) - j + 1] = L[Len(L) - j + 1]  BY <1>5, <2>2
    <2> QED BY <1>12, <2>2, <2>3
<1>14. f[Len(T)] = [left |-> a + q * m, base |-> b + Position(T, tx)]
    <2>1. Lands(T, U)  BY DEF T, U
    <2>2. a + q * m \in Nat  BY <1>7
    <2>3. Carries(T, [left |-> Position(U, tx) + (a + q * m) * NumElements(U), base |-> b], f)
        BY <1>11, <1>13
    <2> QED BY <1>3, <2>1, <2>2, <2>3, Zenon DEF Lands
<1>15. f[Len(L)] = Carry(d, f[Len(T)])
    <2>1. Len(L) \in 1 .. Len(L) /\ Len(L) - Len(L) + 1 = 1 /\ Len(L) - 1 = Len(T)
        BY <1>1, <1>5 DEF Suits
    <2>2. f[Len(L)] = Carry(L[Len(L) - Len(L) + 1], f[Len(L) - 1])  BY <1>12, <2>1
    <2> QED BY <2>1, <2>2
<1>16. Carry(d, f[Len(T)]) = [left |-> (a + q * m) \div m,
                              base |-> (b + Position(T, tx)) + ((a + q * m) % m) * d.stride]
    BY <1>14 DEF Carry, m
<1>17. (a + q * m) \div m = q /\ (a + q * m) % m = a  BY <1>7, Digits
<1>18. (b + Position(T, tx)) + a * d.stride = b + Position(L, ix)
    <2>1. a * d.stride \in Int  BY <1>7
    <2> QED BY <1>4, <1>7, <1>10, <2>1
<1> QED BY <1>15, <1>16, <1>17, <1>18

LEMMA LandsAll == \A L, D : Suits(L, D) => Lands(L, D)
<1> DEFINE S == {m \in Nat : \A L, D : Suits(L, D) /\ Len(L) = m => Lands(L, D)}
<1>1. 0 \in S  BY LandsNone
<1>2. ASSUME NEW m \in Nat, m \in S PROVE m + 1 \in S
    <2>1. ASSUME NEW L, NEW D, Suits(L, D), Len(L) = m + 1 PROVE Lands(L, D)
        <3>1. Len(L) > 0  BY <2>1
        <3>2. Suits(Tail(L), Tail(D)) /\ Len(L) = Len(Tail(L)) + 1  BY <2>1, <3>1, SuitsTail
        <3>3. Len(Tail(L)) \in Nat  BY <3>2 DEF Suits
        <3>4. Len(Tail(L)) = m  BY <2>1, <3>2, <3>3
        <3>5. Lands(Tail(L), Tail(D))  BY <1>2, <3>2, <3>4
        <3> QED BY <2>1, <3>1, <3>5, LandsMore
    <2> QED BY <2>1
<1> HIDE DEF S
<1>3. \A m \in Nat : m \in S  BY <1>1, <1>2, Induction
<1>4. ASSUME NEW L, NEW D, Suits(L, D) PROVE Lands(L, D)
    <2>1. Len(L) \in Nat  BY <1>4 DEF Suits
    <2>2. Len(L) \in S  BY <1>3, <2>1
    <2> QED BY <1>4, <2>1, <2>2 DEF S
<1> QED BY <1>4

(***************************************************************************)
(* The views of a call.                                                    *)
(***************************************************************************)
IsView(v) == /\ v.base \in Int /\ v.layout \in Seq(WholeDims)
             /\ \A k \in 1 .. Len(v.layout) : Size(v.layout[k]) > 0

(* How many elements a new array with the extensions of v has in front of one. *)
Ordinal(v, ix) == Position(LayoutOf(Extensions(v.layout)), ix)

LEMMA NewArraySuits ==
    ASSUME NEW v, IsView(v)
    PROVE  /\ Suits(v.layout, LayoutOf(Extensions(v.layout)))
           /\ LayoutOf(Extensions(v.layout)) \in ArrayLayouts
           /\ NumElements(LayoutOf(Extensions(v.layout))) = Volume(v)
           /\ Volume(v) \in Nat \ {0}
<1> DEFINE L == v.layout
           xs == Extensions(L)
           D == LayoutOf(xs)
<1>1. /\ L \in Seq(WholeDims) /\ L \in Seq(ArrayDims) /\ \A k \in 1 .. Len(L) : Size(L[k]) > 0
    BY WholeIsArray DEF IsView
<1> HIDE DEF L
<1>2. /\ xs \in Seq(Intervals) /\ Len(xs) = Len(L) /\ Counts(xs) = Sizes(L)
      /\ \A k \in 1 .. Len(L) : xs[k] = Extension(L[k])
    BY <1>1, ExtensionsFacts
<1>3. NumElements(L) \in Nat \ {0}
    <2>1. \A k \in 1 .. Len(L) : Size(L[k]) # 0  BY <1>1
    <2>2. /\ NumElements(L) \in Nat
          /\ NumElements(L) = 0 <=> \E k \in 1 .. Len(L) : Size(L[k]) = 0
        BY <1>1, SizesFacts
    <2> QED BY <2>1, <2>2
<1> HIDE DEF xs
<1>4. /\ D \in ArrayLayouts /\ Len(D) = Len(xs) /\ NumElements(D) = Product(Counts(xs))
      /\ NumElements(D) # 0 => Extensions(D) = xs
    BY <1>2, LayoutOfExtensions
<1> HIDE DEF D
<1>5. NumElements(D) = NumElements(L)  BY <1>2, <1>4 DEF NumElements
<1>6. D \in Seq(ArrayDims) /\ Dense(D) /\ Extensions(D) = xs  BY <1>3, <1>4, <1>5 DEF ArrayLayouts
<1>7. \A k \in 1 .. Len(L) : Extension(L[k]) = Extension(D[k])
    <2>1. \A k \in 1 .. Len(D) : Extensions(D)[k] = Extension(D[k])  BY <1>6, ExtensionsFacts
    <2> QED BY <1>2, <1>4, <1>6, <2>1
<1>8. Suits(L, D)  BY <1>1, <1>2, <1>4, <1>6, <1>7 DEF Suits
<1> QED BY <1>3, <1>4, <1>5, <1>8 DEF Volume, L, xs, D

(* The walk over a view meets the element of every tuple of indices, in their order. *)
LEMMA NthOfName ==
    ASSUME NEW v, IsView(v), NEW ix \in Names(v.layout)
    PROVE  Ordinal(v, ix) \in 0 .. Volume(v) - 1 /\ Nth(v, Ordinal(v, ix)) = Address(v, ix)
<1> DEFINE L == v.layout
           D == LayoutOf(Extensions(L))
           p == Position(D, ix)
<1>1. /\ Suits(L, D) /\ D \in ArrayLayouts /\ NumElements(D) = Volume(v)
      /\ Volume(v) \in Nat \ {0}
    BY NewArraySuits
<1>2. L \in Seq(Dims) /\ v.base \in Int  BY WholeIsArray DEF IsView
<1> HIDE DEF L, D
<1>3. ix \in Names(D)  BY <1>1, SuitsNames DEF L
<1>4. p \in 0 .. Volume(v) - 1
    <2>1. Position(D, ix) \in 0 .. NumElements(D) - 1  BY <1>1, <1>3, DenseInBlock DEF Names
    <2> QED BY <1>1, <2>1
<1> HIDE DEF p
<1>5. PICK f : Carries(L, [left |-> p, base |-> v.base], f) /\ Nth(v, p) = f[Len(L)].base
    BY <1>2, NthCarries DEF L
<1>6. p + 0 * NumElements(D) = p  BY <1>1, <1>4
<1>7. Carries(L, [left |-> Position(D, ix) + 0 * NumElements(D), base |-> v.base], f)
    BY <1>5, <1>6 DEF p
<1>8. f[Len(L)] = [left |-> 0, base |-> v.base + Position(L, ix)]
    <2>1. Lands(L, D)  BY <1>1, LandsAll
    <2> QED BY <1>2, <1>3, <1>7, <2>1 DEF Lands
<1>9. Nth(v, p) = Address(v, ix)  BY <1>5, <1>8 DEF Address, L
<1>10. Ordinal(v, ix) = p  BY DEF Ordinal, p, D, L
<1> QED BY <1>4, <1>9, <1>10

LEMMA NameOfNth ==
    ASSUME NEW v, IsView(v), NEW k \in 0 .. Volume(v) - 1
    PROVE  \E ix \in Names(v.layout) : Ordinal(v, ix) = k /\ Nth(v, k) = Address(v, ix)
<1> DEFINE L == v.layout
           D == LayoutOf(Extensions(L))
<1>1. Suits(L, D) /\ NumElements(D) = Volume(v)  BY NewArraySuits
<1>2. Rowwise(D)  BY <1>1, DenseRowwise DEF Suits
<1>3. PICK ix \in Names(D) : Position(D, ix) = k  BY <1>1, <1>2 DEF Rowwise
<1>4. ix \in Names(L)  BY <1>1, <1>3, SuitsNames
<1>5. Ordinal(v, ix) = k  BY <1>3 DEF Ordinal
<1>6. Nth(v, Ordinal(v, ix)) = Address(v, ix)  BY <1>4, NthOfName
<1> QED BY <1>4, <1>5, <1>6

Cells == 0 .. Room - 1

Walks(v) == /\ Volume(v) \in Nat \ {0}
            /\ \A k \in 0 .. Volume(v) - 1 : Nth(v, k) \in Reach(v) /\ Nth(v, k) \in Cells
            /\ \A j, k \in 0 .. Volume(v) - 1 : Nth(v, j) = Nth(v, k) => j = k

LEMMA OperandIsView == \A v \in Operands : IsView(v) /\ Len(v.layout) \in Nat \ {0}
<1> SUFFICES ASSUME NEW v \in Operands PROVE IsView(v) /\ Len(v.layout) \in Nat \ {0}
    OBVIOUS
<1> DEFINE L == v.layout
<1>1. /\ v.base \in Int /\ L \in Seq(Dims) /\ L # <<>>
      /\ \A k \in 1 .. Len(L) : WholeDim(L[k]) /\ L[k].nelems > 0
    BY OperandsAssumption DEF AllViews
<1> HIDE DEF L
<1>2. ASSUME NEW k \in 1 .. Len(L) PROVE L[k] \in WholeDims /\ Size(L[k]) > 0
    <2>1. L[k] \in Dims  BY <1>1
    <2>2. L[k] \in WholeDims /\ L[k].nelems > 0  BY <1>1, <2>1 DEF WholeDims
    <2>3. /\ L[k].stride \in Nat \ {0} /\ Size(L[k]) \in Nat /\ L[k].nelems = Size(L[k]) * L[k].stride
        BY <2>2, WholeDimFacts
    <2>4. Size(L[k]) # 0  BY <2>2, <2>3
    <2> QED BY <2>2, <2>3, <2>4
<1>3. L \in Seq(WholeDims)  BY <1>1, <1>2
<1>4. Len(L) \in Nat \ {0}  BY <1>1
<1> QED BY <1>1, <1>2, <1>3, <1>4 DEF IsView, L

(* No element is met twice. *)
LEMMA OperandWalks == \A v \in Operands : Walks(v)
<1> SUFFICES ASSUME NEW v \in Operands PROVE Walks(v)
    OBVIOUS
<1>1. IsView(v) /\ Volume(v) \in Nat \ {0}  BY OperandIsView, NewArraySuits
<1>2. /\ Reach(v) \subseteq Cells
      /\ \A ix, jx \in Names(v.layout) : Address(v, ix) = Address(v, jx) => ix = jx
    BY OperandsAssumption DEF Names, Cells
<1>3. ASSUME NEW k \in 0 .. Volume(v) - 1 PROVE Nth(v, k) \in Reach(v) /\ Nth(v, k) \in Cells
    <2>1. PICK ix \in Names(v.layout) : Nth(v, k) = Address(v, ix)  BY <1>1, NameOfNth
    <2>2. Nth(v, k) \in Reach(v)  BY <2>1 DEF Reach, Names
    <2> QED BY <1>2, <2>2
<1>4. ASSUME NEW j \in 0 .. Volume(v) - 1, NEW k \in 0 .. Volume(v) - 1, Nth(v, j) = Nth(v, k)
      PROVE  j = k
    <2>1. PICK ix \in Names(v.layout) : Ordinal(v, ix) = j /\ Nth(v, j) = Address(v, ix)
        BY <1>1, NameOfNth
    <2>2. PICK jx \in Names(v.layout) : Ordinal(v, jx) = k /\ Nth(v, k) = Address(v, jx)
        BY <1>1, NameOfNth
    <2>3. ix = jx  BY <1>2, <1>4, <2>1, <2>2
    <2> QED BY <2>1, <2>2, <2>3
<1> QED BY <1>1, <1>3, <1>4 DEF Walks

(* A single element is met again and again (fill). *)
LEMMA NthOfElement == \A c \in Cells, k \in Nat : Nth(Element(c), k) = c
<1> SUFFICES ASSUME NEW c \in Cells, NEW k \in Nat PROVE Nth(Element(c), k) = c
    OBVIOUS
<1>1. Element(c).layout = <<>> /\ Element(c).base = c  BY DEF Element, View
<1>2. Element(c).layout \in Seq(Dims) /\ Len(Element(c).layout) = 0  BY <1>1
<1>3. PICK f : /\ Carries(Element(c).layout, [left |-> k, base |-> Element(c).base], f)
               /\ Nth(Element(c), k) = f[Len(Element(c).layout)].base
    BY <1>2, NthCarries
<1>4. f[0] = [left |-> k, base |-> c]  BY <1>1, <1>3 DEF Carries
<1> QED BY <1>2, <1>3, <1>4

(* Over views alike but for their bases two walks keep their distance. *)
LEMMA WalksAlike ==
    ASSUME NEW v, NEW w, IsView(v), IsView(w),
           Strides(v) = Strides(w), Sizes(v.layout) = Sizes(w.layout)
    PROVE  /\ Volume(v) = Volume(w)
           /\ \A k \in Nat : Nth(w, k) \in Int /\ Nth(v, k) = Nth(w, k) + (v.base - w.base)
<1> DEFINE L == v.layout
           M == w.layout
<1>1. /\ L \in Seq(WholeDims) /\ M \in Seq(WholeDims) /\ v.base \in Int /\ w.base \in Int
      /\ L \in Seq(Dims) /\ M \in Seq(Dims)
      /\ \A j \in 1 .. Len(L) : Size(L[j]) > 0
    BY WholeIsArray DEF IsView
<1>2. Volume(v) = Volume(w)  BY DEF Volume, NumElements
<1>3. DOMAIN L = 1 .. Len(L) /\ DOMAIN M = 1 .. Len(M) /\ Len(L) \in Nat /\ Len(M) \in Nat  BY <1>1
<1>4. [j \in DOMAIN L |-> L[j].stride] = [j \in DOMAIN M |-> M[j].stride]  BY DEF Strides
<1>5. [j \in DOMAIN L |-> Size(L[j])] = [j \in DOMAIN M |-> Size(M[j])]  BY DEF Sizes
<1> HIDE DEF L, M
<1>6. DOMAIN L = DOMAIN M  BY <1>4
<1>7. \A j \in DOMAIN L : L[j].stride = M[j].stride /\ Size(L[j]) = Size(M[j])
    BY <1>4, <1>5, <1>6
<1>8. Len(L) = Len(M)
    <2>1. PICK x \in Nat, y \in Nat : x = Len(L) /\ y = Len(M)  BY <1>3
    <2>2. \A j : j \in 1 .. x <=> j \in 1 .. y  BY <1>3, <1>6, <2>1
    <2>3. x = y
        <3>1. (x = 0 \/ x \in 1 .. x) /\ (y = 0 \/ y \in 1 .. y)  OBVIOUS
        <3> QED BY <2>2, <3>1
    <2> QED BY <2>1, <2>3
<1>9. \A j \in 1 .. Len(L) : L[j].stride \in Int /\ Size(L[j]) \in Nat \ {0}
    <2> SUFFICES ASSUME NEW j \in 1 .. Len(L) PROVE L[j].stride \in Int /\ Size(L[j]) \in Nat \ {0}
        OBVIOUS
    <2>1. L[j] \in WholeDims /\ Size(L[j]) > 0  BY <1>1
    <2>2. L[j].stride \in Nat \ {0} /\ Size(L[j]) \in Nat  BY <2>1, WholeDimFacts
    <2> QED BY <2>1, <2>2
<1>10. ASSUME NEW k \in Nat PROVE Nth(w, k) \in Int /\ Nth(v, k) = Nth(w, k) + (v.base - w.base)
    <2>1. PICK f : Carries(L, [left |-> k, base |-> v.base], f) /\ Nth(v, k) = f[Len(L)].base
        BY <1>1, NthCarries DEF L
    <2>2. PICK g : Carries(M, [left |-> k, base |-> w.base], g) /\ Nth(w, k) = g[Len(M)].base
        BY <1>1, NthCarries DEF M
    <2> DEFINE Apart(j) == /\ f[j].left \in Int /\ f[j].left = g[j].left
                           /\ g[j].base \in Int /\ f[j].base = g[j].base + (v.base - w.base)
               S == {j \in 0 .. Len(L) : Apart(j)}
    <2>3. 0 \in S
        <3>1. f[0] = [left |-> k, base |-> v.base] /\ g[0] = [left |-> k, base |-> w.base]
            BY <2>1, <2>2 DEF Carries
        <3> QED BY <1>1, <1>3, <3>1
    <2>4. ASSUME NEW j \in 0 .. Len(L) - 1, j \in S PROVE j + 1 \in S
        <3> DEFINE i == Len(L) - (j + 1) + 1
        <3>1. i \in 1 .. Len(L) /\ i \in DOMAIN L /\ j + 1 \in 1 .. Len(L) /\ (j + 1) - 1 = j
            BY <1>3
        <3>2. f[j + 1] = Carry(L[i], f[j]) /\ g[j + 1] = Carry(M[i], g[j])
            BY <1>8, <2>1, <2>2, <3>1 DEF Carries
        <3> HIDE DEF i
        <3>3. L[i].stride = M[i].stride /\ Size(L[i]) = Size(M[i])  BY <1>7, <3>1
        <3>4. L[i].stride \in Int /\ Size(L[i]) \in Nat \ {0}  BY <1>9, <3>1
        <3>5. Apart(j)  BY <2>4
        <3>6. PICK x \in Int, b \in Int : f[j].left = x /\ g[j].left = x /\ g[j].base = b
                                          /\ f[j].base = b + (v.base - w.base)
            BY <3>5
        <3>7. PICK r \in Int, q \in Int : r = x % Size(L[i]) /\ q = x \div Size(L[i])
            BY <3>4
        <3>8. f[j + 1] = [left |-> q, base |-> (b + (v.base - w.base)) + r * L[i].stride]
            BY <3>2, <3>6, <3>7 DEF Carry
        <3>9. g[j + 1] = [left |-> q, base |-> b + r * L[i].stride]
            BY <3>2, <3>3, <3>6, <3>7 DEF Carry
        <3>10. /\ r * L[i].stride \in Int
               /\ (b + (v.base - w.base)) + r * L[i].stride = (b + r * L[i].stride) + (v.base - w.base)
            <4>1. v.base - w.base \in Int  BY <1>1
            <4>2. r * L[i].stride \in Int  BY <3>4
            <4> QED BY <4>1, <4>2
        <3>11. Apart(j + 1)  BY <3>8, <3>9, <3>10
        <3> QED BY <3>1, <3>11
    <2> HIDE DEF S
    <2>5. \A j \in 0 .. Len(L) : j \in S  BY <1>3, <2>3, <2>4, InductionTo
    <2>6. Len(L) \in S  BY <1>3, <2>5
    <2> QED BY <1>8, <2>1, <2>2, <2>6 DEF S
<1> QED BY <1>2, <1>10

(***************************************************************************)
(* Assertions.                                                             *)
(***************************************************************************)
LEMMA RowsFacts ==
    ASSUME NEW v, IsView(v), NEW m \in 0 .. Rank(v) - 1
    PROVE  Head(Rows(v, m).layout) = v.layout[m + 1] /\ Volume(Rows(v, m)) \in Nat \ {0}
<1> DEFINE L == v.layout
           R == SubSeq(L, m + 1, Len(L))
<1>1. Rows(v, m).layout = R  BY DEF Rows, View, Rank
<1>2. L \in Seq(WholeDims) /\ \A k \in 1 .. Len(L) : Size(L[k]) > 0  BY DEF IsView
<1>3. m \in 0 .. Len(L) - 1 /\ Len(L) \in Nat  BY <1>2 DEF Rank
<1> HIDE DEF L
<1>4. Len(R) = Len(L) - m /\ \A k \in 1 .. Len(R) : R[k] = L[m + k] /\ m + k \in 1 .. Len(L)
    BY <1>2, <1>3
<1>5. R \in Seq(WholeDims)  BY <1>2, <1>3
<1>6. 1 \in 1 .. Len(R)  BY <1>3, <1>4
<1> HIDE DEF R
<1>7. Head(R) = L[m + 1]
    <2>1. Head(R) = R[1]  BY <1>5
    <2> QED BY <1>4, <1>6, <2>1
<1>8. NumElements(R) \in Nat \ {0}
    <2>1. \A k \in 1 .. Len(R) : Size(R[k]) > 0  BY <1>2, <1>4
    <2>2. /\ NumElements(R) \in Nat
          /\ NumElements(R) = 0 <=> \E k \in 1 .. Len(R) : Size(R[k]) = 0
        BY <1>5, WholeIsArray, SizesFacts
    <2> QED BY <2>1, <2>2
<1> QED BY <1>1, <1>7, <1>8 DEF Volume, L, R

(* The assertions on the first rows are those on all rows. *)
LEMMA AssertedFirst ==
    ASSUME NEW v, IsView(v), NEW w, NEW o, Asserted(o, v, w, 0)
    PROVE  /\ \A m \in 0 .. Rank(v) - 1 :
                 Asserts(IF m = 0 THEN o ELSE OfRows(o), Rows(v, m), Rows(w, m))
           /\ \A k : Asserted(o, v, w, k)
<1>1. ASSUME NEW m \in 0 .. Rank(v) - 1
      PROVE  Asserts(IF m = 0 THEN o ELSE OfRows(o), Rows(v, m), Rows(w, m))
    <2>1. Volume(Rows(v, m)) \in Nat \ {0}  BY RowsFacts
    <2>2. 0 % Volume(Rows(v, m)) = 0  BY <2>1
    <2> QED BY <2>2, Zenon DEF Asserted
<1>2. \A k : Asserted(o, v, w, k)  BY <1>1, Zenon DEF Asserted
<1> QED BY <1>1, <1>2

(* They leave every element of the argument one of *this to be written to, and those *)
(* of a swap the same indices.                                                       *)
LEMMA AssertedFits ==
    ASSUME NEW v \in Operands, NEW w \in Operands, Rank(v) = Rank(w),
           NEW o \in {"=", "view=", "assign", "swap"}, Asserted(o, v, w, 0),
           o = "assign" => Size(Head(w.layout)) <= Size(Head(v.layout))
    PROVE  /\ Volume(w) <= Volume(v)
           /\ o = "swap" => Extensions(v.layout) = Extensions(w.layout)
<1> DEFINE L == v.layout
           M == w.layout
           At(m) == Asserts(IF m = 0 THEN o ELSE OfRows(o), Rows(v, m), Rows(w, m))
<1>1. /\ IsView(v) /\ IsView(w) /\ Len(L) \in Nat \ {0} /\ Len(L) = Len(M)
      /\ L \in Seq(WholeDims) /\ M \in Seq(WholeDims)
      /\ L \in Seq(ArrayDims) /\ M \in Seq(ArrayDims)
    BY OperandIsView, WholeIsArray DEF IsView, Rank
<1>2. \A m \in 0 .. Len(L) - 1 : At(m)  BY <1>1, AssertedFirst DEF Rank
<1>3. ASSUME NEW m \in 0 .. Len(L) - 1
      PROVE  Head(Rows(v, m).layout) = L[m + 1] /\ Head(Rows(w, m).layout) = M[m + 1]
    BY <1>1, RowsFacts DEF Rank
<1>4. ASSUME NEW k \in 1 .. Len(L)
      PROVE  /\ Size(L[k]) \in Nat /\ Size(M[k]) \in Nat
             /\ Extension(L[k]) = Extension(M[k]) => Size(L[k]) = Size(M[k])
    <2>1. L[k] \in ArrayDims /\ M[k] \in ArrayDims  BY <1>1
    <2>2. Size(L[k]) \in Nat /\ Count(Extension(L[k])) = Size(L[k])  BY <2>1, ArrayDimFacts
    <2>3. Size(M[k]) \in Nat /\ Count(Extension(M[k])) = Size(M[k])  BY <2>1, ArrayDimFacts
    <2> QED BY <2>2, <2>3
<1>5. ASSUME NEW k \in 2 .. Len(L) PROVE Size(L[k]) = Size(M[k])
    <2>1. k - 1 \in 0 .. Len(L) - 1 /\ k - 1 # 0 /\ (k - 1) + 1 = k /\ k \in 1 .. Len(L)  BY <1>1
    <2>2. Asserts(OfRows(o), Rows(v, k - 1), Rows(w, k - 1))  BY <1>2, <2>1
    <2>3. Head(Rows(v, k - 1).layout) = L[k] /\ Head(Rows(w, k - 1).layout) = M[k]
        BY <1>3, <2>1
    <2>4. Extension(L[k]) = Extension(M[k]) \/ Size(L[k]) = Size(M[k])
        BY <2>2, <2>3 DEF Asserts, OfRows, SameExtension, SameSize
    <2> QED BY <1>4, <2>1, <2>4
<1>6. Head(L) = L[1] /\ Head(M) = M[1] /\ 1 \in 1 .. Len(L)  BY <1>1
<1>7. Size(M[1]) <= Size(L[1])
    <2>1. 0 \in 0 .. Len(L) - 1 /\ 0 + 1 = 1  BY <1>1
    <2>2. Asserts(o, Rows(v, 0), Rows(w, 0))  BY <1>2, <2>1
    <2>3. Head(Rows(v, 0).layout) = L[1] /\ Head(Rows(w, 0).layout) = M[1]  BY <1>3, <2>1
    <2>4. \/ Extension(L[1]) = Extension(M[1]) \/ Size(L[1]) = Size(M[1])
          \/ Size(M[1]) <= Size(L[1])
        BY <1>6, <2>2, <2>3 DEF Asserts, SameExtension, SameSize
    <2> QED BY <1>4, <1>6, <2>4
<1>8. Volume(w) <= Volume(v)
    <2> DEFINE T == Tail(L)
               U == Tail(M)
    <2>1. /\ T \in Seq(ArrayDims) /\ U \in Seq(ArrayDims) /\ Len(L) = Len(T) + 1 /\ Len(M) = Len(U) + 1
          /\ Len(T) \in Nat /\ Len(U) \in Nat
          /\ \A k \in 1 .. Len(T) : L[k + 1] = T[k]
          /\ \A k \in 1 .. Len(U) : M[k + 1] = U[k]
        BY <1>1
    <2> HIDE DEF T, U
    <2>2. NumElements(L) = Size(L[1]) * NumElements(T)  BY <1>1, <2>1, NumElementsFirst
    <2>3. NumElements(M) = Size(M[1]) * NumElements(U)  BY <1>1, <2>1, NumElementsFirst
    <2>4. NumElements(T) = NumElements(U)
        <3>1. Len(T) = Len(U) /\ DOMAIN T = 1 .. Len(T) /\ DOMAIN U = 1 .. Len(T)
            <4>1. Len(T) = Len(U)
                <5>1. Len(L) = Len(T) + 1 /\ Len(L) = Len(U) + 1  BY <1>1, <2>1, Zenon
                <5>2. Len(T) \in Nat /\ Len(U) \in Nat  BY <2>1
                <5> QED BY ONLY <5>1, <5>2
            <4>2. DOMAIN T = 1 .. Len(T) /\ DOMAIN U = 1 .. Len(U)  BY <2>1
            <4> QED BY <4>1, <4>2
        <3>2. ASSUME NEW k \in 1 .. Len(T) PROVE Size(T[k]) = Size(U[k])
            <4>1. k + 1 \in 2 .. Len(L) /\ k \in 1 .. Len(U)  BY <2>1, <3>1
            <4> QED BY <1>5, <2>1, <4>1
        <3>3. Sizes(T) = Sizes(U)  BY <3>1, <3>2 DEF Sizes
        <3> QED BY <3>3 DEF NumElements
    <2>5. NumElements(T) \in Nat  BY <2>1, SizesFacts
    <2>6. Size(M[1]) \in Nat /\ Size(L[1]) \in Nat  BY <1>4, <1>6
    <2>7. Size(M[1]) * NumElements(T) <= Size(L[1]) * NumElements(T)
        <3>1. PICK x \in Nat, y \in Nat, z \in Nat : x = Size(M[1]) /\ y = Size(L[1]) /\ z = NumElements(T)
            BY <2>5, <2>6
        <3>2. x <= y  BY <1>7, <3>1
        <3>3. x * z <= y * z
            <4>1. (y - x) * z = y * z - x * z /\ (y - x) * z >= 0 /\ y * z \in Int /\ x * z \in Int
                BY <3>2
            <4> QED BY <4>1
        <3> QED BY <3>1, <3>3
    <2> QED BY <2>2, <2>3, <2>4, <2>7 DEF Volume
<1>9. ASSUME o = "swap" PROVE Extensions(L) = Extensions(M)
    <2>1. ASSUME NEW k \in 1 .. Len(L) PROVE Extension(L[k]) = Extension(M[k])
        <3>1. k - 1 \in 0 .. Len(L) - 1 /\ (k - 1) + 1 = k  BY <1>1
        <3>2. Asserts("swap", Rows(v, k - 1), Rows(w, k - 1))
            <4>1. At(k - 1)  BY <1>2, <3>1
            <4> QED BY <1>9, <4>1 DEF OfRows
        <3>3. Head(Rows(v, k - 1).layout) = L[k] /\ Head(Rows(w, k - 1).layout) = M[k]
            BY <1>3, <3>1
        <3> QED BY <3>2, <3>3 DEF Asserts, SameExtension
    <2>2. DOMAIN L = 1 .. Len(L) /\ DOMAIN M = 1 .. Len(L)  BY <1>1
    <2> QED BY <2>1, <2>2 DEF Extensions
<1> QED BY <1>8, <1>9

(***************************************************************************)
(* A call: what it was made with, and the elements of its walks.           *)
(***************************************************************************)
Called == /\ op \in {"=", "view=", "assign", "swap", "fill"}
          /\ to \in Operands
          /\ op = "fill" => \E c \in Cells : from = Element(c)
          /\ op # "fill" => from \in Operands /\ Rank(to) = Rank(from)
          /\ op = "assign" => Size(Head(from.layout)) <= Size(Head(to.layout))

LEMMA LengthNat == Called => Length \in Nat \ {0}
BY OperandWalks DEF Called, Walks, Length

(* Behind the first assertions both walks stay in the memory, and on their views. *)
LEMMA WithinViews ==
    ASSUME Called, Asserted(op, to, from, 0)
    PROVE  /\ \A k \in 0 .. Length - 1 : /\ Nth(to, k) \in Reach(to) /\ Nth(to, k) \in Cells
                                         /\ Nth(from, k) \in Cells
                                         /\ op # "fill" => Nth(from, k) \in Reach(from)
           /\ \A j, k \in 0 .. Length - 1 : Nth(to, j) = Nth(to, k) => j = k
           /\ op # "fill" => \A j, k \in 0 .. Length - 1 : Nth(from, j) = Nth(from, k) => j = k
<1>1. to \in Operands /\ Walks(to)  BY OperandWalks DEF Called
<1>2. Volume(to) \in Nat  BY <1>1 DEF Walks
<1>3. Length \in Nat /\ Length <= Volume(to)
    <2>1. CASE op = "fill"  BY <1>2, <2>1 DEF Length
    <2>2. CASE op # "fill"
        <3>1. from \in Operands /\ Rank(to) = Rank(from) /\ op \in {"=", "view=", "assign", "swap"}
              /\ (op = "assign" => Size(Head(from.layout)) <= Size(Head(to.layout)))
            BY <2>2 DEF Called
        <3>2. Volume(from) <= Volume(to)  BY <1>1, <3>1, AssertedFits
        <3> QED BY <2>2, <3>2, LengthNat DEF Length
    <2> QED BY <2>1, <2>2
<1>4. \A k \in 0 .. Length - 1 : k \in 0 .. Volume(to) - 1  BY <1>2, <1>3
<1>5. \A k \in 0 .. Length - 1 : Nth(to, k) \in Reach(to) /\ Nth(to, k) \in Cells
    BY <1>1, <1>4 DEF Walks
<1>6. \A j, k \in 0 .. Length - 1 : Nth(to, j) = Nth(to, k) => j = k  BY <1>1, <1>4 DEF Walks
<1>7. CASE op = "fill"
    <2>1. \A k \in 0 .. Length - 1 : Nth(from, k) \in Cells
        BY <1>3, <1>7, NthOfElement DEF Called
    <2> QED BY <1>5, <1>6, <1>7, <2>1
<1>8. CASE op # "fill"
    <2>1. Walks(from) /\ Length = Volume(from)  BY <1>8, OperandWalks DEF Called, Length
    <2>2. /\ \A k \in 0 .. Length - 1 : Nth(from, k) \in Reach(from) /\ Nth(from, k) \in Cells
          /\ \A j, k \in 0 .. Length - 1 : Nth(from, j) = Nth(from, k) => j = k
        BY <2>1 DEF Walks
    <2> QED BY <1>5, <1>6, <2>2
<1> QED BY <1>7, <1>8

(* Exchanging two elements keeps count of every value. *)
Exchanged(h, m, a, b) == /\ h[a] = m[b] /\ h[b] = m[a]
                         /\ \A c \in Cells \ {a, b} : h[c] = m[c]

LEMMA ExchangeCounts ==
    ASSUME NEW h, NEW m, NEW a \in Cells, NEW b \in Cells, Exchanged(h, m, a, b), NEW x
    PROVE  Occurrences(h, x) = Occurrences(m, x)
<1> DEFINE A == {c \in Cells : h[c] = x}
           B == {c \in Cells : m[c] = x}
           other == [c \in A |-> IF c = a THEN b ELSE IF c = b THEN a ELSE c]
<1>1. \A c \in Cells : h[c] = IF c = b THEN m[a] ELSE IF c = a THEN m[b] ELSE m[c]
    BY DEF Exchanged
<1>2. other \in [A -> B]
    <2> SUFFICES ASSUME NEW c \in A PROVE other[c] \in B
        OBVIOUS
    <2>1. c \in Cells /\ h[c] = x  OBVIOUS
    <2>2. CASE c = b  BY <1>1, <2>1, <2>2
    <2>3. CASE c = a /\ c # b  BY <1>1, <2>1, <2>3
    <2>4. CASE c # a /\ c # b  BY <1>1, <2>1, <2>4
    <2> QED BY <2>2, <2>3, <2>4
<1>3. \A c, d \in A : other[c] = other[d] => c = d  OBVIOUS
<1>4. \A e \in B : \E c \in A : other[c] = e
    <2> SUFFICES ASSUME NEW e \in B PROVE \E c \in A : other[c] = e
        OBVIOUS
    <2>1. e \in Cells /\ m[e] = x  OBVIOUS
    <2>2. CASE e = a
        <3>1. b \in A  BY <1>1, <2>1, <2>2
        <3> QED BY <2>2, <3>1
    <2>3. CASE e = b /\ e # a
        <3>1. a \in A  BY <1>1, <2>1, <2>3
        <3> QED BY <2>3, <3>1
    <2>4. CASE e # a /\ e # b
        <3>1. e \in A  BY <1>1, <2>1, <2>4
        <3> QED BY <2>4, <3>1
    <2> QED BY <2>2, <2>3, <2>4
<1>5. ExistsBijection(A, B)
    <2> HIDE DEF other, A, B
    <2> QED BY <1>2, <1>3, <1>4, Zenon DEF ExistsBijection, Bijection, Injection, Surjection, IsInjective
<1>6. IsFiniteSet(A)
    <2>1. IsFiniteSet(Cells)  BY RoomAssumption, FS_Interval DEF Cells
    <2> QED BY <2>1, FS_Subset
<1>7. Cardinality(A) = Cardinality(B)
    <2> HIDE DEF A, B, other
    <2> QED BY <1>5, <1>6, FS_Bijection
<1> QED BY <1>7 DEF Occurrences, Cells

(***************************************************************************)
(* The inductive invariant.  What is written reaches as far as the walks   *)
(* have come, nothing else has changed, and a call that has written has    *)
(* met all its assertions; so none can stop it later.  SafeToCopy makes    *)
(* the next element of the argument one of those that have not changed.    *)
(***************************************************************************)
Done      == \A k \in 0 .. n - 1 : memory[Nth(to, k)] = before[Nth(from, k)]
DoneBack  == \A k \in 0 .. n - 1 : memory[Nth(from, k)] = before[Nth(to, k)]
Met(c)    == \E k \in 0 .. n - 1 : c = Nth(to, k) \/ (op = "swap" /\ c = Nth(from, k))
Elsewhere == \A c \in Cells : Met(c) \/ memory[c] = before[c]

Progress == /\ memory \in [Cells -> Cells] /\ before \in [Cells -> Cells] /\ n \in Nat
            /\ status = "idle" => n = 0 /\ op = "none"
            /\ status # "idle" => Called /\ n <= Length
            /\ n > 0 => Asserted(op, to, from, 0)
            /\ n = 0 => memory = before
            /\ status = "stopped" => n = 0
            /\ status = "returned" => n = Length

Contents == /\ Elsewhere
            /\ op # "swap" /\ SafeToCopy(to, from) => Done
            /\ op = "fill" => memory[from.base] = before[from.base]
            /\ op = "swap" => \A x \in Cells : Occurrences(memory, x) = Occurrences(before, x)
            /\ op = "swap" /\ Disjoint(to, from) => Done /\ DoneBack

IInv == Progress /\ Contents

LEMMA InitInv == Init => IInv
<1> SUFFICES ASSUME Init PROVE IInv
    OBVIOUS
<1>1. /\ memory = [c \in Cells |-> c] /\ before = memory /\ n = 0 /\ status = "idle" /\ op = "none"
    BY DEF Init, Cells
<1>2. memory \in [Cells -> Cells]  BY <1>1
<1>3. Progress  BY <1>1, <1>2 DEF Progress
<1>4. Elsewhere  BY <1>1 DEF Elsewhere
<1>5. Done /\ DoneBack  BY <1>1 DEF Done, DoneBack
<1>6. Contents  BY <1>1, <1>4, <1>5 DEF Contents
<1> QED BY <1>3, <1>6 DEF IInv

(* A call begins with everything as it was. *)
LEMMA CallInv ==
    ASSUME IInv, NEW o \in {"=", "view=", "assign", "swap", "fill"}, NEW v \in Operands, NEW w,
           Call(o, v, w),
           o = "fill" => \E c \in Cells : w = Element(c),
           o # "fill" => w \in Operands /\ Rank(v) = Rank(w),
           o = "assign" => Size(Head(w.layout)) <= Size(Head(v.layout))
    PROVE  IInv'
<1>1. /\ status' = "running" /\ op' = o /\ to' = v /\ from' = w /\ before' = memory
      /\ memory' = memory /\ n' = n /\ n = 0 /\ memory \in [Cells -> Cells]
    BY DEF Call, IInv, Progress
<1>2. Called'  BY <1>1 DEF Called
<1>3. Length' \in Nat
    <2>1. Volume(v) \in Nat /\ (o # "fill" => Volume(w) \in Nat)  BY OperandWalks DEF Walks
    <2> QED BY <1>1, <2>1 DEF Length
<1>4. Progress'  BY <1>1, <1>2, <1>3 DEF Progress
<1>5. Elsewhere'  BY <1>1 DEF Elsewhere
<1>6. Done' /\ DoneBack'  BY <1>1 DEF Done, DoneBack
<1>7. (\A x \in Cells : Occurrences(memory, x) = Occurrences(before, x))'  BY <1>1
<1>8. (memory[from.base] = before[from.base])'  BY <1>1
<1>9. Contents'  BY <1>5, <1>6, <1>7, <1>8 DEF Contents
<1> QED BY <1>4, <1>9 DEF IInv

(* Once written, always as asserted: the elements in reach of a step. *)
LEMMA ReadyFacts ==
    ASSUME IInv, Ready
    PROVE  /\ Called /\ Asserted(op, to, from, 0) /\ n \in 0 .. Length - 1 /\ Length \in Nat
           /\ Nth(to, n) \in Cells /\ Nth(from, n) \in Cells
           /\ \A k \in 0 .. n - 1 : /\ Nth(to, k) \in Cells /\ Nth(from, k) \in Cells
                                    /\ Nth(to, k) # Nth(to, n)
                                    /\ op # "fill" => Nth(from, k) # Nth(from, n)
<1>1. Called /\ n \in Nat /\ n < Length /\ Length \in Nat
    BY LengthNat DEF IInv, Progress, Ready
<1>2. Asserted(op, to, from, 0)
    <2>1. CASE n = 0  BY <2>1 DEF Ready
    <2>2. CASE n # 0  BY <1>1, <2>2 DEF IInv, Progress
    <2> QED BY <2>1, <2>2
<1>3. n \in 0 .. Length - 1 /\ \A k \in 0 .. n - 1 : k \in 0 .. Length - 1 /\ k # n  BY <1>1
<1>4. \A k \in 0 .. Length - 1 : Nth(to, k) \in Cells /\ Nth(from, k) \in Cells
    BY <1>1, <1>2, WithinViews
<1>5. ASSUME NEW k \in 0 .. n - 1
      PROVE  Nth(to, k) # Nth(to, n) /\ (op # "fill" => Nth(from, k) # Nth(from, n))
    BY <1>1, <1>2, <1>3, WithinViews
<1> QED BY <1>1, <1>2, <1>3, <1>4, <1>5

LEMMA StepKeepsProgress ==
    ASSUME IInv, Ready, memory' \in [Cells -> Cells], n' = n + 1,
           UNCHANGED <<op, to, from, status, before>>
    PROVE  Progress'
<1>1. /\ Called /\ Asserted(op, to, from, 0) /\ n \in 0 .. Length - 1 /\ Length \in Nat
    BY ReadyFacts
<1>2. Called' /\ Asserted(op, to, from, 0)' /\ Length' = Length
    BY <1>1 DEF Called, Length
<1>3. n' \in Nat /\ n' # 0 /\ n' <= Length' /\ n' > 0  BY <1>1, <1>2
<1>4. status' = "running" /\ before' \in [Cells -> Cells]  BY DEF IInv, Progress, Ready
<1> QED BY <1>2, <1>3, <1>4 DEF Progress

(* What is copied next the walk has not written yet. *)
LEMMA SourceUnwritten ==
    ASSUME IInv, Ready, op # "swap", SafeToCopy(to, from)
    PROVE  memory[Nth(from, n)] = before[Nth(from, n)]
<1> DEFINE b == Nth(from, n)
<1>1. /\ Called /\ Asserted(op, to, from, 0) /\ n \in 0 .. Length - 1 /\ Length \in Nat /\ b \in Cells
    BY ReadyFacts
<1>2. CASE op = "fill"
    <2>1. PICK c \in Cells : from = Element(c)  BY <1>1, <1>2 DEF Called
    <2>2. b = c  BY <1>1, <2>1, NthOfElement
    <2>3. from.base = c  BY <2>1 DEF Element, View
    <2> QED BY <1>2, <2>2, <2>3 DEF IInv, Contents
<1>3. CASE op # "fill"
    <2>1. from \in Operands /\ to \in Operands  BY <1>1, <1>3 DEF Called
    <2>2. IsView(from) /\ IsView(to) /\ Rank(from) # 0  BY <2>1, OperandIsView DEF Rank
    <2>3. \A k \in 0 .. n - 1 : k \in 0 .. Length - 1 /\ k \in Nat /\ k < n  BY <1>1
    <2>4. ASSUME NEW k \in 0 .. n - 1 PROVE Nth(to, k) # b
        <3>1. CASE Disjoint(to, from)
            <4>1. Nth(to, k) \in Reach(to) /\ b \in Reach(from)  BY <1>1, <1>3, <2>3, WithinViews
            <4> QED BY <3>1, <4>1 DEF Disjoint
        <3>2. CASE Forward(to, from)
            <4>1. /\ Strides(to) = Strides(from) /\ Sizes(to.layout) = Sizes(from.layout)
                  /\ to.base <= from.base /\ Ascending(from)
                BY <3>2 DEF Forward
            <4>2. Nth(from, k) \in Int /\ Nth(to, k) = Nth(from, k) + (to.base - from.base)
                BY <2>2, <2>3, <4>1, WalksAlike
            <4>3. b \in Int  BY <1>1, <2>2, <4>1, WalksAlike
            <4>4. Length = Volume(from)  BY <1>3 DEF Length
            <4>5. Nth(from, k) < b  BY <1>1, <2>3, <4>1, <4>4 DEF Ascending
            <4>6. to.base \in Int /\ from.base \in Int  BY <2>2 DEF IsView
            <4> HIDE DEF b
            <4> QED BY <4>1, <4>2, <4>3, <4>5, <4>6
        <3> QED BY <2>2, <3>1, <3>2 DEF SafeToCopy
    <2>5. ~ Met(b)  BY <2>4 DEF Met
    <2> QED BY <1>1, <2>5 DEF IInv, Contents, Elsewhere
<1> QED BY <1>2, <1>3

LEMMA CopyInv == IInv /\ Copy => IInv'
<1> SUFFICES ASSUME IInv, Copy PROVE IInv'
    OBVIOUS
<1> DEFINE a == Nth(to, n)
           b == Nth(from, n)
<1>1. /\ Ready /\ op # "swap" /\ memory' = [memory EXCEPT ![a] = memory[b]] /\ n' = n + 1
      /\ op' = op /\ to' = to /\ from' = from /\ status' = status /\ before' = before
    BY DEF Copy
<1>2. /\ a \in Cells /\ b \in Cells /\ n \in Nat
      /\ \A k \in 0 .. n - 1 : Nth(to, k) \in Cells /\ Nth(to, k) # a
    BY <1>1, ReadyFacts
<1>3. memory \in [Cells -> Cells]  BY DEF IInv, Progress
<1> HIDE DEF a, b
<1>4. memory' \in [Cells -> Cells]  BY <1>1, <1>2, <1>3
<1>5. memory'[a] = memory[b] /\ \A c \in Cells : c # a => memory'[c] = memory[c]
    BY <1>1, <1>2, <1>3
<1>6. Progress'  BY <1>1, <1>4, StepKeepsProgress
<1>7. \A k \in 0 .. n' - 1 : k \in 0 .. n - 1 \/ k = n  BY <1>1, <1>2
<1>8. n \in 0 .. n' - 1 /\ \A k \in 0 .. n - 1 : k \in 0 .. n' - 1  BY <1>1, <1>2
<1>9. ASSUME NEW c \in Cells PROVE Met(c)' \/ memory'[c] = before'[c]
    <2>1. CASE c = a
        <3>1. Met(c)'  BY <1>1, <1>8, <2>1 DEF Met, a
        <3> QED BY <3>1
    <2>2. CASE c # a /\ Met(c)
        <3>1. Met(c)'  BY <1>1, <1>8, <2>2 DEF Met
        <3> QED BY <3>1
    <2>3. CASE c # a /\ memory[c] = before[c]  BY <1>1, <1>5, <2>3
    <2> QED BY <2>1, <2>2, <2>3 DEF IInv, Contents, Elsewhere
<1>10. Elsewhere'  BY <1>9 DEF Elsewhere
<1>11. ASSUME SafeToCopy(to, from) PROVE Done'
    <2>1. Done  BY <1>1, <1>11 DEF IInv, Contents
    <2>2. memory[b] = before[b]  BY <1>1, <1>11, SourceUnwritten DEF b
    <2>3. ASSUME NEW k \in 0 .. n' - 1 PROVE memory'[Nth(to, k)] = before[Nth(from, k)]
        <3>1. CASE k = n  BY <1>5, <2>2, <3>1 DEF a, b
        <3>2. CASE k \in 0 .. n - 1  BY <1>2, <1>5, <2>1, <3>2 DEF Done
        <3> QED BY <1>7, <3>1, <3>2
    <2> QED BY <1>1, <2>3 DEF Done
<1>12. ASSUME op = "fill" PROVE memory'[from.base] = before[from.base]
    <2>1. PICK c \in Cells : from = Element(c)  BY <1>1, <1>12, ReadyFacts DEF Called
    <2>2. from.base = c /\ b = c  BY <1>2, <2>1, NthOfElement DEF Element, View, b
    <2>3. memory[c] = before[c]  BY <1>12, <2>2 DEF IInv, Contents
    <2> QED BY <1>2, <1>5, <2>2, <2>3
<1>13. Contents'  BY <1>1, <1>10, <1>11, <1>12 DEF Contents
<1> QED BY <1>6, <1>13 DEF IInv

LEMMA ExchangeInv == IInv /\ Exchange => IInv'
<1> SUFFICES ASSUME IInv, Exchange PROVE IInv'
    OBVIOUS
<1> DEFINE a == Nth(to, n)
           b == Nth(from, n)
<1>1. /\ Ready /\ op = "swap" /\ n' = n + 1
      /\ memory' = [memory EXCEPT ![a] = memory[b], ![b] = memory[a]]
      /\ op' = op /\ to' = to /\ from' = from /\ status' = status /\ before' = before
    BY DEF Exchange
<1>2. /\ a \in Cells /\ b \in Cells /\ n \in 0 .. Length - 1 /\ n \in Nat /\ Length \in Nat
      /\ Called /\ Asserted(op, to, from, 0)
      /\ \A k \in 0 .. n - 1 : /\ Nth(to, k) \in Cells /\ Nth(to, k) # a
                               /\ Nth(from, k) \in Cells /\ Nth(from, k) # b
    BY <1>1, ReadyFacts
<1>3. memory \in [Cells -> Cells]  BY DEF IInv, Progress
<1>4. a \in Reach(to) /\ b \in Reach(from)
      /\ \A k \in 0 .. n - 1 : Nth(to, k) \in Reach(to) /\ Nth(from, k) \in Reach(from)
    <2>1. \A k \in 0 .. n - 1 : k \in 0 .. Length - 1  BY <1>2
    <2> QED BY <1>1, <1>2, <2>1, WithinViews
<1> HIDE DEF a, b
<1>5. memory' \in [Cells -> Cells]  BY <1>1, <1>2, <1>3
<1>6. /\ memory'[b] = memory[a]
      /\ a # b => memory'[a] = memory[b]
      /\ \A c \in Cells : c # a /\ c # b => memory'[c] = memory[c]
    BY <1>1, <1>2, <1>3
<1>7. Progress'  BY <1>1, <1>5, StepKeepsProgress
<1>8. \A k \in 0 .. n' - 1 : k \in 0 .. n - 1 \/ k = n  BY <1>1, <1>2
<1>9. n \in 0 .. n' - 1 /\ \A k \in 0 .. n - 1 : k \in 0 .. n' - 1  BY <1>1, <1>2
<1>10. ASSUME NEW c \in Cells PROVE Met(c)' \/ memory'[c] = before'[c]
    <2>1. CASE c = a \/ c = b
        <3>1. Met(c)'  BY <1>1, <1>9, <2>1 DEF Met, a, b
        <3> QED BY <3>1
    <2>2. CASE c # a /\ c # b /\ Met(c)
        <3>1. Met(c)'  BY <1>1, <1>9, <2>2 DEF Met
        <3> QED BY <3>1
    <2>3. CASE c # a /\ c # b /\ memory[c] = before[c]  BY <1>1, <1>6, <2>3
    <2> QED BY <2>1, <2>2, <2>3 DEF IInv, Contents, Elsewhere
<1>11. Elsewhere'  BY <1>10 DEF Elsewhere
<1>12. ASSUME NEW x \in Cells PROVE Occurrences(memory', x) = Occurrences(before, x)
    <2>1. Occurrences(memory', x) = Occurrences(memory, x)
        <3>1. Exchanged(memory', memory, a, b)  BY <1>6 DEF Exchanged
        <3> QED BY <1>2, <3>1, ExchangeCounts
    <2>2. Occurrences(memory, x) = Occurrences(before, x)  BY <1>1 DEF IInv, Contents
    <2> QED BY <2>1, <2>2
<1>13. ASSUME Disjoint(to, from) PROVE Done' /\ DoneBack'
    <2>1. Done /\ DoneBack  BY <1>1, <1>13 DEF IInv, Contents
    <2>2. /\ a # b /\ \A k \in 0 .. n - 1 : Nth(to, k) # b /\ Nth(from, k) # a
        BY <1>4, <1>13 DEF Disjoint
    <2>3. ~ Met(a) /\ ~ Met(b)  BY <1>2, <2>2 DEF Met
    <2>4. memory[a] = before[a] /\ memory[b] = before[b]
        BY <1>2, <2>3 DEF IInv, Contents, Elsewhere
    <2>5. ASSUME NEW k \in 0 .. n' - 1
          PROVE  /\ memory'[Nth(to, k)] = before[Nth(from, k)]
                 /\ memory'[Nth(from, k)] = before[Nth(to, k)]
        <3>1. CASE k = n  BY <1>6, <2>2, <2>4, <3>1 DEF a, b
        <3>2. CASE k \in 0 .. n - 1  BY <1>2, <1>6, <2>1, <2>2, <3>2 DEF Done, DoneBack
        <3> QED BY <1>8, <3>1, <3>2
    <2> QED BY <1>1, <2>5 DEF Done, DoneBack
<1>14. Contents'  BY <1>1, <1>11, <1>12, <1>13 DEF Contents
<1> QED BY <1>7, <1>14 DEF IInv

(* The other steps write nothing, and none stops that has written. *)
LEMMA EndInv == IInv /\ (Throw \/ Stop \/ Return) => IInv'
<1> SUFFICES ASSUME IInv, Throw \/ Stop \/ Return PROVE IInv'
    OBVIOUS
<1>1. UNCHANGED <<memory, op, to, from, n, before>>  BY DEF Throw, Stop, Return
<1>2. /\ status = "running"
      /\ \/ status' = "thrown" \/ (status' = "stopped" /\ ~ Asserted(op, to, from, n))
         \/ (status' = "returned" /\ n = Length)
    BY DEF Throw, Stop, Return, Ready
<1>3. Called /\ n <= Length /\ n \in Nat  BY <1>2 DEF IInv, Progress
<1>4. status' = "stopped" => n = 0
    <2> SUFFICES ASSUME status' = "stopped", n # 0 PROVE FALSE
        OBVIOUS
    <2>1. Asserted(op, to, from, 0)  BY <1>3 DEF IInv, Progress
    <2>2. IsView(to)  BY <1>3, OperandIsView DEF Called
    <2>3. Asserted(op, to, from, n)  BY <2>1, <2>2, AssertedFirst
    <2> QED BY <1>2, <2>3
<1>5. Called' /\ Length' = Length /\ (Asserted(op, to, from, 0) => Asserted(op, to, from, 0)')
    BY <1>1, <1>3 DEF Called, Length
<1>6. Progress'  BY <1>1, <1>2, <1>3, <1>4, <1>5 DEF IInv, Progress
<1>7. Contents'
    BY <1>1 DEF IInv, Contents, Elsewhere, Met, Done, DoneBack
<1> QED BY <1>6, <1>7 DEF IInv

LEMMA NextInv == IInv /\ [Next]_vars => IInv'
<1> SUFFICES ASSUME IInv, [Next]_vars PROVE IInv'
    OBVIOUS
<1>1. ASSUME NEW v \in Operands, NEW w \in Operands,
             CallAssign(v, w) \/ CallAssignView(v, w) \/ CallAssignRange(v, w) \/ CallSwap(v, w)
      PROVE  IInv'
    <2>1. CASE CallAssign(v, w)
        <3>1. Call("=", v, w) /\ Rank(v) = Rank(w)  BY <2>1 DEF CallAssign
        <3> QED BY <3>1, CallInv
    <2>2. CASE CallAssignView(v, w)
        <3>1. Call("view=", v, w) /\ Rank(v) = Rank(w)  BY <2>2 DEF CallAssignView
        <3> QED BY <3>1, CallInv
    <2>3. CASE CallAssignRange(v, w)
        <3>1. /\ Call("assign", v, w) /\ Rank(v) = Rank(w)
              /\ Size(Head(w.layout)) <= Size(Head(v.layout))
            BY <2>3 DEF CallAssignRange
        <3> QED BY <3>1, CallInv
    <2>4. CASE CallSwap(v, w)
        <3>1. Call("swap", v, w) /\ Rank(v) = Rank(w)  BY <2>4 DEF CallSwap
        <3> QED BY <3>1, CallInv
    <2> QED BY <1>1, <2>1, <2>2, <2>3, <2>4
<1>2. ASSUME NEW v \in Operands, NEW c \in 0 .. Room - 1, CallFill(v, c) PROVE IInv'
    <2>1. Call("fill", v, Element(c)) /\ c \in Cells  BY <1>2 DEF CallFill, Cells
    <2> QED BY <2>1, CallInv
<1>3. CASE UNCHANGED vars
    <2>1. UNCHANGED <<memory, op, to, from, n, status, before>>  BY <1>3 DEF vars
    <2>2. Progress'
        BY <2>1 DEF IInv, Progress, Called, Length
    <2>3. Contents'
        BY <2>1 DEF IInv, Contents, Elsewhere, Met, Done, DoneBack
    <2> QED BY <2>2, <2>3 DEF IInv
<1> QED BY <1>1, <1>2, <1>3, CopyInv, ExchangeInv, EndInv DEF Next

LEMMA Inductive == Spec => []IInv
<1> QED BY InitInv, NextInv, PTL DEF Spec

(***************************************************************************)
(* What it implies.                                                        *)
(***************************************************************************)
LEMMA OperandsChanged == IInv => OnlyOperandsChange
<1> SUFFICES ASSUME IInv, NEW c \in 0 .. Room - 1, memory[c] # before[c]
             PROVE  c \in Reach(to) \cup (IF op = "swap" THEN Reach(from) ELSE {})
    BY DEF OnlyOperandsChange
<1>1. Met(c)  BY DEF IInv, Contents, Elsewhere, Cells
<1>2. PICK k \in 0 .. n - 1 : c = Nth(to, k) \/ (op = "swap" /\ c = Nth(from, k))
    BY <1>1 DEF Met
<1>3. n \in Nat /\ n > 0  BY <1>2 DEF IInv, Progress
<1>4. Called /\ Asserted(op, to, from, 0) /\ n <= Length  BY <1>3 DEF IInv, Progress
<1>5. k \in 0 .. Length - 1  BY <1>3, <1>4, LengthNat
<1>6. Nth(to, k) \in Reach(to) /\ (op # "fill" => Nth(from, k) \in Reach(from))
    BY <1>4, <1>5, WithinViews
<1> QED BY <1>2, <1>6

(* Whole or cut off by an exception, an assignment has given the elements written so far the *)
(* values that the argument had when the call was made, over views that overlap as well if   *)
(* the copy may go forward, and no element outside *this another one (basic_array::operator=,*)
(* assign, fill).                                                                            *)
THEOREM ElementwiseAssignedSoFar == Spec => []AssignedSoFar
<1>1. IInv => AssignedSoFar
    BY OperandsChanged DEF IInv, Contents, Done, AssignedSoFar
<1> QED BY <1>1, Inductive, PTL

(* A call that an assertion stops has changed nothing: those on later rows never fail first. *)
THEOREM ElementwiseStopsBeforeWriting == Spec => []StopsBeforeWriting
<1>1. IInv => StopsBeforeWriting
    BY DEF IInv, Progress, StopsBeforeWriting
<1> QED BY <1>1, Inductive, PTL

(* A swap loses and doubles no value, whatever the overlap; apart, the views have exchanged  *)
(* theirs in the end, index by index (basic_array::swap).                                    *)
THEOREM ElementwiseSwapExchanges == Spec => []SwapExchanges
<1>1. ASSUME IInv, op = "swap" PROVE SwapExchanges
    <2>1. \A x \in 0 .. Room - 1 : Occurrences(memory, x) = Occurrences(before, x)
        BY <1>1 DEF IInv, Contents, Cells
    <2>2. ASSUME status = "returned", Disjoint(to, from), NEW ix \in Box(Extensions(to.layout))
          PROVE  /\ memory[Address(to, ix)] = before[Address(from, ix)]
                 /\ memory[Address(from, ix)] = before[Address(to, ix)]
        <3> DEFINE k == Ordinal(to, ix)
        <3>1. Called /\ n = Length  BY <1>1, <2>2 DEF IInv, Progress
        <3>2. /\ to \in Operands /\ from \in Operands /\ Rank(to) = Rank(from) /\ Length = Volume(from)
            BY <1>1, <3>1 DEF Called, Length
        <3>3. n > 0 /\ n \in Nat  BY <3>1, LengthNat
        <3>4. Asserted(op, to, from, 0)  BY <1>1, <3>3 DEF IInv, Progress
        <3>5. Extensions(to.layout) = Extensions(from.layout)  BY <1>1, <3>2, <3>4, AssertedFits
        <3>6. ix \in Names(to.layout) /\ ix \in Names(from.layout)  BY <2>2, <3>5 DEF Names
        <3>7. IsView(to) /\ IsView(from)  BY <3>2, OperandIsView
        <3>8. Nth(to, k) = Address(to, ix)  BY <3>6, <3>7, NthOfName
        <3>9. k = Ordinal(from, ix)  BY <3>5 DEF Ordinal
        <3> HIDE DEF k
        <3>10. k \in 0 .. Volume(from) - 1 /\ Nth(from, k) = Address(from, ix)
            BY <3>6, <3>7, <3>9, NthOfName
        <3>11. k \in 0 .. n - 1  BY <3>1, <3>2, <3>10
        <3>12. Done /\ DoneBack  BY <1>1, <2>2 DEF IInv, Contents
        <3> QED BY <3>8, <3>10, <3>11, <3>12 DEF Done, DoneBack
    <2> QED BY <2>1, <2>2 DEF SwapExchanges
<1>2. IInv => SwapExchanges  BY <1>1 DEF SwapExchanges
<1> QED BY <1>2, Inductive, PTL

(***************************************************************************)
(* Comparison.  First, rows decide: a lexicographic comparison is a total  *)
(* order if the one of rows is.  R is less and E is equal among the rows V,*)
(* a view is the function a from 0 .. p - 1 to its rows.                   *)
(***************************************************************************)
Orders(V, R, E) ==
    /\ \A x, y \in V : <<x, y>> \in R \/ <<x, y>> \in E \/ <<y, x>> \in R
    /\ \A x, y \in V : ~(<<x, y>> \in R /\ <<y, x>> \in R)
    /\ \A x, y \in V : ~(<<x, y>> \in R /\ <<x, y>> \in E)
    /\ \A x, y, z \in V : <<x, y>> \in R /\ <<y, z>> \in R => <<x, z>> \in R
    /\ \A x, y \in V : <<x, y>> \in E => <<y, x>> \in E
    /\ \A x, y, z \in V : <<x, y>> \in E /\ <<y, z>> \in E => <<x, z>> \in E

DecidedAt(i, a, p, b, q, R) == /\ i < q
                               /\ \A j \in 0 .. i - 1 : <<b[j], a[j]>> \notin R
                               /\ i = p \/ <<a[i], b[i]>> \in R
Decided(a, p, b, q, R) == \E i \in 0 .. p : DecidedAt(i, a, p, b, q, R)
Equated(a, p, b, q, E) == p = q /\ \A j \in 0 .. p - 1 : <<a[j], b[j]>> \in E

(* Not less is as good as less or equal. *)
LEMMA OrdersWeakly ==
    ASSUME NEW V, NEW R, NEW E, Orders(V, R, E), NEW x \in V, NEW y \in V, NEW z \in V
    PROVE  /\ <<x, y>> \in R /\ <<y, z>> \in E => <<x, z>> \in R
           /\ <<x, y>> \in E /\ <<y, z>> \in R => <<x, z>> \in R
           /\ <<x, y>> \in R /\ <<z, y>> \notin R => <<x, z>> \in R
           /\ <<y, x>> \notin R /\ <<y, z>> \in R => <<x, z>> \in R
           /\ <<y, x>> \notin R /\ <<z, y>> \notin R => <<z, x>> \notin R
<1>1. \A u, v \in V : <<u, v>> \in R \/ <<u, v>> \in E \/ <<v, u>> \in R  BY DEF Orders
<1>2. \A u, v \in V : ~(<<u, v>> \in R /\ <<v, u>> \in R)  BY DEF Orders
<1>3. \A u, v \in V : ~(<<u, v>> \in R /\ <<u, v>> \in E)  BY DEF Orders
<1>4. \A u, v, t \in V : <<u, v>> \in R /\ <<v, t>> \in R => <<u, t>> \in R  BY DEF Orders
<1>5. \A u, v \in V : <<u, v>> \in E => <<v, u>> \in E  BY DEF Orders
<1>6. \A u, v, t \in V : <<u, v>> \in E /\ <<v, t>> \in E => <<u, t>> \in E  BY DEF Orders
<1>7. <<x, y>> \in R /\ <<y, z>> \in E => <<x, z>> \in R
    <2> SUFFICES ASSUME <<x, y>> \in R, <<y, z>> \in E, <<x, z>> \notin R PROVE FALSE
        OBVIOUS
    <2>1. CASE <<x, z>> \in E
        <3>1. <<z, y>> \in E  BY <1>5
        <3>2. <<x, y>> \in E  BY <1>6, <2>1, <3>1
        <3> QED BY <1>3, <3>2
    <2>2. CASE <<z, x>> \in R
        <3>1. <<z, y>> \in R /\ <<z, y>> \in E  BY <1>4, <1>5, <2>2
        <3> QED BY <1>3, <3>1
    <2> QED BY <1>1, <2>1, <2>2
<1>8. <<x, y>> \in E /\ <<y, z>> \in R => <<x, z>> \in R
    <2> SUFFICES ASSUME <<x, y>> \in E, <<y, z>> \in R, <<x, z>> \notin R PROVE FALSE
        OBVIOUS
    <2>0. <<y, x>> \in E  BY <1>5
    <2>1. CASE <<x, z>> \in E
        <3>1. <<y, z>> \in E  BY <1>6, <2>0, <2>1
        <3> QED BY <1>3, <3>1
    <2>2. CASE <<z, x>> \in R
        <3>1. <<y, x>> \in R  BY <1>4, <2>2
        <3> QED BY <1>3, <2>0, <3>1
    <2> QED BY <1>1, <2>1, <2>2
<1>9. <<x, y>> \in R /\ <<z, y>> \notin R => <<x, z>> \in R
    <2> SUFFICES ASSUME <<x, y>> \in R, <<z, y>> \notin R PROVE <<x, z>> \in R
        OBVIOUS
    <2>1. <<y, z>> \in R \/ <<y, z>> \in E  BY <1>1, <1>5
    <2> QED BY <1>4, <1>7, <2>1
<1>10. <<y, x>> \notin R /\ <<y, z>> \in R => <<x, z>> \in R
    <2> SUFFICES ASSUME <<y, x>> \notin R, <<y, z>> \in R PROVE <<x, z>> \in R
        OBVIOUS
    <2>1. <<x, y>> \in R \/ <<x, y>> \in E  BY <1>1
    <2> QED BY <1>4, <1>8, <2>1
<1>11. <<y, x>> \notin R /\ <<z, y>> \notin R => <<z, x>> \notin R
    <2> SUFFICES ASSUME <<y, x>> \notin R, <<z, y>> \notin R, <<z, x>> \in R PROVE FALSE
        OBVIOUS
    <2>1. CASE <<x, y>> \in R  BY <1>4, <2>1
    <2>2. CASE <<x, y>> \in E
        <3>1. CASE <<y, z>> \in R  BY <1>4, <3>1
        <3>2. CASE <<y, z>> \in E
            <4>1. <<x, z>> \in E /\ <<z, x>> \in E  BY <1>5, <1>6, <2>2, <3>2
            <4> QED BY <1>3, <4>1
        <3> QED BY <1>1, <1>5, <3>1, <3>2
    <2> QED BY <1>1, <2>1, <2>2
<1> QED BY <1>7, <1>8, <1>9, <1>10, <1>11

LEMMA DecidedOnce ==
    ASSUME NEW V, NEW R, NEW E, Orders(V, R, E), NEW p \in Nat, NEW q \in Nat, NEW a, NEW b,
           \A j \in 0 .. p - 1 : a[j] \in V, \A j \in 0 .. q - 1 : b[j] \in V,
           NEW i \in 0 .. p, DecidedAt(i, a, p, b, q, R),
           NEW k \in 0 .. q, DecidedAt(k, b, q, a, p, R), i <= k
    PROVE  FALSE
<1>0. /\ i < q /\ (i = p \/ <<a[i], b[i]>> \in R)
      /\ k < p /\ (k = q \/ <<b[k], a[k]>> \in R)
      /\ \A j \in 0 .. k - 1 : <<a[j], b[j]>> \notin R
    BY DEF DecidedAt
<1>1. i # p /\ i \in 0 .. p - 1 /\ i \in 0 .. q - 1  BY <1>0
<1>2. <<a[i], b[i]>> \in R  BY <1>0, <1>1
<1>3. i = k  BY <1>0, <1>2
<1>4. <<b[i], a[i]>> \in R  BY <1>0, <1>1, <1>3
<1>5. a[i] \in V /\ b[i] \in V  BY <1>1
<1> QED BY <1>2, <1>4, <1>5 DEF Orders

LEMMA DecidedNotBoth ==
    ASSUME NEW V, NEW R, NEW E, Orders(V, R, E), NEW p \in Nat, NEW q \in Nat, NEW a, NEW b,
           \A j \in 0 .. p - 1 : a[j] \in V, \A j \in 0 .. q - 1 : b[j] \in V
    PROVE  ~(Decided(a, p, b, q, R) /\ Decided(b, q, a, p, R))
<1> SUFFICES ASSUME Decided(a, p, b, q, R), Decided(b, q, a, p, R) PROVE FALSE
    OBVIOUS
<1>1. PICK i \in 0 .. p : DecidedAt(i, a, p, b, q, R)  BY DEF Decided
<1>2. PICK k \in 0 .. q : DecidedAt(k, b, q, a, p, R)  BY DEF Decided
<1>3. CASE i <= k  BY <1>1, <1>2, <1>3, DecidedOnce
<1>4. CASE k <= i  BY <1>1, <1>2, <1>4, DecidedOnce
<1> QED BY <1>3, <1>4

LEMMA DecidedNotEquated ==
    ASSUME NEW V, NEW R, NEW E, Orders(V, R, E), NEW p \in Nat, NEW q \in Nat, NEW a, NEW b,
           \A j \in 0 .. p - 1 : a[j] \in V, \A j \in 0 .. q - 1 : b[j] \in V
    PROVE  ~(Decided(a, p, b, q, R) /\ Equated(a, p, b, q, E))
<1> SUFFICES ASSUME Decided(a, p, b, q, R), Equated(a, p, b, q, E) PROVE FALSE
    OBVIOUS
<1>1. PICK i \in 0 .. p : i < q /\ (i = p \/ <<a[i], b[i]>> \in R)
    BY DEF Decided, DecidedAt
<1>2. p = q /\ \A j \in 0 .. p - 1 : <<a[j], b[j]>> \in E  BY DEF Equated
<1>3. i \in 0 .. p - 1 /\ i \in 0 .. q - 1 /\ i # p  BY <1>1, <1>2
<1>4. <<a[i], b[i]>> \in R /\ <<a[i], b[i]>> \in E /\ a[i] \in V /\ b[i] \in V  BY <1>1, <1>2, <1>3
<1> QED BY <1>4 DEF Orders

(* Where rows differ, the first that do decide. *)
LEMMA DecidedOrEquated ==
    ASSUME NEW V, NEW R, NEW E, Orders(V, R, E), NEW p \in Nat, NEW q \in Nat, NEW a, NEW b,
           \A j \in 0 .. p - 1 : a[j] \in V, \A j \in 0 .. q - 1 : b[j] \in V
    PROVE  Decided(a, p, b, q, R) \/ Decided(b, q, a, p, R) \/ Equated(a, p, b, q, E)
<1> DEFINE Same(j) == <<a[j], b[j]>> \in E
           S == {m \in Nat : m <= p /\ m <= q => \/ \A j \in 0 .. m - 1 : Same(j)
                                                 \/ Decided(a, p, b, q, R)
                                                 \/ Decided(b, q, a, p, R)}
<1>0. ASSUME NEW j, j \in 0 .. p - 1, j \in 0 .. q - 1, Same(j)
      PROVE  <<a[j], b[j]>> \notin R /\ <<b[j], a[j]>> \notin R
    <2>1. a[j] \in V /\ b[j] \in V  BY <1>0
    <2> QED BY <1>0, <2>1 DEF Orders
<1>1. 0 \in S  OBVIOUS
<1>2. ASSUME NEW m \in Nat, m \in S PROVE m + 1 \in S
    <2> SUFFICES ASSUME m + 1 <= p, m + 1 <= q,
                        ~Decided(a, p, b, q, R), ~Decided(b, q, a, p, R)
                 PROVE  \A j \in 0 .. (m + 1) - 1 : Same(j)
        OBVIOUS
    <2>1. \A j \in 0 .. m - 1 : Same(j)  BY <1>2
    <2>2. \A j \in 0 .. m - 1 : <<a[j], b[j]>> \notin R /\ <<b[j], a[j]>> \notin R
        <3> TAKE j \in 0 .. m - 1
        <3>1. j \in 0 .. p - 1 /\ j \in 0 .. q - 1  OBVIOUS
        <3> QED BY <1>0, <2>1, <3>1
    <2>3. m \in 0 .. p /\ m \in 0 .. q /\ m < p /\ m < q /\ m \in 0 .. p - 1 /\ m \in 0 .. q - 1
        OBVIOUS
    <2>4. <<a[m], b[m]>> \notin R  BY <2>2, <2>3 DEF Decided, DecidedAt
    <2>5. <<b[m], a[m]>> \notin R  BY <2>2, <2>3 DEF Decided, DecidedAt
    <2>6. a[m] \in V /\ b[m] \in V  BY <2>3
    <2>7. Same(m)  BY <2>4, <2>5, <2>6 DEF Orders
    <2> HIDE DEF Same
    <2> QED BY <2>1, <2>7
<1> HIDE DEF S
<1>3. \A m \in Nat : m \in S  BY <1>1, <1>2, Induction
<1> SUFFICES ASSUME ~Decided(a, p, b, q, R), ~Decided(b, q, a, p, R) PROVE Equated(a, p, b, q, E)
    OBVIOUS
<1>4. \A m \in Nat : m <= p /\ m <= q => \A j \in 0 .. m - 1 : Same(j)  BY <1>3 DEF S
<1>5. p = q
    <2>1. CASE p < q
        <3>1. \A j \in 0 .. p - 1 : <<b[j], a[j]>> \notin R
            <4> TAKE j \in 0 .. p - 1
            <4>1. j \in 0 .. q - 1 /\ p <= p /\ p <= q  BY <2>1
            <4>2. Same(j)  BY <1>4, <4>1
            <4> QED BY <1>0, <4>1, <4>2
        <3>2. p \in 0 .. p  OBVIOUS
        <3>3. Decided(a, p, b, q, R)  BY <2>1, <3>1, <3>2 DEF Decided, DecidedAt
        <3> QED BY <3>3
    <2>2. CASE q < p
        <3>1. \A j \in 0 .. q - 1 : <<a[j], b[j]>> \notin R
            <4> TAKE j \in 0 .. q - 1
            <4>1. j \in 0 .. p - 1 /\ q <= q /\ q <= p  BY <2>2
            <4>2. Same(j)  BY <1>4, <4>1
            <4> QED BY <1>0, <4>1, <4>2
        <3>2. q \in 0 .. q  OBVIOUS
        <3>3. Decided(b, q, a, p, R)  BY <2>2, <3>1, <3>2 DEF Decided, DecidedAt
        <3> QED BY <3>3
    <2> QED BY <2>1, <2>2
<1>6. \A j \in 0 .. p - 1 : Same(j)  BY <1>4, <1>5
<1> QED BY <1>5, <1>6 DEF Equated

LEMMA DecidedTransitive ==
    ASSUME NEW V, NEW R, NEW E, Orders(V, R, E),
           NEW p \in Nat, NEW q \in Nat, NEW r \in Nat, NEW a, NEW b, NEW c,
           \A j \in 0 .. p - 1 : a[j] \in V, \A j \in 0 .. q - 1 : b[j] \in V,
           \A j \in 0 .. r - 1 : c[j] \in V,
           Decided(a, p, b, q, R), Decided(b, q, c, r, R)
    PROVE  Decided(a, p, c, r, R)
<1>1. PICK i \in 0 .. p : /\ i < q /\ (i = p \/ <<a[i], b[i]>> \in R)
                          /\ \A j \in 0 .. i - 1 : <<b[j], a[j]>> \notin R
    BY DEF Decided, DecidedAt
<1>2. PICK k \in 0 .. q : /\ k < r /\ (k = q \/ <<b[k], c[k]>> \in R)
                          /\ \A j \in 0 .. k - 1 : <<c[j], b[j]>> \notin R
    BY DEF Decided, DecidedAt
<1>3. ASSUME NEW h \in Nat, h <= i, h <= k
      PROVE  \A j \in 0 .. h - 1 : <<c[j], a[j]>> \notin R
    <2> SUFFICES ASSUME NEW j \in 0 .. h - 1 PROVE <<c[j], a[j]>> \notin R
        OBVIOUS
    <2>1. /\ j \in 0 .. i - 1 /\ j \in 0 .. k - 1
          /\ j \in 0 .. p - 1 /\ j \in 0 .. q - 1 /\ j \in 0 .. r - 1
        BY <1>1, <1>2, <1>3
    <2>2. <<b[j], a[j]>> \notin R /\ <<c[j], b[j]>> \notin R  BY <1>1, <1>2, <2>1
    <2>3. a[j] \in V /\ b[j] \in V /\ c[j] \in V  BY <2>1
    <2> QED BY <2>2, <2>3, OrdersWeakly
<1>4. CASE i < k
    <2>1. i \in Nat /\ i <= i /\ i <= k /\ i < r /\ i \in 0 .. q - 1 /\ i \in 0 .. r - 1
        BY <1>1, <1>2, <1>4
    <2>2. i = p \/ <<a[i], c[i]>> \in R
        <3> SUFFICES ASSUME i # p PROVE <<a[i], c[i]>> \in R
            OBVIOUS
        <3>1. i \in 0 .. p - 1 /\ i \in 0 .. k - 1  BY <1>4
        <3>2. <<a[i], b[i]>> \in R /\ <<c[i], b[i]>> \notin R  BY <1>1, <1>2, <3>1
        <3>3. a[i] \in V /\ b[i] \in V /\ c[i] \in V  BY <2>1, <3>1
        <3> QED BY <3>2, <3>3, OrdersWeakly
    <2>3. \A j \in 0 .. i - 1 : <<c[j], a[j]>> \notin R  BY <1>3, <2>1
    <2> QED BY <2>1, <2>2, <2>3 DEF Decided, DecidedAt
<1>5. CASE k <= i
    <2>1. /\ k \in Nat /\ k <= k /\ k <= i /\ k < r /\ k \in 0 .. p /\ k \in 0 .. q - 1
          /\ k \in 0 .. r - 1 /\ <<b[k], c[k]>> \in R
        BY <1>1, <1>2, <1>5
    <2>2. k = p \/ <<a[k], c[k]>> \in R
        <3> SUFFICES ASSUME k # p PROVE <<a[k], c[k]>> \in R
            OBVIOUS
        <3>1. k \in 0 .. p - 1  BY <2>1
        <3>2. a[k] \in V /\ b[k] \in V /\ c[k] \in V  BY <2>1, <3>1
        <3>3. CASE k = i
            <4>1. <<a[k], b[k]>> \in R  BY <1>1, <3>3
            <4> QED BY <2>1, <3>2, <4>1 DEF Orders
        <3>4. CASE k < i
            <4>1. <<b[k], a[k]>> \notin R  BY <1>1, <2>1, <3>4
            <4> QED BY <2>1, <3>2, <4>1, OrdersWeakly
        <3> QED BY <2>1, <3>3, <3>4
    <2>3. \A j \in 0 .. k - 1 : <<c[j], a[j]>> \notin R  BY <1>3, <2>1
    <2> QED BY <2>1, <2>2, <2>3 DEF Decided, DecidedAt
<1> QED BY <1>4, <1>5

(***************************************************************************)
(* The rows of a view.                                                     *)
(***************************************************************************)
Held(k) == {x \in AllViews : IsView(x) /\ Len(x.layout) = k /\ Reach(x) \subseteq Cells}

LEMMA HeldFacts ==
    ASSUME NEW k \in Nat, NEW x \in Held(k)
    PROVE  /\ x \in AllViews /\ x.base \in Int /\ x.layout \in Seq(WholeDims)
           /\ x.layout \in Seq(ArrayDims) /\ x.layout \in Seq(Dims) /\ Len(x.layout) = k
           /\ \A h \in 1 .. k : Size(x.layout[h]) > 0
           /\ \A ix \in Names(x.layout) : Address(x, ix) \in Cells
<1>1. /\ x \in AllViews /\ x.base \in Int /\ x.layout \in Seq(WholeDims) /\ Len(x.layout) = k
      /\ \A h \in 1 .. k : Size(x.layout[h]) > 0
    BY DEF Held, IsView
<1>2. Reach(x) \subseteq Cells  BY DEF Held
<1>3. \A ix \in Names(x.layout) : Address(x, ix) \in Cells  BY <1>2 DEF Reach, Names
<1> QED BY <1>1, <1>3, WholeIsArray

LEMMA FirstDim ==
    ASSUME NEW k \in Nat, NEW x \in Held(k + 1)
    PROVE  /\ Head(x.layout) = x.layout[1] /\ x.layout[1] \in WholeDims /\ First(x) \in Int
           /\ Size(Head(x.layout)) \in Nat \ {0}
           /\ Extension(Head(x.layout)) = <<First(x), First(x) + Size(Head(x.layout))>>
           /\ Head(x.layout).stride \in Int
           /\ Len(Tail(x.layout)) = k /\ Tail(x.layout) \in Seq(WholeDims)
<1> DEFINE L == x.layout
<1>1. /\ L \in Seq(WholeDims) /\ Len(L) = k + 1 /\ \A h \in 1 .. k + 1 : Size(L[h]) > 0
    BY HeldFacts
<1> HIDE DEF L
<1>2. Head(L) = L[1] /\ L[1] \in WholeDims /\ Size(L[1]) > 0  BY <1>1
<1>3. Len(Tail(L)) = k /\ Tail(L) \in Seq(WholeDims)  BY <1>1
<1> DEFINE d == L[1]
<1>4. /\ d.stride \in Nat \ {0} /\ Size(d) \in Nat /\ Quot(d.offset, d.stride) \in Int
      /\ Extension(d) = <<Quot(d.offset, d.stride), Quot(d.offset, d.stride) + Size(d)>>
    BY <1>2, WholeDimFacts
<1> HIDE DEF d
<1>5. First(x) = Extension(d)[1]  BY <1>2 DEF First, L, d
<1>6. First(x) = Quot(d.offset, d.stride)  BY <1>4, <1>5
<1>7. Extension(d) = <<First(x), First(x) + Size(d)>>  BY <1>4, <1>6
<1>8. Size(d) \in Nat \ {0} /\ d.stride \in Int /\ First(x) \in Int  BY <1>2, <1>4, <1>6 DEF d
<1> QED BY <1>2, <1>3, <1>7, <1>8 DEF L, d

LEMMA RowIs ==
    ASSUME NEW x, NEW i
    PROVE  /\ Row(x, i).base = x.base + i * Head(x.layout).stride
           /\ Row(x, i).layout = Tail(x.layout)
           /\ Row(x, i) = [base |-> x.base + i * Head(x.layout).stride, layout |-> Tail(x.layout)]
<1> DEFINE it == Iterator(x.base, Tail(x.layout), Head(x.layout).stride)
           far == [it EXCEPT !.base = @ + i * it.stride]
<1>1. /\ it.base = x.base /\ it.sub = Tail(x.layout) /\ it.stride = Head(x.layout).stride
    BY DEF Iterator
<1>2. far.base = it.base + i * it.stride /\ far.sub = it.sub  BY DEF Iterator
<1>3. Row(x, i) = [base |-> far.base, layout |-> far.sub]
    BY DEF Row, Pointee, Advanced, Begin, View
<1> HIDE DEF it, far
<1> QED BY <1>1, <1>2, <1>3

(* Where the indices of an element are those of its row and of it in its row. *)
LEMMA RowAddress ==
    ASSUME NEW k \in Nat, NEW x \in Held(k + 1), NEW ix \in Names(x.layout)
    PROVE  /\ ix[1] - First(x) \in RowNumbers(x) /\ ix[1] \in Int
           /\ Tail(ix) \in Names(Tail(x.layout))
           /\ Address(Row(x, ix[1] - First(x)), Tail(ix)) = Address(x, ix)
<1> DEFINE L == x.layout
           d == L[1]
           i == ix[1] - First(x)
           tx == Tail(ix)
<1>1. /\ L \in Seq(ArrayDims) /\ L \in Seq(Dims) /\ Len(L) = k + 1 /\ Len(L) > 0 /\ x.base \in Int
    BY HeldFacts
<1>2. /\ Head(L) = d /\ d \in WholeDims /\ Size(d) > 0 /\ Size(d) \in Nat
      /\ First(x) \in Int /\ Extension(d) = <<First(x), First(x) + Size(d)>>
    BY FirstDim
<1>3. /\ Tail(L) \in Seq(ArrayDims) /\ ix[1] \in Indices(Extension(d)) /\ tx \in Names(Tail(L))
      /\ Position(L, ix) = Shift(d, ix[1]) + Position(Tail(L), tx)
    BY <1>1, NameTail
<1> HIDE DEF L, d
<1>4. /\ ix[1] \in Int /\ ix[1] - Extension(d)[1] \in 0 .. Size(d) - 1
      /\ Shift(d, ix[1]) = (ix[1] - Extension(d)[1]) * d.stride
    BY <1>2, <1>3, ShiftInDim
<1>5. Extension(d)[1] = First(x)  BY <1>2
<1>6. i \in 0 .. Size(d) - 1 /\ Shift(d, ix[1]) = i * d.stride /\ d.stride \in Int /\ i \in Int
    <2>1. d.stride \in Nat \ {0}  BY <1>2, WholeDimFacts
    <2> QED BY <1>4, <1>5, <2>1
<1> HIDE DEF i, tx
<1>7. Position(Tail(L), tx) \in Int
    <2>1. IsName(Tail(L), tx)  BY <1>3, NamesAre
    <2>2. tx \in Seq(Int) /\ Len(tx) <= Len(Tail(L))
        BY <1>3, <2>1 DEF IsName
    <2>3. Tail(L) \in Seq(Dims)
        <3>1. \A e \in ArrayDims : e \in Dims  BY DEF ArrayDims
        <3> QED BY <1>3, <3>1
    <2> QED BY <2>2, <2>3, PositionInt
<1>8. Row(x, i).base = x.base + i * d.stride /\ Row(x, i).layout = Tail(L)
    BY <1>2, RowIs DEF L
<1>9. Address(x, ix) = x.base + (i * d.stride + Position(Tail(L), tx))
    BY <1>3, <1>6 DEF Address, L
<1>10. Address(Row(x, i), tx) = (x.base + i * d.stride) + Position(Tail(L), tx)
    BY <1>8 DEF Address
<1>11. i * d.stride \in Int  BY <1>6
<1>12. Address(Row(x, i), tx) = Address(x, ix)
    <2> DEFINE s == i * d.stride
               t == Position(Tail(L), tx)
    <2>1. s \in Int /\ t \in Int /\ x.base \in Int  BY <1>1, <1>7, <1>11
    <2>2. Address(Row(x, i), tx) = (x.base + s) + t /\ Address(x, ix) = x.base + (s + t)
        BY <1>9, <1>10
    <2> HIDE DEF s, t
    <2> QED BY <2>1, <2>2
<1>13. i \in RowNumbers(x)  BY <1>2, <1>6 DEF RowNumbers, L
<1> QED BY <1>3, <1>4, <1>12, <1>13 DEF i, tx, L

LEMMA RowName ==
    ASSUME NEW k \in Nat, NEW x \in Held(k + 1), NEW i \in RowNumbers(x),
           NEW tx \in Names(Tail(x.layout))
    PROVE  \E ix \in Names(x.layout) : ix[1] = First(x) + i /\ Tail(ix) = tx
<1> DEFINE L == x.layout
           d == L[1]
           ix == <<First(x) + i>> \o tx
<1>1. /\ L \in Seq(ArrayDims) /\ Len(L) = k + 1  BY HeldFacts
<1>2. /\ Head(L) = d /\ Size(d) \in Nat /\ First(x) \in Int
      /\ Extension(d) = <<First(x), First(x) + Size(d)>>
    BY FirstDim
<1>3. i \in 0 .. Size(d) - 1  BY <1>2 DEF RowNumbers
<1>4. /\ Tail(L) \in Seq(ArrayDims) /\ Len(Tail(L)) = k /\ \A h \in 1 .. k : Tail(L)[h] = L[h + 1]
    BY <1>1
<1>5. /\ tx \in Seq(Int) /\ Len(tx) = k /\ \A h \in 1 .. k : tx[h] \in Indices(Extension(Tail(L)[h]))
    <2>1. IsName(Tail(L), tx)  BY <1>4, NamesAre
    <2> QED BY <1>4, <2>1 DEF IsName
<1> HIDE DEF L, d
<1>6. First(x) + i \in Int /\ First(x) + i \in Indices(Extension(d))
    <2>1. Indices(Extension(d)) = First(x) .. First(x) + Size(d) - 1  BY <1>2 DEF Indices
    <2> QED BY <1>2, <1>3, <2>1
<1>7. /\ ix \in Seq(Int) /\ Len(ix) = k + 1 /\ ix[1] = First(x) + i /\ Tail(ix) = tx
      /\ \A h \in 2 .. k + 1 : ix[h] = tx[h - 1]
    BY <1>5, <1>6
<1> HIDE DEF ix
<1>8. ASSUME NEW h \in 1 .. k + 1 PROVE ix[h] \in Indices(Extension(L[h]))
    <2>1. CASE h = 1  BY <1>6, <1>7, <2>1 DEF d
    <2>2. CASE h # 1
        <3>1. h - 1 \in 1 .. k /\ (h - 1) + 1 = h /\ h \in 2 .. k + 1  BY <2>2
        <3>2. ix[h] = tx[h - 1] /\ Tail(L)[h - 1] = L[h]  BY <1>4, <1>7, <3>1
        <3> QED BY <1>5, <3>1, <3>2
    <2> QED BY <2>1, <2>2
<1>9. IsName(L, ix)  BY <1>1, <1>7, <1>8 DEF IsName
<1>10. ix \in Names(L)  BY <1>1, <1>9, NamesAre
<1> QED BY <1>7, <1>10 DEF L

LEMMA RowHeld ==
    ASSUME NEW k \in Nat, NEW x \in Held(k + 1), NEW i \in RowNumbers(x)
    PROVE  Row(x, i) \in Held(k)
<1> DEFINE y == Row(x, i)
           T == Tail(x.layout)
<1>1. /\ y.base = x.base + i * Head(x.layout).stride /\ y.layout = T
      /\ y = [base |-> x.base + i * Head(x.layout).stride, layout |-> T]
    BY RowIs
<1>2. /\ x.base \in Int /\ x.layout \in Seq(WholeDims) /\ Len(x.layout) = k + 1
      /\ \A h \in 1 .. k + 1 : Size(x.layout[h]) > 0
    BY HeldFacts
<1>3. Head(x.layout).stride \in Int /\ Len(T) = k /\ T \in Seq(WholeDims)
      /\ Size(Head(x.layout)) \in Nat
    BY FirstDim
<1>4. i \in Int  BY <1>3 DEF RowNumbers
<1>5. x.base + i * Head(x.layout).stride \in Int  BY <1>2, <1>3, <1>4
<1>6. T \in Seq(Dims)  BY <1>3, WholeIsArray
<1>7. \A h \in 1 .. Len(T) : Size(T[h]) > 0
    <2> TAKE h \in 1 .. Len(T)
    <2>1. h + 1 \in 1 .. k + 1 /\ T[h] = x.layout[h + 1]  BY <1>2, <1>3
    <2> QED BY <1>2, <2>1
<1> HIDE DEF y, T
<1>8. y \in AllViews  BY <1>1, <1>5, <1>6 DEF AllViews
<1>9. IsView(y)  BY <1>1, <1>3, <1>5, <1>7 DEF IsView
<1>10. Reach(y) \subseteq Cells
    <2> SUFFICES ASSUME NEW tx \in Names(T) PROVE Address(y, tx) \in Cells
        BY <1>1 DEF Reach, Names
    <2>1. PICK ix \in Names(x.layout) : ix[1] = First(x) + i /\ Tail(ix) = tx
        BY RowName DEF T
    <2>2. First(x) \in Int  BY FirstDim
    <2>3. ix[1] - First(x) = i  BY <1>4, <2>1, <2>2
    <2>4. Address(y, tx) = Address(x, ix)  BY <2>1, <2>3, RowAddress DEF y
    <2> QED BY <2>4, HeldFacts
<1> QED BY <1>1, <1>3, <1>8, <1>9, <1>10 DEF Held, y

(***************************************************************************)
(* Equality.                                                               *)
(***************************************************************************)
EqualAbove(m, k, under) ==
    [x \in AllViews |-> [y \in AllViews |->
        IF k = 0 THEN m[x.base] = m[y.base]
        ELSE /\ SameExtension(x, y)
             /\ \A i \in RowNumbers(x) : under[Row(x, i)][Row(y, i)]]]
Equals(m, K) == CHOOSE f : f = [k \in 0 .. K |-> EqualAbove(m, k, f[k - 1])]

LEMMA EqualsExist ==
    ASSUME NEW m, NEW K \in Nat
    PROVE  \E f : f = [k \in 0 .. K |-> EqualAbove(m, k, f[k - 1])]
<1> DEFINE Is(h, f) == f = [k \in 0 .. h |-> EqualAbove(m, k, f[k - 1])]
           S == {h \in Nat : \E f : Is(h, f)}
<1>0. \A u, w : EqualAbove(m, 0, u) = EqualAbove(m, 0, w)
    <2> TAKE u, w
    <2> QED BY DEF EqualAbove
<1>1. 0 \in S
    <2> DEFINE g == [k \in 0 .. 0 |-> EqualAbove(m, 0, m)]
    <2>1. Is(0, g)
        <3>1. \A k \in 0 .. 0 : k = 0  OBVIOUS
        <3>2. \A k \in 0 .. 0 : EqualAbove(m, 0, m) = EqualAbove(m, k, g[k - 1])  BY <1>0, <3>1, Zenon
        <3> QED BY <3>2, Zenon
    <2>2. \E f : Is(0, f)  BY <2>1, Zenon
    <2> HIDE DEF Is
    <2> QED BY <2>2
<1>2. ASSUME NEW h \in Nat, h \in S PROVE h + 1 \in S
    <2>1. PICK f : Is(h, f)  BY <1>2
    <2> DEFINE new == EqualAbove(m, h + 1, f[h])
               g == [k \in 0 .. h + 1 |-> IF k = h + 1 THEN new ELSE f[k]]
    <2>2. \A k \in 0 .. h : g[k] = f[k]  OBVIOUS
    <2>3. Is(h + 1, g)
        <3> SUFFICES ASSUME NEW k \in 0 .. h + 1
                     PROVE  (IF k = h + 1 THEN new ELSE f[k]) = EqualAbove(m, k, g[k - 1])
            BY Zenon
        <3>1. CASE k = h + 1
            <4>1. k - 1 = h /\ h \in 0 .. h  BY <3>1
            <4>2. g[h] = f[h]  BY <2>2, <4>1
            <4> QED BY <3>1, <4>1, <4>2, Zenon
        <3>2. CASE k # h + 1
            <4>1. k \in 0 .. h  BY <3>2
            <4>2. f[k] = EqualAbove(m, k, f[k - 1])  BY <2>1, <4>1, Zenon
            <4>3. CASE k = 0  BY <1>0, <3>2, <4>2, <4>3, Zenon
            <4>4. CASE k # 0
                <5>1. k - 1 \in 0 .. h  BY <4>1, <4>4
                <5>2. g[k - 1] = f[k - 1]  BY <2>2, <5>1
                <5> HIDE DEF g
                <5> QED BY <3>2, <4>2, <5>2, Zenon
            <4> QED BY <4>3, <4>4
        <3> QED BY <3>1, <3>2
    <2>4. \E u : Is(h + 1, u)  BY <2>3, Zenon
    <2> HIDE DEF Is
    <2> QED BY <2>4
<1> HIDE DEF S
<1>3. \A h \in Nat : h \in S  BY <1>1, <1>2, Induction
<1>4. K \in S  BY <1>3
<1> QED BY <1>4, Zenon DEF S

Unfolds(m, K, f) == \A k \in 0 .. K : f[k] = EqualAbove(m, k, f[k - 1])

LEMMA EqualsUnfold ==
    ASSUME NEW m, NEW K \in Nat
    PROVE  Unfolds(m, K, Equals(m, K))
<1>1. \E f : f = [k \in 0 .. K |-> EqualAbove(m, k, f[k - 1])]  BY EqualsExist
<1>2. Equals(m, K) = [k \in 0 .. K |-> EqualAbove(m, k, Equals(m, K)[k - 1])]
    BY <1>1, Zenon DEF Equals
<1> QED BY <1>2, Zenon DEF Unfolds

LEMMA EqualIs ==
    ASSUME NEW m, NEW v, NEW w
    PROVE  Equal(m, v, w) = Equals(m, Rank(v))[Rank(v)][v][w]
BY DEF Equal, Equals, EqualAbove

LEMMA UnfoldsAt ==
    ASSUME NEW m, NEW K \in Nat, NEW f, Unfolds(m, K, f), NEW x \in AllViews, NEW y \in AllViews
    PROVE  /\ f[0][x][y] <=> m[x.base] = m[y.base]
           /\ \A k \in 1 .. K : f[k][x][y] <=>
                 /\ SameExtension(x, y)
                 /\ \A i \in RowNumbers(x) : f[k - 1][Row(x, i)][Row(y, i)]
<1>1. 0 \in 0 .. K  OBVIOUS
<1>2. f[0] = EqualAbove(m, 0, f[0 - 1])  BY <1>1, Zenon DEF Unfolds
<1>3. f[0][x][y] = (m[x.base] = m[y.base])  BY <1>2 DEF EqualAbove
<1>4. ASSUME NEW k \in 1 .. K
      PROVE  f[k][x][y] = (/\ SameExtension(x, y)
                           /\ \A i \in RowNumbers(x) : f[k - 1][Row(x, i)][Row(y, i)])
    <2>1. k \in 0 .. K /\ k # 0  OBVIOUS
    <2>2. f[k] = EqualAbove(m, k, f[k - 1])  BY <2>1, Zenon DEF Unfolds
    <2> QED BY <2>1, <2>2 DEF EqualAbove
<1> QED BY <1>3, <1>4, Zenon

(* What equality should be: the same indices, and the same value at each. *)
SameValues(m, x, y) == /\ Extensions(x.layout) = Extensions(y.layout)
                       /\ \A ix \in Names(x.layout) : m[Address(x, ix)] = m[Address(y, ix)]

LEMMA SameOfNone ==
    ASSUME NEW m, NEW x \in Held(0), NEW y \in Held(0)
    PROVE  SameValues(m, x, y) <=> m[x.base] = m[y.base]
<1>1. /\ x.layout = <<>> /\ y.layout = <<>> /\ x.base \in Int /\ y.base \in Int
    <2>1. /\ x.layout \in Seq(Dims) /\ Len(x.layout) = 0 /\ x.base \in Int
          /\ y.layout \in Seq(Dims) /\ Len(y.layout) = 0 /\ y.base \in Int
        BY HeldFacts
    <2>2. \A L \in Seq(Dims) : Len(L) = 0 => L = <<>>  OBVIOUS
    <2> QED BY <2>1, <2>2
<1>2. Names(x.layout) = {<<>>}  BY <1>1, NoNames
<1>3. Address(x, <<>>) = x.base + 0 /\ Address(y, <<>>) = y.base + 0
    BY <1>1, NoNames DEF Address
<1>4. Address(x, <<>>) = x.base /\ Address(y, <<>>) = y.base  BY <1>1, <1>3
<1>5. Extensions(x.layout) = Extensions(y.layout)  BY <1>1
<1> QED BY <1>2, <1>4, <1>5 DEF SameValues

LEMMA ExtensionsSplit ==
    ASSUME NEW k \in Nat, NEW x \in Held(k + 1), NEW y \in Held(k + 1)
    PROVE  Extensions(x.layout) = Extensions(y.layout)
              <=> /\ SameExtension(x, y)
                  /\ Extensions(Tail(x.layout)) = Extensions(Tail(y.layout))
<1> DEFINE L == x.layout
           M == y.layout
<1>1. /\ L \in Seq(WholeDims) /\ M \in Seq(WholeDims) /\ Len(L) = k + 1 /\ Len(M) = k + 1
      /\ L \in Seq(ArrayDims) /\ M \in Seq(ArrayDims)
    BY HeldFacts
<1> HIDE DEF L, M
<1>2. /\ Tail(L) \in Seq(ArrayDims) /\ Tail(M) \in Seq(ArrayDims)
      /\ Len(Tail(L)) = k /\ Len(Tail(M)) = k
      /\ \A h \in 1 .. k : Tail(L)[h] = L[h + 1] /\ Tail(M)[h] = M[h + 1]
      /\ Head(L) = L[1] /\ Head(M) = M[1]
    BY <1>1
<1> DEFINE A == Extensions(L)  B == Extensions(M)  C == Extensions(Tail(L))  D == Extensions(Tail(M))
<1>3. A \in Seq(Intervals) /\ Len(A) = k + 1 /\ \A h \in 1 .. k + 1 : A[h] = Extension(L[h])
    BY <1>1, ExtensionsFacts
<1>4. B \in Seq(Intervals) /\ Len(B) = k + 1 /\ \A h \in 1 .. k + 1 : B[h] = Extension(M[h])
    BY <1>1, ExtensionsFacts
<1>5. C \in Seq(Intervals) /\ Len(C) = k /\ \A h \in 1 .. k : C[h] = Extension(Tail(L)[h])
    BY <1>2, ExtensionsFacts
<1>6. D \in Seq(Intervals) /\ Len(D) = k /\ \A h \in 1 .. k : D[h] = Extension(Tail(M)[h])
    BY <1>2, ExtensionsFacts
<1> HIDE DEF A, B, C, D
<1>7. \A h \in 1 .. k : h + 1 \in 1 .. k + 1 /\ C[h] = A[h + 1] /\ D[h] = B[h + 1]
    BY <1>2, <1>3, <1>4, <1>5, <1>6
<1>8. SameExtension(x, y) <=> A[1] = B[1]
    <2>1. 1 \in 1 .. k + 1  OBVIOUS
    <2>2. A[1] = Extension(Head(L)) /\ B[1] = Extension(Head(M))  BY <1>2, <1>3, <1>4, <2>1
    <2> QED BY <2>2 DEF SameExtension, L, M
<1>9. ASSUME A = B PROVE A[1] = B[1] /\ C = D
    <2>1. \A h \in 1 .. k : C[h] = D[h]  BY <1>7, <1>9
    <2> QED BY <1>5, <1>6, <1>9, <2>1
<1>10. ASSUME A[1] = B[1], C = D PROVE A = B
    <2>1. ASSUME NEW h \in 1 .. k + 1 PROVE A[h] = B[h]
        <3>1. CASE h = 1  BY <1>10, <3>1
        <3>2. CASE h # 1
            <4>1. h - 1 \in 1 .. k /\ (h - 1) + 1 = h  BY <3>2
            <4>2. C[h - 1] = A[(h - 1) + 1] /\ D[h - 1] = B[(h - 1) + 1]  BY <1>7, <4>1
            <4> QED BY <1>10, <4>1, <4>2
        <3> QED BY <3>1, <3>2
    <2> QED BY <1>3, <1>4, <2>1
<1>11. (A = B) <=> (A[1] = B[1] /\ C = D)  BY <1>9, <1>10
<1> QED BY <1>8, <1>11 DEF A, B, C, D, L, M

(* A view of the same extension has as many rows, from the same index on. *)
LEMMA SameRows ==
    ASSUME NEW k \in Nat, NEW x \in Held(k + 1), NEW y \in Held(k + 1)
    PROVE  SameExtension(x, y) <=> First(x) = First(y) /\ RowNumbers(x) = RowNumbers(y)
<1>1. /\ Size(Head(x.layout)) \in Nat \ {0} /\ First(x) \in Int
      /\ Extension(Head(x.layout)) = <<First(x), First(x) + Size(Head(x.layout))>>
      /\ Size(Head(y.layout)) \in Nat \ {0} /\ First(y) \in Int
      /\ Extension(Head(y.layout)) = <<First(y), First(y) + Size(Head(y.layout))>>
    BY FirstDim
<1>2. ASSUME SameExtension(x, y) PROVE First(x) = First(y) /\ RowNumbers(x) = RowNumbers(y)
    <2>1. First(x) = First(y)  BY <1>2 DEF First, SameExtension
    <2>2. First(x) + Size(Head(x.layout)) = First(y) + Size(Head(y.layout))
        BY <1>1, <1>2 DEF SameExtension
    <2>3. Size(Head(x.layout)) = Size(Head(y.layout))  BY ONLY <1>1, <2>1, <2>2
    <2> QED BY <2>1, <2>3 DEF RowNumbers
<1>3. ASSUME First(x) = First(y), RowNumbers(x) = RowNumbers(y) PROVE SameExtension(x, y)
    <2>1. 0 .. Size(Head(x.layout)) - 1 = 0 .. Size(Head(y.layout)) - 1  BY <1>3 DEF RowNumbers
    <2>2. Size(Head(x.layout)) = Size(Head(y.layout))
        <3> DEFINE p == Size(Head(x.layout))
                   q == Size(Head(y.layout))
        <3>1. p \in Nat \ {0} /\ q \in Nat \ {0}  BY <1>1
        <3>2. 0 .. p - 1 = 0 .. q - 1  BY <2>1
        <3> HIDE DEF p, q
        <3>3. p - 1 \in 0 .. q - 1 /\ q - 1 \in 0 .. p - 1  BY ONLY <3>1, <3>2
        <3>4. p = q  BY ONLY <3>1, <3>3
        <3> QED BY <3>4 DEF p, q
    <2> QED BY <1>1, <1>3, <2>2 DEF SameExtension
<1> QED BY <1>2, <1>3

(* Views have the same values if their rows have. *)
LEMMA SameByRows ==
    ASSUME NEW m, NEW k \in Nat, NEW x \in Held(k + 1), NEW y \in Held(k + 1)
    PROVE  SameValues(m, x, y)
              <=> /\ SameExtension(x, y)
                  /\ \A i \in RowNumbers(x) : SameValues(m, Row(x, i), Row(y, i))
<1>1. /\ Size(Head(x.layout)) \in Nat \ {0} /\ First(x) \in Int
      /\ Extension(Head(x.layout)) = <<First(x), First(x) + Size(Head(x.layout))>>
      /\ Size(Head(y.layout)) \in Nat \ {0} /\ First(y) \in Int
      /\ Extension(Head(y.layout)) = <<First(y), First(y) + Size(Head(y.layout))>>
    BY FirstDim
<1>2. SameExtension(x, y) => First(x) = First(y) /\ RowNumbers(x) = RowNumbers(y)  BY SameRows
<1>3. 0 \in RowNumbers(x)  BY <1>1 DEF RowNumbers
<1>4. \A i : Row(x, i).layout = Tail(x.layout) /\ Row(y, i).layout = Tail(y.layout)  BY RowIs
<1>5. ASSUME SameValues(m, x, y), NEW i \in RowNumbers(x)
      PROVE  SameExtension(x, y) /\ SameValues(m, Row(x, i), Row(y, i))
    <2>1. /\ SameExtension(x, y) /\ Extensions(x.layout) = Extensions(y.layout)
          /\ Extensions(Tail(x.layout)) = Extensions(Tail(y.layout))
        BY <1>5, ExtensionsSplit DEF SameValues
    <2>2. ASSUME NEW tx \in Names(Tail(x.layout))
          PROVE  m[Address(Row(x, i), tx)] = m[Address(Row(y, i), tx)]
        <3>1. PICK ix \in Names(x.layout) : ix[1] = First(x) + i /\ Tail(ix) = tx  BY <1>5, RowName
        <3>2. ix \in Names(y.layout)  BY <2>1 DEF Names
        <3>3. i \in Int /\ ix[1] - First(x) = i /\ ix[1] - First(y) = i
            BY <1>1, <1>2, <1>5, <2>1, <3>1 DEF RowNumbers
        <3>4. Address(Row(x, i), tx) = Address(x, ix)  BY <3>1, <3>3, RowAddress
        <3>5. Address(Row(y, i), tx) = Address(y, ix)  BY <3>1, <3>2, <3>3, RowAddress
        <3>6. m[Address(x, ix)] = m[Address(y, ix)]  BY <1>5 DEF SameValues
        <3> QED BY <3>4, <3>5, <3>6
    <2> QED BY <1>4, <2>1, <2>2 DEF SameValues
<1>6. ASSUME SameExtension(x, y), \A i \in RowNumbers(x) : SameValues(m, Row(x, i), Row(y, i))
      PROVE  SameValues(m, x, y)
    <2>1. Extensions(Tail(x.layout)) = Extensions(Tail(y.layout))  BY <1>3, <1>4, <1>6 DEF SameValues
    <2>2. Extensions(x.layout) = Extensions(y.layout)  BY <1>6, <2>1, ExtensionsSplit
    <2>3. ASSUME NEW ix \in Names(x.layout) PROVE m[Address(x, ix)] = m[Address(y, ix)]
        <3> DEFINE i == ix[1] - First(x)
        <3>1. /\ i \in RowNumbers(x) /\ Tail(ix) \in Names(Tail(x.layout))
              /\ Address(Row(x, i), Tail(ix)) = Address(x, ix)
            BY RowAddress
        <3>2. ix \in Names(y.layout) /\ ix[1] - First(y) = i  BY <1>2, <1>6, <2>2 DEF Names
        <3> HIDE DEF i
        <3>3. Address(Row(y, i), Tail(ix)) = Address(y, ix)  BY <3>2, RowAddress
        <3>4. m[Address(Row(x, i), Tail(ix))] = m[Address(Row(y, i), Tail(ix))]
            BY <1>4, <1>6, <3>1 DEF SameValues
        <3> QED BY <3>1, <3>3, <3>4
    <2> QED BY <2>2, <2>3 DEF SameValues
<1> QED BY <1>3, <1>5, <1>6

LEMMA EqualIsSame ==
    ASSUME NEW m, NEW K \in Nat, NEW f, Unfolds(m, K, f)
    PROVE  \A k \in 0 .. K : \A x, y \in Held(k) : f[k][x][y] <=> SameValues(m, x, y)
<1> DEFINE S == {k \in Nat : \A x, y \in Held(k) : f[k][x][y] <=> SameValues(m, x, y)}
<1>0. \A k : \A x \in Held(k) : x \in AllViews  BY DEF Held
<1>1. 0 \in S
    <2>1. ASSUME NEW x \in Held(0), NEW y \in Held(0) PROVE f[0][x][y] <=> SameValues(m, x, y)
        <3>1. f[0][x][y] <=> m[x.base] = m[y.base]  BY <1>0, UnfoldsAt
        <3> QED BY <3>1, SameOfNone, Zenon
    <2> QED BY <2>1
<1>2. ASSUME NEW h \in 0 .. K - 1, h \in S PROVE h + 1 \in S
    <2>1. ASSUME NEW x \in Held(h + 1), NEW y \in Held(h + 1)
          PROVE  f[h + 1][x][y] <=> SameValues(m, x, y)
        <3>1. h + 1 \in 1 .. K /\ (h + 1) - 1 = h /\ h \in Nat  OBVIOUS
        <3>2. f[h + 1][x][y] <=> /\ SameExtension(x, y)
                                 /\ \A i \in RowNumbers(x) : f[(h + 1) - 1][Row(x, i)][Row(y, i)]
            <4>1. x \in AllViews /\ y \in AllViews  BY <1>0
            <4>2. h + 1 \in 0 .. K /\ h + 1 # 0  BY <3>1
            <4>3. f[h + 1] = EqualAbove(m, h + 1, f[(h + 1) - 1])  BY <4>2, Zenon DEF Unfolds
            <4> QED BY <4>1, <4>2, <4>3 DEF EqualAbove
        <3>3. ASSUME SameExtension(x, y), NEW i \in RowNumbers(x)
              PROVE  f[h][Row(x, i)][Row(y, i)] <=> SameValues(m, Row(x, i), Row(y, i))
            <4>1. i \in RowNumbers(y)  BY <3>1, <3>3, SameRows
            <4>2. Row(x, i) \in Held(h) /\ Row(y, i) \in Held(h)  BY <3>1, <3>3, <4>1, RowHeld
            <4> QED BY <1>2, <4>2
        <3>4. SameValues(m, x, y) <=> /\ SameExtension(x, y)
                                      /\ \A i \in RowNumbers(x) : SameValues(m, Row(x, i), Row(y, i))
            BY <3>1, SameByRows
        <3> QED BY <3>1, <3>2, <3>3, <3>4, Zenon
    <2>2. h + 1 \in Nat  OBVIOUS
    <2> QED BY <2>1, <2>2
<1> HIDE DEF S
<1>3. \A k \in 0 .. K : k \in S  BY <1>1, <1>2, InductionTo
<1> QED BY <1>3 DEF S

(***************************************************************************)
(* Less.                                                                   *)
(***************************************************************************)
LessAbove(m, k, under) ==
    [x \in AllViews |-> [y \in AllViews |->
        IF k = 0 THEN m[x.base] < m[y.base]
        ELSE \/ First(x) > First(y)
             \/ First(x) = First(y) /\ LessByRows(x, y, under)]]
Lesses(m, K) == CHOOSE f : f = [k \in 0 .. K |-> LessAbove(m, k, f[k - 1])]

LEMMA LessesExist ==
    ASSUME NEW m, NEW K \in Nat
    PROVE  \E f : f = [k \in 0 .. K |-> LessAbove(m, k, f[k - 1])]
<1> DEFINE Is(h, f) == f = [k \in 0 .. h |-> LessAbove(m, k, f[k - 1])]
           S == {h \in Nat : \E f : Is(h, f)}
<1>0. \A u, w : LessAbove(m, 0, u) = LessAbove(m, 0, w)
    <2> TAKE u, w
    <2> QED BY DEF LessAbove
<1>1. 0 \in S
    <2> DEFINE g == [k \in 0 .. 0 |-> LessAbove(m, 0, m)]
    <2>1. Is(0, g)
        <3>1. \A k \in 0 .. 0 : k = 0  OBVIOUS
        <3>2. \A k \in 0 .. 0 : LessAbove(m, 0, m) = LessAbove(m, k, g[k - 1])  BY <1>0, <3>1, Zenon
        <3> QED BY <3>2, Zenon
    <2>2. \E f : Is(0, f)  BY <2>1, Zenon
    <2> HIDE DEF Is
    <2> QED BY <2>2
<1>2. ASSUME NEW h \in Nat, h \in S PROVE h + 1 \in S
    <2>1. PICK f : Is(h, f)  BY <1>2
    <2> DEFINE new == LessAbove(m, h + 1, f[h])
               g == [k \in 0 .. h + 1 |-> IF k = h + 1 THEN new ELSE f[k]]
    <2>2. \A k \in 0 .. h : g[k] = f[k]  OBVIOUS
    <2>3. Is(h + 1, g)
        <3> SUFFICES ASSUME NEW k \in 0 .. h + 1
                     PROVE  (IF k = h + 1 THEN new ELSE f[k]) = LessAbove(m, k, g[k - 1])
            BY Zenon
        <3>1. CASE k = h + 1
            <4>1. k - 1 = h /\ h \in 0 .. h  BY <3>1
            <4>2. g[h] = f[h]  BY <2>2, <4>1
            <4> QED BY <3>1, <4>1, <4>2, Zenon
        <3>2. CASE k # h + 1
            <4>1. k \in 0 .. h  BY <3>2
            <4>2. f[k] = LessAbove(m, k, f[k - 1])  BY <2>1, <4>1, Zenon
            <4>3. CASE k = 0  BY <1>0, <3>2, <4>2, <4>3, Zenon
            <4>4. CASE k # 0
                <5>1. k - 1 \in 0 .. h  BY <4>1, <4>4
                <5>2. g[k - 1] = f[k - 1]  BY <2>2, <5>1
                <5> HIDE DEF g
                <5> QED BY <3>2, <4>2, <5>2, Zenon
            <4> QED BY <4>3, <4>4
        <3> QED BY <3>1, <3>2
    <2>4. \E u : Is(h + 1, u)  BY <2>3, Zenon
    <2> HIDE DEF Is
    <2> QED BY <2>4
<1> HIDE DEF S
<1>3. \A h \in Nat : h \in S  BY <1>1, <1>2, Induction
<1>4. K \in S  BY <1>3
<1> QED BY <1>4, Zenon DEF S

Descends(m, K, f) == \A k \in 0 .. K : f[k] = LessAbove(m, k, f[k - 1])

LEMMA LessesDescend ==
    ASSUME NEW m, NEW K \in Nat
    PROVE  Descends(m, K, Lesses(m, K))
<1>1. \E f : f = [k \in 0 .. K |-> LessAbove(m, k, f[k - 1])]  BY LessesExist
<1>2. Lesses(m, K) = [k \in 0 .. K |-> LessAbove(m, k, Lesses(m, K)[k - 1])]
    BY <1>1, Zenon DEF Lesses
<1> QED BY <1>2, Zenon DEF Descends

LEMMA LessIs ==
    ASSUME NEW m, NEW v, NEW w
    PROVE  Less(m, v, w) = Lesses(m, Rank(v))[Rank(v)][v][w]
BY DEF Less, Lesses, LessAbove

(* Less and equal as sets of pairs. *)
Pairs(k, g) == {p \in Held(k) \X Held(k) : g[p[1]][p[2]]}
RowsOf(x) == [j \in RowNumbers(x) |-> Row(x, j)]
RowsLess(x, y, R) == Decided(RowsOf(x), Size(Head(x.layout)), RowsOf(y), Size(Head(y.layout)), R)
RowsEqual(x, y, E) == Equated(RowsOf(x), Size(Head(x.layout)), RowsOf(y), Size(Head(y.layout)), E)

LEMMA PairsIs ==
    ASSUME NEW k, NEW g, NEW x \in Held(k), NEW y \in Held(k)
    PROVE  <<x, y>> \in Pairs(k, g) <=> g[x][y]
BY DEF Pairs

LEMMA RowsOfHeld ==
    ASSUME NEW k \in Nat, NEW x \in Held(k + 1)
    PROVE  /\ Size(Head(x.layout)) \in Nat
           /\ \A j \in 0 .. Size(Head(x.layout)) - 1 : RowsOf(x)[j] = Row(x, j) /\ Row(x, j) \in Held(k)
<1>1. Size(Head(x.layout)) \in Nat  BY FirstDim
<1>2. \A j \in RowNumbers(x) : RowsOf(x)[j] = Row(x, j)  BY Zenon DEF RowsOf
<1>3. \A j \in RowNumbers(x) : Row(x, j) \in Held(k)  BY RowHeld
<1> QED BY <1>1, <1>2, <1>3 DEF RowNumbers

LEMMA RowsDecide ==
    ASSUME NEW k \in Nat, NEW x \in Held(k + 1), NEW y \in Held(k + 1), NEW g
    PROVE  LessByRows(x, y, g) <=> RowsLess(x, y, Pairs(k, g))
<1> DEFINE p == Size(Head(x.layout))
           q == Size(Head(y.layout))
           a == RowsOf(x)
           b == RowsOf(y)
           R == Pairs(k, g)
<1>1. /\ p \in Nat /\ q \in Nat
      /\ \A j \in 0 .. p - 1 : a[j] = Row(x, j) /\ Row(x, j) \in Held(k)
      /\ \A j \in 0 .. q - 1 : b[j] = Row(y, j) /\ Row(y, j) \in Held(k)
    BY RowsOfHeld
<1>2. LessByRows(x, y, g) <=>
        \E i \in 0 .. p : /\ i < q
                          /\ \A j \in 0 .. i - 1 : ~g[Row(y, j)][Row(x, j)]
                          /\ i = p \/ g[Row(x, i)][Row(y, i)]
    BY Zenon DEF LessByRows
<1>3. RowsLess(x, y, R) <=> \E i \in 0 .. p : DecidedAt(i, a, p, b, q, R)
    BY Zenon DEF RowsLess, Decided
<1> HIDE DEF p, q, a, b, R
<1>4. ASSUME NEW i \in 0 .. p, i < q
      PROVE  DecidedAt(i, a, p, b, q, R) <=> /\ \A j \in 0 .. i - 1 : ~g[Row(y, j)][Row(x, j)]
                                             /\ i = p \/ g[Row(x, i)][Row(y, i)]
    <2>1. ASSUME NEW j \in 0 .. p - 1, j \in 0 .. q - 1
          PROVE  /\ <<b[j], a[j]>> \in R <=> g[Row(y, j)][Row(x, j)]
                 /\ <<a[j], b[j]>> \in R <=> g[Row(x, j)][Row(y, j)]
        <3>1. a[j] = Row(x, j) /\ Row(x, j) \in Held(k)  BY <1>1
        <3>2. b[j] = Row(y, j) /\ Row(y, j) \in Held(k)  BY <1>1, <2>1
        <3>3. <<Row(y, j), Row(x, j)>> \in R <=> g[Row(y, j)][Row(x, j)]  BY <3>1, <3>2, PairsIs DEF R
        <3>4. <<Row(x, j), Row(y, j)>> \in R <=> g[Row(x, j)][Row(y, j)]  BY <3>1, <3>2, PairsIs DEF R
        <3> QED BY <3>1, <3>2, <3>3, <3>4, Zenon
    <2>2. \A j \in 0 .. i - 1 : j \in 0 .. p - 1 /\ j \in 0 .. q - 1  BY <1>1, <1>4
    <2>3. \A j \in 0 .. i - 1 : <<b[j], a[j]>> \in R <=> g[Row(y, j)][Row(x, j)]
        BY <2>1, <2>2, Zenon
    <2>4. i # p => i \in 0 .. p - 1 /\ i \in 0 .. q - 1  BY <1>1, <1>4
    <2>5. i # p => (<<a[i], b[i]>> \in R <=> g[Row(x, i)][Row(y, i)])  BY <2>1, <2>4, Zenon
    <2> QED BY <1>4, <2>3, <2>5, Zenon DEF DecidedAt
<1>5. \A i : DecidedAt(i, a, p, b, q, R) => i < q  BY DEF DecidedAt
<1>6. ASSUME LessByRows(x, y, g) PROVE RowsLess(x, y, R)
    <2>1. PICK i \in 0 .. p : /\ i < q
                              /\ \A j \in 0 .. i - 1 : ~g[Row(y, j)][Row(x, j)]
                              /\ i = p \/ g[Row(x, i)][Row(y, i)]
        BY <1>2, <1>6, Zenon
    <2>2. DecidedAt(i, a, p, b, q, R)  BY <1>4, <2>1, Zenon
    <2> QED BY <1>3, <2>2, Zenon
<1>7. ASSUME RowsLess(x, y, R) PROVE LessByRows(x, y, g)
    <2>1. PICK i \in 0 .. p : DecidedAt(i, a, p, b, q, R)  BY <1>3, <1>7, Zenon
    <2>2. i < q  BY <1>5, <2>1, Zenon
    <2>3. /\ \A j \in 0 .. i - 1 : ~g[Row(y, j)][Row(x, j)]
          /\ i = p \/ g[Row(x, i)][Row(y, i)]
        BY <1>4, <2>1, <2>2, Zenon
    <2> QED BY <1>2, <2>2, <2>3, Zenon
<1> QED BY <1>6, <1>7 DEF R

LEMMA RowsOrdered ==
    ASSUME NEW k \in Nat, NEW R, NEW E, Orders(Held(k), R, E),
           NEW x \in Held(k + 1), NEW y \in Held(k + 1), NEW z \in Held(k + 1)
    PROVE  /\ RowsLess(x, y, R) \/ RowsLess(y, x, R) \/ RowsEqual(x, y, E)
           /\ ~(RowsLess(x, y, R) /\ RowsLess(y, x, R))
           /\ ~(RowsLess(x, y, R) /\ RowsEqual(x, y, E))
           /\ RowsLess(x, y, R) /\ RowsLess(y, z, R) => RowsLess(x, z, R)
<1> DEFINE V == Held(k)
           p == Size(Head(x.layout))
           q == Size(Head(y.layout))
           r == Size(Head(z.layout))
           a == RowsOf(x)
           b == RowsOf(y)
           c == RowsOf(z)
<1>1. p \in Nat /\ \A j \in 0 .. p - 1 : a[j] \in V  BY RowsOfHeld
<1>2. q \in Nat /\ \A j \in 0 .. q - 1 : b[j] \in V  BY RowsOfHeld
<1>3. r \in Nat /\ \A j \in 0 .. r - 1 : c[j] \in V  BY RowsOfHeld
<1>4. Orders(V, R, E)  OBVIOUS
<1>5. /\ RowsLess(x, y, R) = Decided(a, p, b, q, R) /\ RowsLess(y, x, R) = Decided(b, q, a, p, R)
      /\ RowsLess(y, z, R) = Decided(b, q, c, r, R) /\ RowsLess(x, z, R) = Decided(a, p, c, r, R)
      /\ RowsEqual(x, y, E) = Equated(a, p, b, q, E)
    BY Zenon DEF RowsLess, RowsEqual
<1> HIDE DEF V, p, q, r, a, b, c
<1>6. Decided(a, p, b, q, R) \/ Decided(b, q, a, p, R) \/ Equated(a, p, b, q, E)
    BY ONLY <1>1, <1>2, <1>4, DecidedOrEquated
<1>7. ~(Decided(a, p, b, q, R) /\ Decided(b, q, a, p, R))  BY ONLY <1>1, <1>2, <1>4, DecidedNotBoth
<1>8. ~(Decided(a, p, b, q, R) /\ Equated(a, p, b, q, E))  BY ONLY <1>1, <1>2, <1>4, DecidedNotEquated
<1>9. Decided(a, p, b, q, R) /\ Decided(b, q, c, r, R) => Decided(a, p, c, r, R)
    BY ONLY <1>1, <1>2, <1>3, <1>4, DecidedTransitive
<1> QED BY <1>5, <1>6, <1>7, <1>8, <1>9, Zenon

LEMMA SameValuesAlike ==
    ASSUME NEW m, NEW x, NEW y, NEW z
    PROVE  /\ SameValues(m, x, y) => SameValues(m, y, x)
           /\ SameValues(m, x, y) /\ SameValues(m, y, z) => SameValues(m, x, z)
<1>1. SameValues(m, x, y) => SameValues(m, y, x)
    <2> SUFFICES ASSUME SameValues(m, x, y) PROVE SameValues(m, y, x)
        OBVIOUS
    <2>1. Names(x.layout) = Names(y.layout)  BY Zenon DEF SameValues, Names
    <2> QED BY <2>1 DEF SameValues
<1>2. SameValues(m, x, y) /\ SameValues(m, y, z) => SameValues(m, x, z)
    <2> SUFFICES ASSUME SameValues(m, x, y), SameValues(m, y, z) PROVE SameValues(m, x, z)
        OBVIOUS
    <2>1. Names(x.layout) = Names(y.layout)  BY Zenon DEF SameValues, Names
    <2> QED BY <2>1 DEF SameValues
<1> QED BY <1>1, <1>2

(* Equality by rows: the same first index, as many rows, and equal ones. *)
LEMMA EqualRows ==
    ASSUME NEW m, NEW k \in Nat, NEW x \in Held(k + 1), NEW y \in Held(k + 1), NEW E,
           \A u, w \in Held(k) : <<u, w>> \in E <=> SameValues(m, u, w)
    PROVE  SameValues(m, x, y) <=> First(x) = First(y) /\ RowsEqual(x, y, E)
<1> DEFINE p == Size(Head(x.layout))
           q == Size(Head(y.layout))
           a == RowsOf(x)
           b == RowsOf(y)
<1>1. p \in Nat /\ \A j \in 0 .. p - 1 : a[j] = Row(x, j) /\ Row(x, j) \in Held(k)  BY RowsOfHeld
<1>2. q \in Nat /\ \A j \in 0 .. q - 1 : b[j] = Row(y, j) /\ Row(y, j) \in Held(k)  BY RowsOfHeld
<1>3. SameValues(m, x, y) <=> /\ SameExtension(x, y)
                              /\ \A i \in 0 .. p - 1 : SameValues(m, Row(x, i), Row(y, i))
    <2>1. RowNumbers(x) = 0 .. p - 1  BY Zenon DEF RowNumbers
    <2> HIDE DEF p, q, a, b
    <2> QED BY <2>1, SameByRows
<1>4. SameExtension(x, y) <=> First(x) = First(y) /\ 0 .. p - 1 = 0 .. q - 1
    <2>1. RowNumbers(x) = 0 .. p - 1 /\ RowNumbers(y) = 0 .. q - 1  BY Zenon DEF RowNumbers
    <2> HIDE DEF p, q, a, b
    <2> QED BY <2>1, SameRows
<1>5. RowsEqual(x, y, E) <=> p = q /\ \A j \in 0 .. p - 1 : <<a[j], b[j]>> \in E
    BY Zenon DEF RowsEqual, Equated
<1>6. p # 0 /\ q # 0
    <2>1. p \in Nat \ {0} /\ q \in Nat \ {0}  BY FirstDim
    <2> QED BY <2>1
<1> HIDE DEF p, q, a, b
<1>7. (0 .. p - 1 = 0 .. q - 1) <=> p = q
    <2>1. ASSUME 0 .. p - 1 = 0 .. q - 1 PROVE p = q
        <3>1. p - 1 \in 0 .. q - 1 /\ q - 1 \in 0 .. p - 1  BY ONLY <1>1, <1>2, <1>6, <2>1
        <3> QED BY ONLY <1>1, <1>2, <3>1
    <2> QED BY <2>1
<1>8. ASSUME p = q, NEW j \in 0 .. p - 1
      PROVE  <<a[j], b[j]>> \in E <=> SameValues(m, Row(x, j), Row(y, j))
    <2>1. a[j] = Row(x, j) /\ Row(x, j) \in Held(k)  BY <1>1
    <2>2. b[j] = Row(y, j) /\ Row(y, j) \in Held(k)  BY <1>2, <1>8
    <2>3. <<Row(x, j), Row(y, j)>> \in E <=> SameValues(m, Row(x, j), Row(y, j))  BY <2>1, <2>2
    <2> QED BY <2>1, <2>2, <2>3, Zenon
<1> QED BY <1>3, <1>4, <1>5, <1>7, <1>8, Zenon

(* One dimension more: less is an order among views if it is one among their rows. *)
LEMMA OrdersAbove ==
    ASSUME NEW m, NEW k \in Nat, NEW R, NEW E, NEW S, NEW F, Orders(Held(k), R, E),
           \A u, w \in Held(k) : <<u, w>> \in E <=> SameValues(m, u, w),
           \A u, w \in Held(k + 1) : <<u, w>> \in F <=> SameValues(m, u, w),
           \A u, w \in Held(k + 1) : <<u, w>> \in S <=> \/ First(u) > First(w)
                                                        \/ First(u) = First(w) /\ RowsLess(u, w, R)
    PROVE  Orders(Held(k + 1), S, F)
<1>0. ASSUME NEW x \in Held(k + 1), NEW y \in Held(k + 1)
      PROVE  /\ First(x) \in Int /\ First(y) \in Int
             /\ <<x, y>> \in S <=> \/ First(x) > First(y)
                                   \/ First(x) = First(y) /\ RowsLess(x, y, R)
             /\ <<x, y>> \in F <=> SameValues(m, x, y)
             /\ <<x, y>> \in F <=> First(x) = First(y) /\ RowsEqual(x, y, E)
    <2>1. First(x) \in Int /\ First(y) \in Int  BY FirstDim
    <2>2. <<x, y>> \in F <=> SameValues(m, x, y)  OBVIOUS
    <2>3. SameValues(m, x, y) <=> First(x) = First(y) /\ RowsEqual(x, y, E)  BY EqualRows
    <2>4. <<x, y>> \in S <=> \/ First(x) > First(y)
                             \/ First(x) = First(y) /\ RowsLess(x, y, R)
        OBVIOUS
    <2> QED BY ONLY <2>1, <2>2, <2>3, <2>4
<1>1. ASSUME NEW x \in Held(k + 1), NEW y \in Held(k + 1)
      PROVE  <<x, y>> \in S \/ <<x, y>> \in F \/ <<y, x>> \in S
    <2>1. RowsLess(x, y, R) \/ RowsLess(y, x, R) \/ RowsEqual(x, y, E)  BY ONLY RowsOrdered, Orders(Held(k), R, E), k \in Nat, <1>1
    <2> QED BY ONLY <1>0, <1>1, <2>1
<1>2. ASSUME NEW x \in Held(k + 1), NEW y \in Held(k + 1)
      PROVE  ~(<<x, y>> \in S /\ <<y, x>> \in S)
    <2>1. ~(RowsLess(x, y, R) /\ RowsLess(y, x, R))  BY ONLY RowsOrdered, Orders(Held(k), R, E), k \in Nat, <1>2
    <2> QED BY ONLY <1>0, <1>2, <2>1
<1>3. ASSUME NEW x \in Held(k + 1), NEW y \in Held(k + 1)
      PROVE  ~(<<x, y>> \in S /\ <<x, y>> \in F)
    <2>1. ~(RowsLess(x, y, R) /\ RowsEqual(x, y, E))  BY ONLY RowsOrdered, Orders(Held(k), R, E), k \in Nat, <1>3
    <2> QED BY ONLY <1>0, <1>3, <2>1
<1>4. ASSUME NEW x \in Held(k + 1), NEW y \in Held(k + 1), NEW z \in Held(k + 1)
      PROVE  <<x, y>> \in S /\ <<y, z>> \in S => <<x, z>> \in S
    <2>1. RowsLess(x, y, R) /\ RowsLess(y, z, R) => RowsLess(x, z, R)  BY ONLY RowsOrdered, Orders(Held(k), R, E), k \in Nat, <1>4
    <2> QED BY ONLY <1>0, <1>4, <2>1
<1>5. \A x, y \in Held(k + 1) : <<x, y>> \in F => <<y, x>> \in F  BY <1>0, SameValuesAlike, Zenon
<1>6. \A x, y, z \in Held(k + 1) : <<x, y>> \in F /\ <<y, z>> \in F => <<x, z>> \in F
    <2> TAKE x, y, z \in Held(k + 1)
    <2>1. /\ <<x, y>> \in F <=> SameValues(m, x, y)
          /\ <<y, z>> \in F <=> SameValues(m, y, z)
          /\ <<x, z>> \in F <=> SameValues(m, x, z)
        BY <1>0
    <2> QED BY <2>1, SameValuesAlike, Zenon
<1> QED BY <1>1, <1>2, <1>3, <1>4, <1>5, <1>6 DEF Orders

LEMMA OrdersOfNone ==
    ASSUME NEW m \in [Cells -> Cells], NEW S, NEW F,
           \A u, w \in Held(0) : <<u, w>> \in S <=> m[u.base] < m[w.base],
           \A u, w \in Held(0) : <<u, w>> \in F <=> m[u.base] = m[w.base]
    PROVE  Orders(Held(0), S, F)
<1>1. ASSUME NEW x \in Held(0) PROVE m[x.base] \in Int
    <2>1. /\ x.layout \in Seq(Dims) /\ Len(x.layout) = 0 /\ x.base \in Int
          /\ \A ix \in Names(x.layout) : Address(x, ix) \in Cells
        BY HeldFacts
    <2>2. x.layout = <<>>  BY <2>1
    <2>3. Names(x.layout) = {<<>>}  BY <2>2, NoNames
    <2>4. Address(x, <<>>) = x.base + 0  BY <2>2, NoNames DEF Address
    <2>5. x.base \in Cells  BY <2>1, <2>3, <2>4
    <2>6. m[x.base] \in Cells  BY <2>5
    <2> QED BY <2>6 DEF Cells
<1>2. ASSUME NEW x \in Held(0), NEW y \in Held(0)
      PROVE  /\ m[x.base] \in Int /\ m[y.base] \in Int
             /\ <<x, y>> \in S <=> m[x.base] < m[y.base]
             /\ <<x, y>> \in F <=> m[x.base] = m[y.base]
    BY <1>1
<1>3. ASSUME NEW x \in Held(0), NEW y \in Held(0)
      PROVE  /\ <<x, y>> \in S \/ <<x, y>> \in F \/ <<y, x>> \in S
             /\ ~(<<x, y>> \in S /\ <<y, x>> \in S)
             /\ ~(<<x, y>> \in S /\ <<x, y>> \in F)
             /\ <<x, y>> \in F => <<y, x>> \in F
    BY ONLY <1>2, <1>3
<1>4. ASSUME NEW x \in Held(0), NEW y \in Held(0), NEW z \in Held(0)
      PROVE  /\ <<x, y>> \in S /\ <<y, z>> \in S => <<x, z>> \in S
             /\ <<x, y>> \in F /\ <<y, z>> \in F => <<x, z>> \in F
    BY ONLY <1>2, <1>4
<1> QED BY <1>3, <1>4 DEF Orders

LEMMA LessOrders ==
    ASSUME NEW m \in [Cells -> Cells], NEW K \in Nat, NEW f, NEW g,
           Unfolds(m, K, f), Descends(m, K, g)
    PROVE  \A k \in 0 .. K : Orders(Held(k), Pairs(k, g[k]), Pairs(k, f[k]))
<1> DEFINE S == {k \in Nat : Orders(Held(k), Pairs(k, g[k]), Pairs(k, f[k]))}
<1>0. \A k : \A x \in Held(k) : x \in AllViews  BY DEF Held
<1>1. ASSUME NEW k \in 0 .. K, NEW x \in Held(k), NEW y \in Held(k)
      PROVE  <<x, y>> \in Pairs(k, f[k]) <=> SameValues(m, x, y)
    <2>1. f[k][x][y] <=> SameValues(m, x, y)  BY <1>1, EqualIsSame
    <2>2. <<x, y>> \in Pairs(k, f[k]) <=> f[k][x][y]  BY PairsIs
    <2> QED BY <2>1, <2>2
<1>2. 0 \in S
    <2>0. 0 \in 0 .. K  OBVIOUS
    <2>1. \A x, y \in Held(0) : <<x, y>> \in Pairs(0, g[0]) <=> m[x.base] < m[y.base]
        <3> TAKE x, y \in Held(0)
        <3>1. g[0] = LessAbove(m, 0, g[0 - 1])  BY <2>0, Zenon DEF Descends
        <3>2. x \in AllViews /\ y \in AllViews  BY <1>0
        <3>3. g[0][x][y] = (m[x.base] < m[y.base])  BY <3>1, <3>2 DEF LessAbove
        <3>4. <<x, y>> \in Pairs(0, g[0]) <=> g[0][x][y]  BY PairsIs
        <3> QED BY <3>3, <3>4
    <2>2. \A x, y \in Held(0) : <<x, y>> \in Pairs(0, f[0]) <=> m[x.base] = m[y.base]
        <3> TAKE x, y \in Held(0)
        <3>1. <<x, y>> \in Pairs(0, f[0]) <=> SameValues(m, x, y)  BY <1>1, <2>0
        <3>2. SameValues(m, x, y) <=> m[x.base] = m[y.base]  BY SameOfNone
        <3> QED BY <3>1, <3>2
    <2>3. Orders(Held(0), Pairs(0, g[0]), Pairs(0, f[0]))  BY <2>1, <2>2, OrdersOfNone
    <2> QED BY <2>3
<1>3. ASSUME NEW h \in 0 .. K - 1, h \in S PROVE h + 1 \in S
    <2>1. h \in Nat /\ h \in 0 .. K /\ h + 1 \in 0 .. K /\ h + 1 # 0 /\ h + 1 \in Nat /\ (h + 1) - 1 = h
        OBVIOUS
    <2> DEFINE R == Pairs(h, g[h])
               E == Pairs(h, f[h])
               T == Pairs(h + 1, g[h + 1])
               F == Pairs(h + 1, f[h + 1])
    <2>2. Orders(Held(h), R, E)  BY <1>3
    <2>3. \A u, w \in Held(h) : <<u, w>> \in E <=> SameValues(m, u, w)  BY <1>1, <2>1
    <2>4. \A u, w \in Held(h + 1) : <<u, w>> \in F <=> SameValues(m, u, w)  BY <1>1, <2>1
    <2>5. \A u, w \in Held(h + 1) : <<u, w>> \in T <=> \/ First(u) > First(w)
                                                       \/ First(u) = First(w) /\ RowsLess(u, w, R)
        <3> TAKE u, w \in Held(h + 1)
        <3>1. g[h + 1] = LessAbove(m, h + 1, g[(h + 1) - 1])  BY <2>1, Zenon DEF Descends
        <3>2. u \in AllViews /\ w \in AllViews  BY <1>0
        <3>3. g[h + 1][u][w] = (\/ First(u) > First(w)
                                \/ First(u) = First(w) /\ LessByRows(u, w, g[(h + 1) - 1]))
            BY <2>1, <3>1, <3>2 DEF LessAbove
        <3>4. LessByRows(u, w, g[h]) <=> RowsLess(u, w, Pairs(h, g[h]))  BY <2>1, RowsDecide
        <3>5. <<u, w>> \in Pairs(h + 1, g[h + 1]) <=> g[h + 1][u][w]  BY PairsIs
        <3> QED BY <2>1, <3>3, <3>4, <3>5
    <2> HIDE DEF R, E, T, F
    <2>6. Orders(Held(h + 1), T, F)  BY ONLY <2>1, <2>2, <2>3, <2>4, <2>5, OrdersAbove
    <2> QED BY <2>1, <2>6 DEF T, F
<1> HIDE DEF S
<1>4. \A k \in 0 .. K : k \in S  BY <1>2, <1>3, InductionTo
<1> QED BY <1>4 DEF S

(***************************************************************************)
(* Comparing the views of a call.                                          *)
(***************************************************************************)
LEMMA OperandHeld == \A v \in Operands : Rank(v) \in Nat /\ v \in Held(Rank(v))
<1> SUFFICES ASSUME NEW v \in Operands PROVE Rank(v) \in Nat /\ v \in Held(Rank(v))
    OBVIOUS
<1>1. v \in AllViews /\ Reach(v) \subseteq Cells  BY OperandsAssumption DEF Cells
<1>2. IsView(v) /\ Len(v.layout) \in Nat  BY OperandIsView
<1> QED BY <1>1, <1>2 DEF Held, Rank

LEMMA EqualOperands ==
    ASSUME NEW m, NEW v \in Operands, NEW w \in Operands, Rank(v) = Rank(w)
    PROVE  Equal(m, v, w) <=> SameValues(m, v, w)
<1> DEFINE K == Rank(v)
<1>1. K \in Nat /\ v \in Held(K) /\ w \in Held(K)  BY OperandHeld
<1>2. Equal(m, v, w) = Equals(m, K)[K][v][w]  BY EqualIs
<1> HIDE DEF K
<1>3. Unfolds(m, K, Equals(m, K))  BY <1>1, EqualsUnfold
<1>4. K \in 0 .. K  BY <1>1
<1>5. \A x, y \in Held(K) : Equals(m, K)[K][x][y] <=> SameValues(m, x, y)
    BY <1>1, <1>3, <1>4, EqualIsSame
<1> QED BY <1>1, <1>2, <1>5

(* Views of as many dimensions are ordered. *)
LEMMA LessOperands ==
    ASSUME NEW m \in [Cells -> Cells], NEW K \in Nat
    PROVE  \E R, E : /\ Orders(Held(K), R, E)
                     /\ \A x, y \in Operands : Rank(x) = K /\ Rank(y) = K =>
                            /\ x \in Held(K) /\ y \in Held(K)
                            /\ Less(m, x, y) <=> <<x, y>> \in R
                            /\ Equal(m, x, y) <=> <<x, y>> \in E
<1> DEFINE f == Equals(m, K)
           g == Lesses(m, K)
           R == Pairs(K, g[K])
           E == Pairs(K, f[K])
<1>1. Unfolds(m, K, f) /\ Descends(m, K, g)  BY EqualsUnfold, LessesDescend
<1>2. ASSUME NEW x \in Operands, NEW y \in Operands, Rank(x) = K, Rank(y) = K
      PROVE  /\ x \in Held(K) /\ y \in Held(K)
             /\ Less(m, x, y) <=> <<x, y>> \in R
             /\ Equal(m, x, y) <=> <<x, y>> \in E
    <2>1. x \in Held(K) /\ y \in Held(K)  BY <1>2, OperandHeld
    <2>2. Equal(m, x, y) = f[K][x][y]  BY <1>2, EqualIs
    <2>3. Less(m, x, y) = g[K][x][y]  BY <1>2, LessIs
    <2>4. <<x, y>> \in R <=> g[K][x][y]  BY <2>1, PairsIs
    <2>5. <<x, y>> \in E <=> f[K][x][y]  BY <2>1, PairsIs
    <2> HIDE DEF f, g, R, E
    <2> QED BY <2>1, <2>2, <2>3, <2>4, <2>5
<1> HIDE DEF f, g
<1>3. K \in 0 .. K  OBVIOUS
<1>4. Orders(Held(K), R, E)  BY <1>1, <1>3, LessOrders
<1> HIDE DEF R, E
<1> QED BY <1>2, <1>4, Zenon

LEMMA ComparedOperands ==
    ASSUME IInv, Comparable
    PROVE  /\ to \in Operands /\ from \in Operands /\ Rank(to) = Rank(from)
           /\ memory \in [Cells -> Cells]
<1>1. op \notin {"none", "fill"}  BY DEF Comparable
<1>2. Called /\ memory \in [Cells -> Cells]  BY <1>1 DEF IInv, Progress
<1> QED BY <1>1, <1>2 DEF Called

(* At any point of a call, two views are equal when they have the same indices and, at each, *)
(* the same value, as indexing finds it (array_ref.hpp, operator==).                         *)
THEOREM ComparisonEqualMatchesIndices == Spec => []EqualMatchesIndices
<1>1. IInv => EqualMatchesIndices
    <2> SUFFICES ASSUME IInv, Comparable
                 PROVE  Equal(memory, to, from) <=>
                            /\ SameIndices
                            /\ \A ix \in Box(Extensions(to.layout)) :
                                   memory[Address(to, ix)] = memory[Address(from, ix)]
        BY DEF EqualMatchesIndices
    <2>1. to \in Operands /\ from \in Operands /\ Rank(to) = Rank(from)  BY ComparedOperands
    <2>2. Equal(memory, to, from) <=> SameValues(memory, to, from)  BY <2>1, EqualOperands
    <2> QED BY <2>2 DEF SameValues, SameIndices, Names
<1> QED BY <1>1, Inductive, PTL

(* Of two views with as many dimensions, of any extensions, one is less or they are equal,    *)
(* never two of these, and less is transitive: views can be sorted (array_ref.hpp, operator<).*)
THEOREM ComparisonTotalOrder == Spec => []TotalOrder
<1>1. ASSUME IInv, Comparable
      PROVE  /\ Cardinality({b \in {"<", "=", ">"} : \/ b = "<" /\ Less(memory, to, from)
                                                     \/ b = "=" /\ Equal(memory, to, from)
                                                     \/ b = ">" /\ Less(memory, from, to)}) = 1
             /\ \A w \in Operands :
                    (Rank(w) = Rank(to) /\ Less(memory, to, from) /\ Less(memory, from, w)) =>
                        Less(memory, to, w)
    <2> DEFINE K == Rank(to)
    <2>1. /\ to \in Operands /\ from \in Operands /\ Rank(to) = K /\ Rank(from) = K
          /\ memory \in [Cells -> Cells] /\ K \in Nat
        BY <1>1, ComparedOperands, OperandHeld
    <2> HIDE DEF K
    <2>2. PICK R, E : /\ Orders(Held(K), R, E)
                      /\ \A x, y \in Operands : Rank(x) = K /\ Rank(y) = K =>
                             /\ x \in Held(K) /\ y \in Held(K)
                             /\ Less(memory, x, y) <=> <<x, y>> \in R
                             /\ Equal(memory, x, y) <=> <<x, y>> \in E
        BY <2>1, LessOperands
    <2>3. /\ to \in Held(K) /\ from \in Held(K)
          /\ Less(memory, to, from) <=> <<to, from>> \in R
          /\ Less(memory, from, to) <=> <<from, to>> \in R
          /\ Equal(memory, to, from) <=> <<to, from>> \in E
          /\ Equal(memory, from, to) <=> <<from, to>> \in E
        BY <2>1, <2>2
    <2> DEFINE lt == Less(memory, to, from)
               eq == Equal(memory, to, from)
               gt == Less(memory, from, to)
               B == {b \in {"<", "=", ">"} : (b = "<" /\ lt) \/ (b = "=" /\ eq) \/ (b = ">" /\ gt)}
    <2>4. lt \/ eq \/ gt  BY <2>2, <2>3 DEF Orders
    <2>5. ~(lt /\ gt)  BY <2>2, <2>3 DEF Orders
    <2>6. ~(lt /\ eq)  BY <2>2, <2>3 DEF Orders
    <2>7. ~(gt /\ eq)  BY <2>2, <2>3 DEF Orders
    <2> HIDE DEF lt, eq, gt
    <2>8. B = {"<"} \/ B = {"="} \/ B = {">"}
        <3>1. CASE lt  BY <2>5, <2>6, <3>1
        <3>2. CASE eq  BY <2>6, <2>7, <3>2
        <3>3. CASE gt  BY <2>5, <2>7, <3>3
        <3> QED BY <2>4, <3>1, <3>2, <3>3
    <2>9. Cardinality(B) = 1  BY <2>8, FS_Singleton
    <2>10. ASSUME NEW w \in Operands, Rank(w) = K, Less(memory, to, from), Less(memory, from, w)
           PROVE  Less(memory, to, w)
        <3>1. /\ w \in Held(K)
              /\ Less(memory, from, w) <=> <<from, w>> \in R
              /\ Less(memory, to, w) <=> <<to, w>> \in R
            BY <2>1, <2>2, <2>10
        <3> QED BY <2>2, <2>3, <2>10, <3>1 DEF Orders
    <2> QED BY <2>1, <2>9, <2>10, Zenon DEF B, lt, eq, gt
<1>2. IInv => TotalOrder  BY <1>1, Zenon DEF TotalOrder
<1> QED BY <1>2, Inductive, PTL
=============================================================================
