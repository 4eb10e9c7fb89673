---------------------------- MODULE LayoutProofs ----------------------------
(***************************************************************************)
(* What the index arithmetic of layout_t guarantees, for every number of   *)
(* dimensions and every extension.  A layout made from extensions is dense *)
(* (LayoutOfExtensions), and a dense one sends its tuples of indices into  *)
(* the block of num_elements() elements that it is allocated               *)
(* (DenseInBlock), in lexicographic order (DenseInOrder).                  *)
(*                                                                         *)
(* Recursive definitions are unfolded here, once: products, positions and  *)
(* new layouts are each shown to be what their recursion says, and what is *)
(* true of them dimension by dimension is carried along by Induction.      *)
(* So are the sums over finite sets that the memory resources keep books   *)
(* of, which do not depend on the order in which elements are taken out.   *)
(***************************************************************************)
EXTENDS Layout, FiniteSetTheorems, WellFoundedInduction, TLAPS

(***************************************************************************)
(* Induction over the natural numbers in a set.                            *)
(***************************************************************************)
(* A set that has 0, and with each number the next, has them all. *)
LEMMA Induction ==
    ASSUME NEW S, 0 \in S, \A n \in Nat : n \in S => n + 1 \in S
    PROVE  \A n \in Nat : n \in S
<1> DEFINE T == {n \in Nat : n \notin S}
<1> SUFFICES ASSUME T # {} PROVE FALSE
    OBVIOUS
<1>1. T \subseteq Nat  OBVIOUS
<1> HIDE DEF T
<1>2. PICK x \in T : \A y \in T : ~ (<<y, x>> \in OpToRel(<, Nat))
    BY <1>1, NatLessThanWellFounded, WFMin
<1>3. x \in Nat /\ x \notin S  BY DEF T
<1>4. x # 0 /\ x - 1 \in Nat  BY <1>3
<1>5. x - 1 \in T
    <2>1. (x - 1) + 1 = x  BY <1>3
    <2>2. x - 1 \notin S  BY <1>3, <1>4, <2>1
    <2> QED BY <1>4, <2>2 DEF T
<1>6. <<x - 1, x>> \in OpToRel(<, Nat)
    <2>1. <<x - 1, x>> \in Nat \X Nat /\ <<x - 1, x>>[1] < <<x - 1, x>>[2]
        BY <1>3, <1>4
    <2> QED BY <2>1, Zenon DEF OpToRel
<1> QED BY <1>2, <1>5, <1>6

(* The same, for the numbers up to a bound. *)
LEMMA InductionTo ==
    ASSUME NEW m \in Nat, NEW S, 0 \in S, \A n \in 0 .. m - 1 : n \in S => n + 1 \in S
    PROVE  \A n \in 0 .. m : n \in S
<1> DEFINE T == {n \in Nat : n > m \/ n \in S}
<1>1. 0 \in T  OBVIOUS
<1>2. \A n \in Nat : n \in T => n + 1 \in T  OBVIOUS
<1> HIDE DEF T
<1>3. \A n \in Nat : n \in T  BY <1>1, <1>2, Induction
<1> QED BY <1>3 DEF T

(***************************************************************************)
(* Sums over finite sets.                                                  *)
(***************************************************************************)
One(s) == CHOOSE x \in s : TRUE

(* The sum of f over S: one element after the other is taken out, in some order. *)
Total(f, S) ==
    LET sum[s \in SUBSET S] == IF s = {} THEN 0 ELSE f[One(s)] + sum[s \ {One(s)}]
    IN  sum[S]

SumStep(f, g, s) == IF s = {} THEN 0 ELSE f[One(s)] + g[s \ {One(s)}]
Summing(f, S, g) == \A s \in SUBSET S : g[s] = SumStep(f, g, s)

(* A subset without one of its elements is smaller. *)
LEMMA Smaller ==
    ASSUME NEW s, IsFiniteSet(s), NEW n \in Nat, Cardinality(s) <= n + 1, NEW x \in s
    PROVE  IsFiniteSet(s \ {x}) /\ Cardinality(s \ {x}) <= n
<1>1. Cardinality(s) \in Nat  BY FS_CardinalityType
<1>2. IsFiniteSet(s \ {x}) /\ Cardinality(s \ {x}) = Cardinality(s) - 1  BY FS_RemoveElement
<1> QED BY <1>1, <1>2

LEMMA OneOf == ASSUME NEW s, s # {} PROVE One(s) \in s
BY DEF One

(* A set that has a finite set as soon as it has all that are smaller has them all. *)
LEMMA SetInduction ==
    ASSUME NEW S, IsFiniteSet(S), NEW P,
           \A s \in SUBSET S : (\A t \in SUBSET s : t # s => t \in P) => s \in P
    PROVE  \A s \in SUBSET S : s \in P
<1> DEFINE N == {n \in Nat : \A s \in SUBSET S : Cardinality(s) <= n => s \in P}
<1>0. ASSUME NEW s \in SUBSET S PROVE IsFiniteSet(s) /\ Cardinality(s) \in Nat
    BY FS_Subset, FS_CardinalityType
<1>1. 0 \in N
    <2>1. ASSUME NEW s \in SUBSET S, Cardinality(s) <= 0 PROVE s \in P
        <3>1. Cardinality(s) = 0  BY <1>0, <2>1
        <3>2. s = {}  BY <1>0, <3>1, FS_EmptySet
        <3> QED BY <3>2
    <2> QED BY <2>1
<1>2. ASSUME NEW n \in Nat, n \in N PROVE n + 1 \in N
    <2>1. ASSUME NEW s \in SUBSET S, Cardinality(s) <= n + 1 PROVE s \in P
        <3>1. ASSUME NEW t \in SUBSET s, t # s PROVE t \in P
            <4>1. Cardinality(t) <= Cardinality(s) /\ Cardinality(t) # Cardinality(s)
                BY <1>0, <3>1, FS_Subset
            <4>2. t \in SUBSET S  OBVIOUS
            <4>3. Cardinality(t) <= n  BY <1>0, <2>1, <4>1, <4>2
            <4> QED BY <1>2, <4>2, <4>3
        <3> QED BY <3>1
    <2> QED BY <2>1
<1> HIDE DEF N
<1>3. \A n \in Nat : n \in N  BY <1>1, <1>2, Induction
<1>4. ASSUME NEW s \in SUBSET S PROVE s \in P
    <2>1. Cardinality(s) \in Nat  BY <1>0
    <2>2. Cardinality(s) \in N  BY <1>3, <2>1
    <2> QED BY <2>1, <2>2 DEF N
<1> QED BY <1>4

LEMMA SummingExists ==
    ASSUME NEW f, NEW S, IsFiniteSet(S)
    PROVE  \E g : g = [s \in SUBSET S |-> SumStep(f, g, s)]
<1> DEFINE Until(g, n) == \A s \in SUBSET S : Cardinality(s) <= n => g[s] = SumStep(f, g, s)
           N == {n \in Nat : \E g : Until(g, n)}
<1>0. ASSUME NEW s \in SUBSET S PROVE IsFiniteSet(s) /\ Cardinality(s) \in Nat
    BY FS_Subset, FS_CardinalityType
<1>1. 0 \in N
    <2> DEFINE g == [s \in SUBSET S |-> 0]
    <2>1. ASSUME NEW s \in SUBSET S, Cardinality(s) <= 0 PROVE g[s] = SumStep(f, g, s)
        <3>1. Cardinality(s) = 0  BY <1>0, <2>1
        <3>2. s = {}  BY <1>0, <3>1, FS_EmptySet
        <3> QED BY <3>2 DEF SumStep
    <2>2. Until(g, 0)  BY <2>1
    <2> QED BY <2>2
<1>2. ASSUME NEW n \in Nat, n \in N PROVE n + 1 \in N
    <2>1. PICK g : Until(g, n)  BY <1>2
    <2> DEFINE h == [s \in SUBSET S |-> SumStep(f, g, s)]
    <2>2. ASSUME NEW s \in SUBSET S, Cardinality(s) <= n + 1 PROVE h[s] = SumStep(f, h, s)
        <3>1. CASE s = {}  BY <3>1 DEF SumStep
        <3>2. CASE s # {}
            <4> DEFINE t == s \ {One(s)}
            <4>1. One(s) \in s  BY <3>2, OneOf
            <4>2. t \in SUBSET S /\ Cardinality(t) <= n
                BY <1>0, <2>2, <4>1, Smaller
            <4>3. g[t] = SumStep(f, g, t)  BY <2>1, <4>2
            <4>4. h[t] = g[t]  BY <4>2, <4>3
            <4>5. h[s] = f[One(s)] + g[t]  BY <3>2 DEF SumStep
            <4> QED BY <3>2, <4>4, <4>5 DEF SumStep
        <3> QED BY <3>1, <3>2
    <2>3. Until(h, n + 1)  BY <2>2
    <2> HIDE DEF h, Until
    <2>4. \E k : Until(k, n + 1)  BY <2>3
    <2> QED BY <2>4
<1> HIDE DEF N
<1>3. \A n \in Nat : n \in N  BY <1>1, <1>2, Induction
<1>4. Cardinality(S) \in N  BY <1>0, <1>3
<1>5. PICK g : Until(g, Cardinality(S))  BY <1>4 DEF N
<1> DEFINE h == [s \in SUBSET S |-> g[s]]
<1>6. ASSUME NEW s \in SUBSET S PROVE g[s] = SumStep(f, g, s)
    <2>1. Cardinality(s) <= Cardinality(S)  BY FS_Subset
    <2> QED BY <1>5, <2>1
<1>7. ASSUME NEW s \in SUBSET S PROVE h[s] = SumStep(f, h, s)
    <2>1. s \ {One(s)} \in SUBSET S  OBVIOUS
    <2>2. h[s \ {One(s)}] = g[s \ {One(s)}]  BY <2>1
    <2> QED BY <1>6, <2>2 DEF SumStep
<1>8. h = [s \in SUBSET S |-> SumStep(f, h, s)]  BY <1>7
<1> QED BY <1>8

LEMMA TotalSums ==
    ASSUME NEW f, NEW S, IsFiniteSet(S)
    PROVE  \E g : Summing(f, S, g) /\ Total(f, S) = g[S]
<1> DEFINE sum == CHOOSE g : g = [s \in SUBSET S |->
                                    IF s = {} THEN 0 ELSE f[One(s)] + g[s \ {One(s)}]]
<1>1. sum = [s \in SUBSET S |-> SumStep(f, sum, s)]
    <2>1. \E g : g = [s \in SUBSET S |-> IF s = {} THEN 0 ELSE f[One(s)] + g[s \ {One(s)}]]
        <3>1. PICK g : g = [s \in SUBSET S |-> SumStep(f, g, s)]  BY SummingExists
        <3>2. g = [s \in SUBSET S |-> IF s = {} THEN 0 ELSE f[One(s)] + g[s \ {One(s)}]]
            BY <3>1, Zenon DEF SumStep
        <3> QED BY <3>2, Zenon
    <2> QED BY <2>1, Zenon DEF SumStep
<1>2. Total(f, S) = sum[S]  BY DEF Total
<1> HIDE DEF sum
<1>3. Summing(f, S, sum)  BY <1>1 DEF Summing
<1> QED BY <1>2, <1>3

LEMMA TotalNone == \A f : Total(f, {}) = 0
<1> SUFFICES ASSUME NEW f PROVE Total(f, {}) = 0  OBVIOUS
<1>1. IsFiniteSet({})  BY FS_EmptySet
<1>2. PICK g : Summing(f, {}, g) /\ Total(f, {}) = g[{}]  BY <1>1, TotalSums
<1> QED BY <1>2 DEF Summing, SumStep

(* Two sums of numbers that agree are the same. *)
LEMMA SummingSame ==
    ASSUME NEW f, NEW h, NEW S, NEW T, NEW g, NEW k, IsFiniteSet(S), S \subseteq T,
           \A x \in S : f[x] = h[x], Summing(f, S, g), Summing(h, T, k)
    PROVE  \A s \in SUBSET S : g[s] = k[s]
<1> DEFINE P == {s \in SUBSET S : g[s] = k[s]}
<1>1. ASSUME NEW s \in SUBSET S, \A t \in SUBSET s : t # s => t \in P PROVE s \in P
    <2>1. g[s] = SumStep(f, g, s) /\ k[s] = SumStep(h, k, s)  BY DEF Summing
    <2>2. CASE s = {}  BY <2>1, <2>2 DEF SumStep
    <2>3. CASE s # {}
        <3>1. One(s) \in s  BY <2>3, OneOf
        <3>2. s \ {One(s)} \in P /\ f[One(s)] = h[One(s)]  BY <1>1, <3>1
        <3> QED BY <2>1, <2>3, <3>2 DEF SumStep
    <2> QED BY <2>2, <2>3
<1> HIDE DEF P
<1>2. \A s \in SUBSET S : s \in P  BY <1>1, SetInduction
<1> QED BY <1>2 DEF P

LEMMA TotalSame ==
    ASSUME NEW f, NEW h, NEW S, IsFiniteSet(S), \A x \in S : f[x] = h[x]
    PROVE  Total(f, S) = Total(h, S)
<1>1. PICK g : Summing(f, S, g) /\ Total(f, S) = g[S]  BY TotalSums
<1>2. PICK k : Summing(h, S, k) /\ Total(h, S) = k[S]  BY TotalSums
<1>3. \A s \in SUBSET S : g[s] = k[s]  BY <1>1, <1>2, SummingSame
<1> QED BY <1>1, <1>2, <1>3

(* The order in which the elements are taken out does not matter. *)
AnyOrder(f, S, g) == \A s \in SUBSET S : /\ g[s] \in Int
                                         /\ \A x \in s : g[s] = f[x] + g[s \ {x}]

LEMMA SummingAny ==
    ASSUME NEW f, NEW S, IsFiniteSet(S), \A x \in S : f[x] \in Int, NEW g, Summing(f, S, g)
    PROVE  AnyOrder(f, S, g)
<1> DEFINE P == {s \in SUBSET S : g[s] \in Int /\ \A x \in s : g[s] = f[x] + g[s \ {x}]}
<1>1. ASSUME NEW s \in SUBSET S, \A t \in SUBSET s : t # s => t \in P PROVE s \in P
    <2>1. g[s] = SumStep(f, g, s)  BY DEF Summing
    <2>2. CASE s = {}  BY <2>1, <2>2 DEF SumStep
    <2>3. CASE s # {}
        <3> DEFINE y == One(s)
        <3>1. y \in s /\ g[s] = f[y] + g[s \ {y}]  BY <2>1, <2>3, OneOf DEF SumStep
        <3> HIDE DEF y
        <3>2. g[s \ {y}] \in Int /\ f[y] \in Int
            <4>1. s \ {y} \in P  BY <1>1, <3>1
            <4> QED BY <3>1, <4>1
        <3>3. ASSUME NEW x \in s PROVE g[s] = f[x] + g[s \ {x}]
            <4>1. CASE x = y  BY <3>1, <4>1
            <4>2. CASE x # y
                <5> DEFINE t == (s \ {x}) \ {y}
                <5>1. x \in s \ {y} /\ y \in s \ {x} /\ (s \ {y}) \ {x} = t  BY <3>1, <4>2
                <5>2. s \ {y} \in P /\ s \ {x} \in P /\ t \in P  BY <1>1, <3>1
                <5>3. g[s \ {y}] = f[x] + g[t]  BY <5>1, <5>2
                <5>4. g[s \ {x}] = f[y] + g[t]  BY <5>1, <5>2
                <5>5. f[x] \in Int /\ g[t] \in Int  BY <5>2
                <5> HIDE DEF t
                <5> QED BY <3>1, <3>2, <5>3, <5>4, <5>5
            <4> QED BY <4>1, <4>2
        <3>4. g[s] \in Int  BY <3>1, <3>2
        <3> QED BY <3>3, <3>4
    <2> QED BY <2>2, <2>3
<1> HIDE DEF P
<1>2. \A s \in SUBSET S : s \in P  BY <1>1, SetInduction
<1> QED BY <1>2 DEF P, AnyOrder

LEMMA TotalSplit ==
    ASSUME NEW f, NEW S, IsFiniteSet(S), \A x \in S : f[x] \in Int
    PROVE  /\ Total(f, S) \in Int
           /\ \A x \in S : Total(f, S) = f[x] + Total(f, S \ {x})
<1>1. PICK g : Summing(f, S, g) /\ Total(f, S) = g[S]  BY TotalSums
<1>2. \A s \in SUBSET S : g[s] \in Int /\ \A x \in s : g[s] = f[x] + g[s \ {x}]
    <2>1. AnyOrder(f, S, g)  BY <1>1, SummingAny
    <2> QED BY <2>1 DEF AnyOrder
<1>3. ASSUME NEW x \in S PROVE Total(f, S) = f[x] + Total(f, S \ {x})
    <2> DEFINE T == S \ {x}
    <2>1. T \in SUBSET S /\ IsFiniteSet(T)  BY FS_Subset
    <2> HIDE DEF T
    <2>2. PICK k : Summing(f, T, k) /\ Total(f, T) = k[T]  BY <2>1, TotalSums
    <2>3. \A s \in SUBSET T : k[s] = g[s]
        <3>1. T \subseteq S /\ \A y \in T : f[y] = f[y]  BY <2>1
        <3> QED BY <1>1, <2>1, <2>2, <3>1, SummingSame
    <2>4. Total(f, T) = g[T]  BY <2>2, <2>3
    <2> QED BY <1>1, <1>2, <2>4 DEF T
<1> QED BY <1>1, <1>2, <1>3

(* One element more, or another value of one. *)
LEMMA TotalMore ==
    ASSUME NEW f, NEW S, NEW x, IsFiniteSet(S), x \notin S, f[x] \in Int, \A y \in S : f[y] \in Int
    PROVE  Total(f, S \cup {x}) = Total(f, S) + f[x]
<1> DEFINE T == S \cup {x}
<1>1. IsFiniteSet(T) /\ x \in T /\ T \ {x} = S /\ \A y \in T : f[y] \in Int  BY FS_AddElement
<1> HIDE DEF T
<1>2. Total(f, T) = f[x] + Total(f, S)  BY <1>1, TotalSplit
<1>3. Total(f, S) \in Int  BY TotalSplit
<1> QED BY <1>2, <1>3 DEF T

Changes(f, h, S, x) ==
    h[x] \in Int /\ \A y \in S : f[y] \in Int /\ (y # x => f[y] = h[y])
Changed(f, h, S, x) ==
    /\ x \in S => Total(h, S) = Total(f, S) + h[x] - f[x]
    /\ x \notin S => Total(h, S \cup {x}) = Total(f, S) + h[x]

LEMMA TotalChanged ==
    ASSUME NEW f, NEW h, NEW S, NEW x, IsFiniteSet(S), Changes(f, h, S, x)
    PROVE  Changed(f, h, S, x)
<1> DEFINE T == S \ {x}
<1>1. IsFiniteSet(T) /\ x \notin T /\ T \cup {x} = S \cup {x}  BY FS_Subset
<1>2. /\ \A y \in T : h[y] = f[y]
      /\ \A y \in T : h[y] \in Int /\ f[y] \in Int
      /\ h[x] \in Int /\ \A y \in S : f[y] \in Int
    BY DEF Changes
<1> HIDE DEF T
<1>3. Total(h, T \cup {x}) = Total(h, T) + h[x]  BY <1>1, <1>2, TotalMore
<1>4. Total(h, T) = Total(f, T)  BY <1>1, <1>2, TotalSame
<1>5. Total(f, T) \in Int  BY <1>1, <1>2, TotalSplit
<1>6. CASE x \in S
    <2>1. Total(f, S) = f[x] + Total(f, T)  BY <1>2, <1>6, TotalSplit DEF T
    <2>2. f[x] \in Int  BY <1>2, <1>6
    <2>3. T \cup {x} = S  BY <1>1, <1>6
    <2>4. Total(h, S) = Total(f, T) + h[x]  BY <1>3, <1>4, <2>3
    <2>5. Total(h, S) = Total(f, S) + h[x] - f[x]  BY <1>2, <1>5, <2>1, <2>2, <2>4
    <2> QED BY <1>6, <2>5 DEF Changed
<1>7. CASE x \notin S
    <2>1. T = S  BY <1>7 DEF T
    <2>2. Total(h, S \cup {x}) = Total(f, S) + h[x]  BY <1>3, <1>4, <2>1
    <2> QED BY <1>7, <2>2 DEF Changed
<1> QED BY <1>6, <1>7

(***************************************************************************)
(* Products.                                                               *)
(***************************************************************************)
(* Product(s) is the last of the products of the first k numbers. *)
Upto(s, f) == /\ f \in [0 .. Len(s) -> Int]
              /\ f[0] = 1
              /\ \A k \in 1 .. Len(s) : f[k] = f[k - 1] * s[k]

LEMMA ProductExists ==
    ASSUME NEW s \in Seq(Int)
    PROVE  \E f : f = [k \in 0 .. Len(s) |-> IF k = 0 THEN 1 ELSE f[k - 1] * s[k]]
<1> DEFINE Is(n, f) == f = [k \in 0 .. n |-> IF k = 0 THEN 1 ELSE f[k - 1] * s[k]]
           S == {n \in 0 .. Len(s) : \E f : Is(n, f)}
<1>1. Len(s) \in Nat  OBVIOUS
<1>2. 0 \in S
    <2>1. Is(0, [k \in 0 .. 0 |-> 1])  OBVIOUS
    <2>2. \E f : Is(0, f)  BY <2>1, Zenon
    <2> HIDE DEF Is
    <2> QED BY <1>1, <2>2
<1>3. ASSUME NEW n \in 0 .. Len(s) - 1, n \in S PROVE n + 1 \in S
    <2>1. PICK f : Is(n, f)  BY <1>3
    <2> DEFINE g == [k \in 0 .. n + 1 |-> IF k = n + 1 THEN f[n] * s[k] ELSE f[k]]
    <2>2. \A k \in 0 .. n : g[k] = f[k]  BY <1>1
    <2>3. g = [k \in 0 .. n + 1 |-> IF k = 0 THEN 1 ELSE g[k - 1] * s[k]]
        <3> SUFFICES ASSUME NEW k \in 0 .. n + 1
                     PROVE  g[k] = IF k = 0 THEN 1 ELSE g[k - 1] * s[k]
            BY Zenon
        <3>1. CASE k = n + 1
            <4>1. k - 1 = n /\ k # 0  BY <3>1, <1>1
            <4>2. g[n] = f[n]  BY <2>2, <1>1
            <4> QED BY <3>1, <4>1, <4>2
        <3>2. CASE k # n + 1
            <4>1. k \in 0 .. n  BY <3>2, <1>1
            <4>2. f[k] = IF k = 0 THEN 1 ELSE f[k - 1] * s[k]  BY <2>1, <4>1
            <4>3. k # 0 => k - 1 \in 0 .. n  BY <4>1, <1>1
            <4> QED BY <2>2, <4>1, <4>2, <4>3
        <3> QED BY <3>1, <3>2
    <2>4. \E h : Is(n + 1, h)  BY <2>3, Zenon
    <2>5. n + 1 \in 0 .. Len(s)  BY <1>1
    <2> HIDE DEF Is
    <2> QED BY <2>4, <2>5
<1> HIDE DEF S
<1>4. \A n \in 0 .. Len(s) : n \in S  BY <1>1, <1>2, <1>3, InductionTo
<1>5. Len(s) \in S  BY <1>1, <1>4
<1> QED BY <1>5, Zenon DEF S

(* Products of integers are integers, and multiply up from 1. *)
LEMMA ProductUpto ==
    ASSUME NEW s \in Seq(Int)
    PROVE  \E f : Upto(s, f) /\ Product(s) = f[Len(s)]
<1> DEFINE upto == CHOOSE f : f = [k \in 0 .. Len(s) |-> IF k = 0 THEN 1 ELSE f[k - 1] * s[k]]
<1>1. Len(s) \in Nat  OBVIOUS
<1>2. upto = [k \in 0 .. Len(s) |-> IF k = 0 THEN 1 ELSE upto[k - 1] * s[k]]
    BY ProductExists, Zenon
<1>3. Product(s) = upto[Len(s)]  BY Zenon DEF Product
<1> HIDE DEF upto
<1>4. upto[0] = 1  BY <1>1, <1>2
<1>5. \A k \in 1 .. Len(s) : upto[k] = upto[k - 1] * s[k]  BY <1>1, <1>2
<1>6. \A k \in 0 .. Len(s) : upto[k] \in Int
    <2> DEFINE S == {k \in 0 .. Len(s) : upto[k] \in Int}
    <2>1. 0 \in S  BY <1>1, <1>4
    <2>2. \A n \in 0 .. Len(s) - 1 : n \in S => n + 1 \in S
        <3> SUFFICES ASSUME NEW n \in 0 .. Len(s) - 1, n \in S PROVE n + 1 \in S
            OBVIOUS
        <3>1. n + 1 \in 1 .. Len(s) /\ (n + 1) - 1 = n  BY <1>1
        <3>2. upto[n + 1] = upto[n] * s[n + 1]  BY <1>5, <3>1
        <3>3. s[n + 1] \in Int  BY <3>1
        <3> QED BY <1>1, <3>1, <3>2, <3>3
    <2> HIDE DEF S
    <2>3. \A n \in 0 .. Len(s) : n \in S  BY <1>1, <2>1, <2>2, InductionTo
    <2> QED BY <2>3 DEF S
<1>7. Upto(s, upto)  BY <1>2, <1>4, <1>5, <1>6 DEF Upto
<1> QED BY <1>3, <1>7

LEMMA Associates ==
    ASSUME NEW a \in Int, NEW b \in Int, NEW c \in Int
    PROVE  (a * b) * c = a * (b * c)
OBVIOUS

LEMMA Cancels ==
    ASSUME NEW a \in Int, NEW b \in Int, NEW c \in Nat \ {0}, a * c = b * c
    PROVE  a = b
OBVIOUS

(* The product of the numbers behind the first, times the first. *)
Behind(s, t, m) == m + 1 <= Len(s) /\ \A k \in 1 .. m : s[k + 1] = t[k]

LEMMA ProductShift ==
    ASSUME NEW s \in Seq(Int), NEW t \in Seq(Int), NEW f, NEW g, Upto(s, f), Upto(t, g),
           NEW m \in 0 .. Len(t), Behind(s, t, m)
    PROVE  f[m + 1] = s[1] * g[m]
<1> DEFINE S == {k \in 0 .. m : f[k + 1] = s[1] * g[k]}
<1>1. /\ Len(s) \in Nat /\ Len(t) \in Nat /\ m \in Nat /\ m + 1 <= Len(s) /\ m <= Len(t)
      /\ s[1] \in Int
    BY DEF Behind
<1>0. /\ f[0] = 1 /\ g[0] = 1
      /\ \A k \in 1 .. Len(s) : f[k] = f[k - 1] * s[k]
      /\ \A k \in 1 .. Len(t) : g[k] = g[k - 1] * t[k]
      /\ \A k \in 0 .. Len(t) : g[k] \in Int
    BY Zenon DEF Upto
<1>2. 0 \in S
    <2>1. 1 \in 1 .. Len(s) /\ 1 - 1 = 0  BY <1>1
    <2>2. f[1] = f[0] * s[1]  BY <1>0, <2>1
    <2> QED BY <1>0, <1>1, <2>2
<1>3. ASSUME NEW k \in 0 .. m - 1, k \in S PROVE k + 1 \in S
    <2>1. k + 1 \in 0 .. m /\ k + 1 \in 1 .. Len(t) /\ (k + 1) - 1 = k  BY <1>1
    <2>2. (k + 1) + 1 \in 1 .. Len(s) /\ ((k + 1) + 1) - 1 = k + 1  BY <1>1
    <2>3. f[(k + 1) + 1] = f[k + 1] * s[(k + 1) + 1]  BY <1>0, <2>2
    <2>4. s[(k + 1) + 1] = t[k + 1]  BY <1>1 DEF Behind
    <2>5. f[k + 1] = s[1] * g[k]  BY <1>3
    <2>6. g[k + 1] = g[k] * t[k + 1]  BY <1>0, <2>1
    <2>7. s[1] \in Int /\ g[k] \in Int /\ t[k + 1] \in Int
        <3>1. k \in 0 .. Len(t)  BY <1>1
        <3> QED BY <1>0, <1>1, <2>1, <3>1
    <2>8. (s[1] * g[k]) * t[k + 1] = s[1] * (g[k] * t[k + 1])  BY <2>7, Associates
    <2>9. f[(k + 1) + 1] = s[1] * g[k + 1]  BY <2>3, <2>4, <2>5, <2>6, <2>8
    <2> QED BY <2>1, <2>9
<1> HIDE DEF S
<1>4. \A k \in 0 .. m : k \in S  BY <1>1, <1>2, <1>3, InductionTo
<1>5. m \in S  BY <1>1, <1>4
<1> QED BY <1>5 DEF S

(* The first factor, and the product of the others. *)
LEMMA ProductFirst ==
    ASSUME NEW s \in Seq(Int), NEW t \in Seq(Int), Len(s) = Len(t) + 1,
           \A k \in 1 .. Len(t) : s[k + 1] = t[k]
    PROVE  Product(s) = s[1] * Product(t)
<1>1. PICK f : Upto(s, f) /\ Product(s) = f[Len(s)]  BY ProductUpto
<1>2. PICK g : Upto(t, g) /\ Product(t) = g[Len(t)]  BY ProductUpto
<1>3. Len(t) \in 0 .. Len(t)  OBVIOUS
<1>7. Behind(s, t, Len(t))  
    <2>1. Len(t) + 1 <= Len(s)  OBVIOUS
    <2> QED BY <2>1 DEF Behind
<1>4. Upto(s, f)  BY <1>1
<1>5. Upto(t, g)  BY <1>2
<1>6. f[Len(t) + 1] = s[1] * g[Len(t)]  BY <1>3, <1>4, <1>5, <1>7, ProductShift
<1> QED BY <1>1, <1>2, <1>6

(* The first factor may as well be the last (layout_t::rotate). *)
LEMMA ProductTurned ==
    ASSUME NEW s \in Seq(Int), NEW t \in Seq(Int), Len(t) = Len(s), Len(s) > 0,
           \A k \in 1 .. Len(s) - 1 : t[k] = s[k + 1],
           t[Len(s)] = s[1]
    PROVE  Product(t) = Product(s)
<1>1. PICK f : Upto(s, f) /\ Product(s) = f[Len(s)]  BY ProductUpto
<1>2. PICK g : Upto(t, g) /\ Product(t) = g[Len(t)]  BY ProductUpto
<1>3. PICK m \in 0 .. Len(t) : Len(s) = m + 1
    <2>1. Len(s) - 1 \in 0 .. Len(t) /\ Len(s) = (Len(s) - 1) + 1  OBVIOUS
    <2> QED BY <2>1
<1>4. Upto(s, f) /\ Upto(t, g)  BY <1>1, <1>2
<1>5. \A k \in 1 .. m : s[k + 1] = t[k]  BY <1>3
<1>6. Behind(s, t, m)  BY <1>3, <1>5 DEF Behind
<1>7. f[m + 1] = s[1] * g[m]  BY <1>4, <1>6, ProductShift
<1>8. g[Len(s)] = g[m] * s[1]
    <2>1. Len(s) \in 1 .. Len(t) /\ Len(s) - 1 = m  BY <1>3
    <2>2. g[Len(s)] = g[m] * t[Len(s)]  BY <1>4, <2>1 DEF Upto
    <2> QED BY <2>2
<1>9. s[1] \in Int /\ g[m] \in Int
    <2>1. g \in [0 .. Len(t) -> Int]  BY <1>4, Zenon DEF Upto
    <2>2. 1 \in 1 .. Len(s)  OBVIOUS
    <2> QED BY <1>3, <2>1, <2>2
<1> QED BY <1>1, <1>2, <1>3, <1>7, <1>8, <1>9

(* A product of counts is a count, and zero if one of them is. *)
LEMMA ProductOfCounts ==
    ASSUME NEW s \in Seq(Nat)
    PROVE  /\ Product(s) \in Nat
           /\ Product(s) = 0 <=> \E k \in 1 .. Len(s) : s[k] = 0
<1>1. s \in Seq(Int) /\ Len(s) \in Nat  OBVIOUS
<1>2. PICK f : Upto(s, f) /\ Product(s) = f[Len(s)]  BY <1>1, ProductUpto
<1> DEFINE Good(k) == f[k] \in Nat /\ (f[k] = 0 <=> \E j \in 1 .. k : s[j] = 0)
           S == {k \in 0 .. Len(s) : Good(k)}
<1>3. 0 \in S  BY <1>1, <1>2 DEF Upto
<1>4. ASSUME NEW k \in 0 .. Len(s) - 1, k \in S PROVE k + 1 \in S
    <2>1. k + 1 \in 1 .. Len(s) /\ k + 1 \in 0 .. Len(s) /\ (k + 1) - 1 = k  BY <1>1
    <2>2. f[k + 1] = f[k] * s[k + 1]  BY <1>2, <2>1 DEF Upto
    <2>3. f[k] \in Nat /\ s[k + 1] \in Nat  BY <1>4, <2>1
    <2>4. f[k + 1] \in Nat  BY <2>2, <2>3
    <2>5. f[k + 1] = 0 <=> f[k] = 0 \/ s[k + 1] = 0  BY <2>2, <2>3
    <2>6. (\E j \in 1 .. k + 1 : s[j] = 0) <=> (\E j \in 1 .. k : s[j] = 0) \/ s[k + 1] = 0
        <3>1. \A j \in 1 .. k + 1 : j \in 1 .. k \/ j = k + 1  BY <1>1
        <3>2. \A j \in 1 .. k : j \in 1 .. k + 1  BY <1>1
        <3>3. k + 1 \in 1 .. k + 1  BY <1>1
        <3> QED BY <3>1, <3>2, <3>3
    <2>7. f[k] = 0 <=> \E j \in 1 .. k : s[j] = 0  BY <1>4
    <2> QED BY <2>1, <2>4, <2>5, <2>6, <2>7
<1> HIDE DEF S
<1>5. \A k \in 0 .. Len(s) : k \in S  BY <1>1, <1>3, <1>4, InductionTo
<1>6. Len(s) \in S  BY <1>1, <1>5
<1> QED BY <1>2, <1>6 DEF S

(* The product of no numbers. *)
LEMMA ProductOfNone == Product(<<>>) = 1
<1>1. <<>> \in Seq(Int) /\ Len(<<>>) = 0  OBVIOUS
<1> QED BY <1>1, ProductUpto DEF Upto

(***************************************************************************)
(* Arithmetic: division of an exact multiple.                              *)
(***************************************************************************)
(* A multiple divided by its factor is the other factor. *)
LEMMA QuotExact ==
    ASSUME NEW q \in Int, NEW b \in Nat \ {0}
    PROVE  Quot(q * b, b) = q
<1>1. CASE q >= 0
    <2>1. q * b >= 0  BY <1>1
    <2>2. (q * b) \div b = q  OBVIOUS
    <2> QED BY <2>1, <2>2 DEF Quot
<1>2. CASE q < 0
    <2>1. q * b < 0  BY <1>2
    <2>2. -(q * b) = (-q) * b  OBVIOUS
    <2>3. ((-q) * b) \div b = -q  OBVIOUS
    <2> QED BY <2>1, <2>2, <2>3 DEF Quot
<1> QED BY <1>1, <1>2

(* What leaves no remainder is a multiple. *)
LEMMA Multiple ==
    ASSUME NEW a \in Int, NEW b \in Nat \ {0}, a % b = 0
    PROVE  a = (a \div b) * b
OBVIOUS

(* A multiple leaves no remainder. *)
LEMMA NoRemainder ==
    ASSUME NEW q \in Int, NEW b \in Nat \ {0}
    PROVE  (q * b) % b = 0
OBVIOUS

(* The remainder of a quotient and a rest is the rest. *)
LEMMA Remainder ==
    ASSUME NEW n \in Nat \ {0}, NEW q \in Int, NEW r \in 0 .. n - 1
    PROVE  (q * n + r) % n = r
OBVIOUS

LEMMA Division ==
    ASSUME NEW n \in Nat \ {0}, NEW a \in Int
    PROVE  a = (a \div n) * n + (a % n) /\ a % n \in 0 .. n - 1 /\ a \div n \in Int
<1>1. a \div n \in Int  OBVIOUS
<1>2. a % n \in 0 .. n - 1  OBVIOUS
<1>3. a = (a \div n) * n + (a % n)  OBVIOUS
<1> QED BY <1>1, <1>2, <1>3

(* A remainder more or less is all the same. *)
LEMMA RemainderOfSum ==
    ASSUME NEW n \in Nat \ {0}, NEW a \in Int, NEW k \in Int
    PROVE  (k + (a % n)) % n = (k + a) % n
<1>1. PICK q \in Int, r \in 0 .. n - 1 : a = q * n + r /\ a % n = r
    BY Division
<1>2. PICK p \in Int, t \in 0 .. n - 1 : k + r = p * n + t /\ (k + r) % n = t
    <2>1. k + r \in Int  OBVIOUS
    <2> QED BY <2>1, Division
<1>3. k + a = (p + q) * n + t
    <2>1. (p + q) * n = p * n + q * n /\ p * n \in Int /\ q * n \in Int  OBVIOUS
    <2> QED BY <1>1, <1>2, <2>1
<1>4. p + q \in Int  OBVIOUS
<1>5. (k + a) % n = t  BY <1>3, <1>4, Remainder
<1> QED BY <1>1, <1>2, <1>5

(***************************************************************************)
(* One dimension.                                                          *)
(***************************************************************************)
WholeDims == {d \in Dims : WholeDim(d)}

(* A whole dimension has size() strides, from a whole number of strides on. *)
LEMMA WholeDimFacts ==
    ASSUME NEW d \in WholeDims
    PROVE  /\ d \in Dims
           /\ d.stride \in Nat \ {0}
           /\ Size(d) \in Nat
           /\ d.nelems = Size(d) * d.stride
           /\ Quot(d.offset, d.stride) \in Int
           /\ d.offset = Quot(d.offset, d.stride) * d.stride
           /\ Size(d) > 0 => Extension(d) = <<Quot(d.offset, d.stride),
                                             Quot(d.offset, d.stride) + Size(d)>>
<1>1. /\ d \in Dims /\ d.stride \in Nat \ {0} /\ d.nelems \in Nat /\ d.offset \in Int
      /\ d.nelems % d.stride = 0 /\ d.offset % d.stride = 0
    BY DEF WholeDims, WholeDim, Dims
<1> DEFINE n == d.nelems \div d.stride
           o == d.offset \div d.stride
<1>2. n \in Nat /\ o \in Int  BY <1>1
<1>3. d.nelems = n * d.stride /\ d.offset = o * d.stride
    <2>1. d.nelems \in Int /\ d.offset \in Int  BY <1>1
    <2>2. d.nelems = (d.nelems \div d.stride) * d.stride  BY <1>1, <2>1, Multiple
    <2>3. d.offset = (d.offset \div d.stride) * d.stride  BY <1>1, <2>1, Multiple
    <2> QED BY <2>2, <2>3
<1> HIDE DEF n, o
<1>4. Quot(d.nelems, d.stride) = n /\ Quot(d.offset, d.stride) = o
    BY <1>1, <1>2, <1>3, QuotExact
<1>5. d.nelems = 0 => n = 0  BY <1>1, <1>2, <1>3
<1>6. Size(d) = n  BY <1>4, <1>5 DEF Size
<1>7. n > 0 => Extension(d) = <<o, o + n>>
    <2>1. d.offset + d.nelems = (o + n) * d.stride  BY <1>1, <1>2, <1>3
    <2>2. Quot(d.offset + d.nelems, d.stride) = o + n  BY <1>1, <1>2, <2>1, QuotExact
    <2>3. n > 0 => d.nelems # 0  BY <1>1, <1>2, <1>3
    <2> QED BY <1>4, <2>2, <2>3 DEF Extension
<1> QED BY <1>1, <1>2, <1>3, <1>4, <1>6, <1>7

(* Conversely, a dimension written as multiples of its stride is whole. *)
LEMMA MakeWhole ==
    ASSUME NEW s \in Nat \ {0}, NEW o \in Int, NEW n \in Nat
    PROVE  Dim(s, o * s, n * s) \in WholeDims
<1>1. (o * s) % s = 0 /\ (n * s) % s = 0  BY NoRemainder
<1>2. o * s \in Int /\ n * s \in Nat  OBVIOUS
<1> QED BY <1>1, <1>2 DEF Dim, WholeDims, WholeDim, Dims

(***************************************************************************)
(* Extensions, and the dimensions of layouts that are made from them.  One *)
(* without elements may have any stride, 0 among them.                     *)
(***************************************************************************)
Intervals == {x \in Int \X Int : x[1] <= x[2]}
Counts(xs) == [k \in 1 .. Len(xs) |-> Count(xs[k])]
ArrayDims == {d \in Dims : d.stride \in Nat /\ (d.nelems # 0 => d \in WholeDims)}

(* A dimension's extension is as long as its size. *)
LEMMA ArrayDimFacts ==
    ASSUME NEW d \in ArrayDims
    PROVE  /\ Size(d) \in Nat
           /\ Extension(d) \in Intervals
           /\ Count(Extension(d)) = Size(d)
           /\ Size(d) = 0 <=> d.nelems = 0
<1>1. d \in Dims /\ d.nelems \in Nat  BY DEF ArrayDims, Dims
<1>2. CASE d.nelems = 0
    <2>1. Size(d) = 0 /\ Extension(d) = <<0, 0>>  BY <1>2 DEF Size, Extension
    <2> QED BY <1>2, <2>1 DEF Intervals, Count
<1>3. CASE d.nelems # 0
    <2>1. d \in WholeDims  BY <1>3 DEF ArrayDims
    <2> DEFINE o == Quot(d.offset, d.stride)
    <2>2. /\ Size(d) \in Nat /\ d.nelems = Size(d) * d.stride /\ d.stride \in Nat
          /\ o \in Int /\ (Size(d) > 0 => Extension(d) = <<o, o + Size(d)>>)
        BY <2>1, WholeDimFacts
    <2>3. Size(d) > 0  BY <1>3, <2>2
    <2>4. Extension(d) = <<o, o + Size(d)>>  BY <2>2, <2>3
    <2> HIDE DEF o
    <2> QED BY <1>3, <2>2, <2>3, <2>4 DEF Intervals, Count
<1> QED BY <1>2, <1>3

(* num_elements() is a count, 0 if and only if one of the sizes is. *)
LEMMA SizesFacts ==
    ASSUME NEW L \in Seq(ArrayDims)
    PROVE  /\ Sizes(L) \in Seq(Nat) /\ Len(Sizes(L)) = Len(L)
           /\ \A k \in 1 .. Len(L) : Sizes(L)[k] = Size(L[k])
           /\ NumElements(L) \in Nat
           /\ NumElements(L) = 0 <=> \E k \in 1 .. Len(L) : Size(L[k]) = 0
<1>1. Len(L) \in Nat /\ DOMAIN L = 1 .. Len(L) /\ \A k \in 1 .. Len(L) : L[k] \in ArrayDims
    OBVIOUS
<1>2. \A k \in 1 .. Len(L) : Size(L[k]) \in Nat  BY <1>1, ArrayDimFacts
<1>3. Sizes(L) = [k \in 1 .. Len(L) |-> Size(L[k])]  BY <1>1 DEF Sizes
<1>4. Sizes(L) \in Seq(Nat) /\ Len(Sizes(L)) = Len(L)  BY <1>1, <1>2, <1>3
<1>5. \A k \in 1 .. Len(L) : Sizes(L)[k] = Size(L[k])  BY <1>3
<1>6. /\ Product(Sizes(L)) \in Nat
      /\ Product(Sizes(L)) = 0 <=> \E k \in 1 .. Len(Sizes(L)) : Sizes(L)[k] = 0
    BY <1>4, ProductOfCounts
<1> QED BY <1>4, <1>5, <1>6 DEF NumElements

(* The extensions of a layout are as many and as long as its dimensions. *)
LEMMA ExtensionsFacts ==
    ASSUME NEW L \in Seq(ArrayDims)
    PROVE  /\ Extensions(L) \in Seq(Intervals) /\ Len(Extensions(L)) = Len(L)
           /\ \A k \in 1 .. Len(L) : Extensions(L)[k] = Extension(L[k])
           /\ Counts(Extensions(L)) = Sizes(L)
<1>1. Len(L) \in Nat /\ DOMAIN L = 1 .. Len(L) /\ \A k \in 1 .. Len(L) : L[k] \in ArrayDims
    OBVIOUS
<1>2. Extensions(L) = [k \in 1 .. Len(L) |-> Extension(L[k])]  BY <1>1 DEF Extensions
<1>3. \A k \in 1 .. Len(L) : Extension(L[k]) \in Intervals /\ Count(Extension(L[k])) = Size(L[k])
    BY <1>1, ArrayDimFacts
<1>4. Extensions(L) \in Seq(Intervals) /\ Len(Extensions(L)) = Len(L)  BY <1>1, <1>2, <1>3
<1>5. \A k \in 1 .. Len(L) : Extensions(L)[k] = Extension(L[k])  BY <1>2
<1>6. Counts(Extensions(L)) = [k \in 1 .. Len(L) |-> Size(L[k])]  BY <1>3, <1>4, <1>5 DEF Counts
<1>7. Sizes(L) = [k \in 1 .. Len(L) |-> Size(L[k])]  BY <1>1 DEF Sizes
<1> QED BY <1>4, <1>5, <1>6, <1>7

(***************************************************************************)
(* Dense layouts: each stride is what the next dimension holds.            *)
(***************************************************************************)
Dense(L) == /\ \A k \in 1 .. Len(L) : L[k] \in WholeDims /\ Size(L[k]) > 0
            /\ \A k \in 1 .. Len(L) - 1 : L[k].stride = L[k + 1].nelems
            /\ Len(L) > 0 => L[Len(L)].stride = 1

(* The leading dimension holds all the elements there are. *)
LEMMA DenseNumElements ==
    ASSUME NEW L \in Seq(ArrayDims), Dense(L)
    PROVE  /\ L = <<>> => NumElements(L) = 1
           /\ L # <<>> => NumElements(L) = L[1].nelems
<1>1. Len(L) \in Nat /\ DOMAIN L = 1 .. Len(L)  OBVIOUS
<1>2. /\ Sizes(L) \in Seq(Int) /\ Len(Sizes(L)) = Len(L)
      /\ \A k \in 1 .. Len(L) : Sizes(L)[k] = Size(L[k])
    BY SizesFacts
<1>3. PICK f : Upto(Sizes(L), f) /\ Product(Sizes(L)) = f[Len(L)]  BY <1>2, ProductUpto
<1>4. ASSUME NEW k \in 1 .. Len(L)
      PROVE  /\ L[k].stride \in Nat \ {0} /\ Size(L[k]) \in Nat
             /\ L[k].nelems = Size(L[k]) * L[k].stride
    BY WholeDimFacts DEF Dense
<1>5. /\ f[0] = 1 /\ \A k \in 0 .. Len(L) : f[k] \in Int
      /\ \A k \in 1 .. Len(L) : f[k] = f[k - 1] * Size(L[k])
    BY <1>2, <1>3 DEF Upto
<1>6. CASE L = <<>>
    <2>1. Len(L) = 0  BY <1>6
    <2> QED BY <1>3, <1>5, <1>6, <2>1 DEF NumElements
<1>7. CASE L # <<>>
    <2> DEFINE S == {k \in 0 .. Len(L) - 1 : f[k + 1] * L[k + 1].stride = L[1].nelems}
    <2>1. Len(L) > 0 /\ Len(L) - 1 \in Nat  BY <1>7
    <2>2. 0 \in S
        <3>1. 1 \in 1 .. Len(L) /\ 1 - 1 = 0 /\ 0 + 1 = 1  BY <2>1
        <3>2. f[1] = 1 * Size(L[1])  BY <1>5, <3>1
        <3>3. 1 * Size(L[1]) = Size(L[1])  BY <1>4, <3>1
        <3> QED BY <1>4, <2>1, <3>1, <3>2, <3>3
    <2>3. ASSUME NEW k \in 0 .. (Len(L) - 1) - 1, k \in S PROVE k + 1 \in S
        <3> DEFINE i == k + 1
                   j == i + 1
        <3>1. i \in 1 .. Len(L) - 1 /\ i \in 1 .. Len(L) /\ j \in 1 .. Len(L) /\ j - 1 = i
            BY <2>1
        <3>2. f[i] * L[i].stride = L[1].nelems  BY <2>3
        <3>3. L[i].stride = L[j].nelems  BY <3>1 DEF Dense
        <3>4. f[j] = f[i] * Size(L[j])  BY <1>5, <3>1
        <3>5. L[j].nelems = Size(L[j]) * L[j].stride  BY <1>4, <3>1
        <3>6. f[i] \in Int /\ Size(L[j]) \in Int /\ L[j].stride \in Int
            BY <1>4, <1>5, <3>1
        <3>7. (f[i] * Size(L[j])) * L[j].stride = f[i] * (Size(L[j]) * L[j].stride)
            BY <3>6, Associates
        <3>8. f[j] * L[j].stride = L[1].nelems  BY <3>2, <3>3, <3>4, <3>5, <3>7
        <3> QED BY <2>1, <3>8
    <2> HIDE DEF S
    <2>4. \A k \in 0 .. Len(L) - 1 : k \in S  BY <2>1, <2>2, <2>3, InductionTo
    <2>5. Len(L) - 1 \in S /\ (Len(L) - 1) + 1 = Len(L)  BY <2>1, <2>4
    <2>6. f[Len(L)] * L[Len(L)].stride = L[1].nelems  BY <2>5 DEF S
    <2>7. L[Len(L)].stride = 1  BY <2>1 DEF Dense
    <2>8. f[Len(L)] \in Int  BY <1>1, <1>5
    <2> QED BY <1>3, <1>7, <2>6, <2>7, <2>8 DEF NumElements
<1> QED BY <1>6, <1>7

(***************************************************************************)
(* The layout of a new array.                                              *)
(***************************************************************************)
ArrayLayouts == {L \in Seq(ArrayDims) : NumElements(L) # 0 => Dense(L)}

(* num_elements() is size() times the num_elements() of sub(). *)
LEMMA NumElementsFirst ==
    ASSUME NEW L \in Seq(ArrayDims), NEW sub \in Seq(ArrayDims), Len(L) = Len(sub) + 1,
           \A k \in 1 .. Len(sub) : L[k + 1] = sub[k]
    PROVE  NumElements(L) = Size(L[1]) * NumElements(sub)
<1>1. /\ Sizes(L) \in Seq(Int) /\ Len(Sizes(L)) = Len(L)
      /\ \A k \in 1 .. Len(L) : Sizes(L)[k] = Size(L[k])
    BY SizesFacts
<1>2. /\ Sizes(sub) \in Seq(Int) /\ Len(Sizes(sub)) = Len(sub)
      /\ \A k \in 1 .. Len(sub) : Sizes(sub)[k] = Size(sub[k])
    BY SizesFacts
<1>3. \A k \in 1 .. Len(sub) : k + 1 \in 1 .. Len(L)  OBVIOUS
<1>4. \A k \in 1 .. Len(Sizes(sub)) : Sizes(L)[k + 1] = Sizes(sub)[k]  BY <1>1, <1>2, <1>3
<1>5. Len(Sizes(L)) = Len(Sizes(sub)) + 1  BY <1>1, <1>2
<1>6. Product(Sizes(L)) = Sizes(L)[1] * Product(Sizes(sub))
    BY <1>1, <1>2, <1>4, <1>5, ProductFirst
<1>7. Sizes(L)[1] = Size(L[1])  BY <1>1
<1> QED BY <1>6, <1>7 DEF NumElements

(* A dimension in front of a layout: what it holds is Count(x) times what the layout does. *)
LEMMA WithDimensionFacts ==
    ASSUME NEW sub \in ArrayLayouts, NEW x \in Intervals
    PROVE  /\ WithDimension(x, sub) \in ArrayLayouts
           /\ Len(WithDimension(x, sub)) = Len(sub) + 1
           /\ \A k \in 1 .. Len(sub) : WithDimension(x, sub)[k + 1] = sub[k]
           /\ NumElements(WithDimension(x, sub)) = Count(x) * NumElements(sub)
           /\ NumElements(sub) # 0 => WithDimension(x, sub)[1]
                                        = Dim(NumElements(sub), x[1] * NumElements(sub),
                                              Count(x) * NumElements(sub))
<1> DEFINE N == NumElements(sub)
           stride == IF sub = <<>> THEN 1 ELSE Size(Head(sub)) * Head(sub).stride
           d == Dim(stride, x[1] * stride, Count(x) * N)
           L == <<d>> \o sub
<1>1. WithDimension(x, sub) = L  BY DEF WithDimension
<1>2. sub \in Seq(ArrayDims) /\ Len(sub) \in Nat /\ N \in Nat  BY SizesFacts DEF ArrayLayouts
<1>3. x[1] \in Int /\ Count(x) \in Nat  BY DEF Intervals, Count
<1>4. stride \in Nat
    <2>1. CASE sub = <<>>  BY <2>1
    <2>2. CASE sub # <<>>
        <3>1. Head(sub) \in ArrayDims  BY <1>2, <2>2
        <3>2. Size(Head(sub)) \in Nat /\ Head(sub).stride \in Nat
            BY <3>1, ArrayDimFacts DEF ArrayDims
        <3> QED BY <2>2, <3>2
    <2> QED BY <2>1, <2>2
<1>5. N # 0 => stride = N
    <2> SUFFICES ASSUME N # 0 PROVE stride = N
        OBVIOUS
    <2>1. Dense(sub)  BY DEF ArrayLayouts
    <2>2. CASE sub = <<>>  BY <1>2, <2>1, <2>2, DenseNumElements
    <2>3. CASE sub # <<>>
        <3>1. N = sub[1].nelems  BY <1>2, <2>1, <2>3, DenseNumElements
        <3>2. sub[1] \in WholeDims /\ Head(sub) = sub[1]  BY <1>2, <2>1, <2>3 DEF Dense
        <3>3. sub[1].nelems = Size(sub[1]) * sub[1].stride  BY <3>2, WholeDimFacts
        <3> QED BY <2>3, <3>1, <3>2, <3>3
    <2> QED BY <2>2, <2>3
<1> HIDE DEF N, stride
<1>6. d \in ArrayDims /\ (N # 0 => Size(d) = Count(x) /\ d \in WholeDims)
         /\ (N = 0 => Size(d) = 0)
    <2>1. CASE N = 0
        <3>1. x[1] * stride \in Int /\ Count(x) * N = 0  BY <1>2, <1>3, <1>4, <2>1
        <3>2. d \in Dims /\ d.nelems = 0 /\ d.stride = stride  BY <1>4, <3>1 DEF Dims, Dim
        <3>3. d \in ArrayDims  BY <1>4, <3>2 DEF ArrayDims
        <3>4. Size(d) = 0  BY <3>2 DEF Size
        <3> QED BY <2>1, <3>3, <3>4
    <2>2. CASE N # 0
        <3>1. d = Dim(N, x[1] * N, Count(x) * N)  BY <1>5, <2>2
        <3>2. N \in Nat \ {0}  BY <1>2, <2>2
        <3>3. d \in WholeDims  BY <1>3, <3>1, <3>2, MakeWhole
        <3>4. d.nelems = Count(x) * N /\ d.stride = N  BY <3>1 DEF Dim
        <3> HIDE DEF d
        <3>5. d.nelems = Size(d) * d.stride /\ Size(d) \in Nat  BY <3>3, WholeDimFacts
        <3>6. Size(d) = Count(x)
            <4>1. Size(d) * N = Count(x) * N  BY <3>4, <3>5
            <4> QED BY <1>3, <3>2, <3>5, <4>1
        <3>7. d \in ArrayDims  BY <3>2, <3>3, <3>4 DEF ArrayDims, WholeDims
        <3> QED BY <2>2, <3>3, <3>6, <3>7
    <2> QED BY <2>1, <2>2
<1>7. N # 0 => d = Dim(N, x[1] * N, Count(x) * N)  BY <1>5
<1>8. N # 0 => d.stride = N  BY <1>7 DEF Dim
<1> HIDE DEF d
<1>9. L \in Seq(ArrayDims) /\ Len(L) = Len(sub) + 1 /\ L[1] = d
      /\ \A k \in 1 .. Len(sub) : L[k + 1] = sub[k]
    <2>1. <<d>> \in Seq(ArrayDims) /\ Len(<<d>>) = 1 /\ <<d>>[1] = d  BY <1>6
    <2> QED BY <1>2, <2>1
<1> HIDE DEF L
<1>10. NumElements(L) = Size(d) * N  BY <1>2, <1>9, NumElementsFirst DEF N
<1>11. NumElements(L) = Count(x) * N  BY <1>3, <1>6, <1>10
<1>12. ASSUME NumElements(L) # 0 PROVE Dense(L)
    <2>1. N # 0 /\ Count(x) # 0  BY <1>2, <1>3, <1>11, <1>12
    <2>2. Dense(sub)  BY <2>1 DEF ArrayLayouts, N
    <2>3. d \in WholeDims /\ Size(d) > 0 /\ d.stride = N  BY <1>3, <1>6, <1>8, <2>1
    <2>4. ASSUME NEW k \in 1 .. Len(L) PROVE L[k] \in WholeDims /\ Size(L[k]) > 0
        <3>1. CASE k = 1  BY <1>9, <2>3, <3>1
        <3>2. CASE k # 1
            <4>1. k - 1 \in 1 .. Len(sub) /\ (k - 1) + 1 = k  BY <1>2, <1>9, <3>2
            <4>2. L[k] = sub[k - 1]  BY <1>9, <4>1
            <4> QED BY <2>2, <4>1, <4>2 DEF Dense
        <3> QED BY <3>1, <3>2
    <2>5. ASSUME NEW k \in 1 .. Len(L) - 1 PROVE L[k].stride = L[k + 1].nelems
        <3>1. CASE k = 1
            <4>1. sub # <<>> /\ 1 \in 1 .. Len(sub)  BY <1>2, <1>9
            <4>2. sub[1].nelems = N  BY <1>2, <2>2, <4>1, DenseNumElements DEF N
            <4> QED BY <1>9, <2>3, <3>1, <4>1, <4>2
        <3>2. CASE k # 1
            <4>1. /\ k - 1 \in 1 .. Len(sub) - 1 /\ k - 1 \in 1 .. Len(sub) /\ k \in 1 .. Len(sub)
                  /\ (k - 1) + 1 = k
                BY <1>2, <1>9, <3>2
            <4>2. L[k] = sub[k - 1] /\ L[k + 1] = sub[k]  BY <1>9, <4>1
            <4>3. sub[k - 1].stride = sub[(k - 1) + 1].nelems  BY <2>2, <4>1 DEF Dense
            <4> QED BY <4>1, <4>2, <4>3
        <3> QED BY <3>1, <3>2
    <2>6. L[Len(L)].stride = 1
        <3>1. CASE sub = <<>>
            <4>1. N = 1  BY <1>2, <2>2, <3>1, DenseNumElements DEF N
            <4>2. Len(L) = 1  BY <1>9, <3>1
            <4> QED BY <1>9, <2>3, <4>1, <4>2
        <3>2. CASE sub # <<>>
            <4>1. Len(sub) \in 1 .. Len(sub) /\ Len(sub) > 0  BY <1>2, <3>2
            <4>2. L[Len(L)] = sub[Len(sub)]  BY <1>9, <4>1
            <4> QED BY <2>2, <4>1, <4>2 DEF Dense
        <3> QED BY <3>1, <3>2
    <2> QED BY <2>4, <2>5, <2>6 DEF Dense
<1>13. L \in ArrayLayouts  BY <1>9, <1>12 DEF ArrayLayouts
<1> QED BY <1>1, <1>7, <1>9, <1>11, <1>13 DEF N

(* Its extension is the one it was made from. *)
LEMMA ExtensionOfDim ==
    ASSUME NEW x \in Intervals, Count(x) > 0, NEW n \in Nat \ {0}
    PROVE  Extension(Dim(n, x[1] * n, Count(x) * n)) = x
<1> DEFINE d == Dim(n, x[1] * n, Count(x) * n)
<1>1. /\ x[1] \in Int /\ x[2] \in Int /\ x = <<x[1], x[2]>> /\ Count(x) \in Nat
      /\ x[1] + Count(x) = x[2]
    BY DEF Intervals, Count
<1>2. d \in WholeDims  BY <1>1, MakeWhole
<1>3. d.stride = n /\ d.offset = x[1] * n /\ d.nelems = Count(x) * n  BY DEF Dim
<1> HIDE DEF d
<1>4. /\ Size(d) \in Nat /\ d.nelems = Size(d) * d.stride
      /\ Size(d) > 0 => Extension(d) = <<Quot(d.offset, d.stride), Quot(d.offset, d.stride) + Size(d)>>
    BY <1>2, WholeDimFacts
<1>5. Size(d) = Count(x)
    <2>1. Size(d) * n = Count(x) * n  BY <1>3, <1>4
    <2>2. Size(d) \in Int /\ Count(x) \in Int  BY <1>1, <1>4
    <2> QED BY <2>1, <2>2, Cancels
<1>6. Quot(d.offset, d.stride) = x[1]  BY <1>1, <1>3, QuotExact
<1> QED BY <1>1, <1>4, <1>5, <1>6 DEF d

(* A layout is made dimension by dimension, the last one first (layout_t's constructor). *)
Made(xs, f) == /\ f[0] = <<>>
               /\ \A k \in 1 .. Len(xs) : f[k] = WithDimension(xs[Len(xs) - k + 1], f[k - 1])

LEMMA LayoutExists ==
    ASSUME NEW xs \in Seq(Intervals)
    PROVE  \E f : f = [k \in 0 .. Len(xs) |-> IF k = 0 THEN <<>>
                          ELSE WithDimension(xs[Len(xs) - k + 1], f[k - 1])]
<1> DEFINE Is(n, f) == f = [k \in 0 .. n |-> IF k = 0 THEN <<>>
                              ELSE WithDimension(xs[Len(xs) - k + 1], f[k - 1])]
           S == {n \in 0 .. Len(xs) : \E f : Is(n, f)}
<1>1. Len(xs) \in Nat  OBVIOUS
<1>2. 0 \in S
    <2>1. Is(0, [k \in 0 .. 0 |-> <<>>])  OBVIOUS
    <2>2. \E f : Is(0, f)  BY <2>1, Zenon
    <2> HIDE DEF Is
    <2> QED BY <1>1, <2>2
<1>3. ASSUME NEW n \in 0 .. Len(xs) - 1, n \in S PROVE n + 1 \in S
    <2>1. PICK f : Is(n, f)  BY <1>3
    <2> DEFINE new == WithDimension(xs[Len(xs) - (n + 1) + 1], f[n])
               g == [k \in 0 .. n + 1 |-> IF k = n + 1 THEN new ELSE f[k]]
    <2>2. \A k \in 0 .. n : g[k] = f[k]  BY <1>1
    <2>3. Is(n + 1, g)
        <3> SUFFICES ASSUME NEW k \in 0 .. n + 1
                     PROVE  g[k] = IF k = 0 THEN <<>>
                                   ELSE WithDimension(xs[Len(xs) - k + 1], g[k - 1])
            BY Zenon
        <3>1. CASE k = n + 1
            <4>1. k - 1 = n /\ k # 0  BY <3>1, <1>1
            <4>2. g[n] = f[n]  BY <2>2, <1>1
            <4> QED BY <3>1, <4>1, <4>2
        <3>2. CASE k # n + 1
            <4>1. k \in 0 .. n  BY <3>2, <1>1
            <4>2. f[k] = IF k = 0 THEN <<>> ELSE WithDimension(xs[Len(xs) - k + 1], f[k - 1])
                BY <2>1, <4>1
            <4>3. k # 0 => k - 1 \in 0 .. n  BY <4>1, <1>1
            <4> QED BY <2>2, <4>1, <4>2, <4>3
        <3> QED BY <3>1, <3>2
    <2>4. \E h : Is(n + 1, h)  BY <2>3, Zenon
    <2>5. n + 1 \in 0 .. Len(xs)  BY <1>1
    <2> HIDE DEF Is
    <2> QED BY <2>4, <2>5
<1> HIDE DEF S
<1>4. \A n \in 0 .. Len(xs) : n \in S  BY <1>1, <1>2, <1>3, InductionTo
<1>5. Len(xs) \in S  BY <1>1, <1>4
<1> QED BY <1>5, Zenon DEF S

LEMMA LayoutMade ==
    ASSUME NEW xs \in Seq(Intervals)
    PROVE  \E f : Made(xs, f) /\ LayoutOf(xs) = f[Len(xs)]
<1> DEFINE last == CHOOSE f : f = [k \in 0 .. Len(xs) |-> IF k = 0 THEN <<>>
                                     ELSE WithDimension(xs[Len(xs) - k + 1], f[k - 1])]
<1>1. Len(xs) \in Nat  OBVIOUS
<1>2. last = [k \in 0 .. Len(xs) |-> IF k = 0 THEN <<>>
                ELSE WithDimension(xs[Len(xs) - k + 1], last[k - 1])]
    BY LayoutExists, Zenon
<1>3. LayoutOf(xs) = last[Len(xs)]  BY Zenon DEF LayoutOf
<1> HIDE DEF last
<1>4. last[0] = <<>>  BY <1>1, <1>2
<1>5. \A k \in 1 .. Len(xs) : last[k] = WithDimension(xs[Len(xs) - k + 1], last[k - 1])
    BY <1>1, <1>2
<1>6. Made(xs, last)  BY <1>4, <1>5 DEF Made
<1> QED BY <1>3, <1>6

(* Every sub-layout of a new layout has as many elements as its extensions have tuples, *)
(* none if one of them is empty; otherwise it is dense and has those extensions.         *)
LEMMA SubLayouts ==
    ASSUME NEW xs \in Seq(Intervals), NEW f, Made(xs, f), NEW k \in 0 .. Len(xs)
    PROVE  /\ f[k] \in ArrayLayouts /\ Len(f[k]) = k
           /\ NumElements(f[k]) = 0 <=> \E j \in Len(xs) - k + 1 .. Len(xs) : Count(xs[j]) = 0
           /\ NumElements(f[k]) # 0 => \A j \in 1 .. k : Extension(f[k][j]) = xs[Len(xs) - k + j]
<1> DEFINE n == Len(xs)
           Good(i) == /\ f[i] \in ArrayLayouts /\ Len(f[i]) = i
                      /\ NumElements(f[i]) = 0 <=> \E j \in n - i + 1 .. n : Count(xs[j]) = 0
                      /\ NumElements(f[i]) # 0 => \A j \in 1 .. i : Extension(f[i][j]) = xs[n - i + j]
           S == {i \in 0 .. n : Good(i)}
<1>1. n \in Nat /\ \A j \in 1 .. n : xs[j] \in Intervals /\ Count(xs[j]) \in Nat
    <2>1. \A x \in Intervals : Count(x) \in Nat  BY DEF Intervals, Count
    <2> QED BY <2>1
<1>2. 0 \in S
    <2>1. f[0] = <<>>  BY DEF Made
    <2>2. <<>> \in Seq(ArrayDims) /\ Len(<<>>) = 0  OBVIOUS
    <2>3. Dense(<<>>)  BY <2>2 DEF Dense
    <2>4. NumElements(<<>>) = 1 /\ <<>> \in ArrayLayouts
        BY <2>2, <2>3, DenseNumElements DEF ArrayLayouts
    <2>5. n - 0 + 1 .. n = {} /\ 1 .. 0 = {}  BY <1>1
    <2> QED BY <1>1, <2>1, <2>2, <2>4, <2>5
<1>3. ASSUME NEW i \in 0 .. n - 1, i \in S PROVE i + 1 \in S
    <2> DEFINE m == n - (i + 1) + 1
               sub == f[i]
               L == WithDimension(xs[m], sub)
    <2>1. /\ i + 1 \in 1 .. n /\ i + 1 \in 0 .. n /\ (i + 1) - 1 = i /\ m \in 1 .. n
          /\ m = n - i /\ n - i + 1 = m + 1
        BY <1>1
    <2>2. f[i + 1] = L  BY <2>1 DEF Made
    <2>3. Good(i)  BY <1>3
    <2>4. xs[m] \in Intervals /\ Count(xs[m]) \in Nat  BY <1>1, <2>1
    <2>5. sub \in ArrayLayouts /\ Len(sub) = i  BY <2>3
    <2> HIDE DEF L, sub, m
    <2>6. /\ L \in ArrayLayouts /\ Len(L) = Len(sub) + 1
          /\ \A j \in 1 .. Len(sub) : L[j + 1] = sub[j]
          /\ NumElements(L) = Count(xs[m]) * NumElements(sub)
          /\ NumElements(sub) # 0 => L[1] = Dim(NumElements(sub), xs[m][1] * NumElements(sub),
                                                 Count(xs[m]) * NumElements(sub))
        BY <2>4, <2>5, WithDimensionFacts DEF L
    <2>7. NumElements(sub) \in Nat  BY <2>5, SizesFacts DEF ArrayLayouts
    <2>8. NumElements(L) = 0 <=> Count(xs[m]) = 0 \/ NumElements(sub) = 0  BY <2>4, <2>6, <2>7
    <2>9. NumElements(sub) = 0 <=> \E j \in m + 1 .. n : Count(xs[j]) = 0
        BY <2>1, <2>3 DEF sub
    <2>10. NumElements(L) = 0 <=> \E j \in m .. n : Count(xs[j]) = 0
        <3>1. \A j \in m .. n : j = m \/ j \in m + 1 .. n  BY <1>1, <2>1
        <3>2. m \in m .. n /\ \A j \in m + 1 .. n : j \in m .. n  BY <1>1, <2>1
        <3> QED BY <2>8, <2>9, <3>1, <3>2
    <2>11. ASSUME NumElements(L) # 0, NEW j \in 1 .. i + 1
           PROVE  Extension(L[j]) = xs[n - (i + 1) + j]
        <3>1. NumElements(sub) # 0 /\ Count(xs[m]) > 0  BY <2>4, <2>8, <2>11
        <3>2. CASE j = 1
            <4>1. n - (i + 1) + j = m  BY <1>1, <3>2 DEF m
            <4>2. NumElements(sub) \in Nat \ {0}  BY <2>7, <3>1
            <4> DEFINE e == Dim(NumElements(sub), xs[m][1] * NumElements(sub), Count(xs[m]) * NumElements(sub))
            <4>3. Extension(e) = xs[m]  BY <2>4, <3>1, <4>2, ExtensionOfDim
            <4>4. L[1] = e  BY <2>6, <3>1
            <4> HIDE DEF e
            <4> QED BY <3>2, <4>1, <4>3, <4>4
        <3>3. CASE j # 1
            <4>1. j - 1 \in 1 .. i /\ (j - 1) + 1 = j /\ n - i + (j - 1) = n - (i + 1) + j
                BY <1>1, <3>3
            <4>2. L[j] = sub[j - 1]  BY <2>5, <2>6, <4>1
            <4>3. Extension(sub[j - 1]) = xs[n - i + (j - 1)]  BY <2>3, <3>1, <4>1 DEF sub
            <4> QED BY <4>1, <4>2, <4>3
        <3> QED BY <3>2, <3>3
    <2>12. Len(L) = i + 1  BY <2>5, <2>6
    <2>13. n - (i + 1) + 1 = m  BY DEF m
    <2> QED BY <2>1, <2>2, <2>6, <2>10, <2>11, <2>12, <2>13
<1> HIDE DEF S
<1>4. \A i \in 0 .. n : i \in S  BY <1>1, <1>2, <1>3, InductionTo
<1>5. k \in S  BY <1>4
<1> QED BY <1>5 DEF S

(* A new layout has an element for every tuple of indices, and the extensions it was     *)
(* made from if it has elements at all; and then it is dense.                             *)
THEOREM LayoutOfExtensions ==
    ASSUME NEW xs \in Seq(Intervals)
    PROVE  /\ LayoutOf(xs) \in ArrayLayouts /\ Len(LayoutOf(xs)) = Len(xs)
           /\ NumElements(LayoutOf(xs)) = Product(Counts(xs))
           /\ NumElements(LayoutOf(xs)) # 0 => Extensions(LayoutOf(xs)) = xs
<1> DEFINE L == LayoutOf(xs)
           n == Len(xs)
<1>1. PICK f : Made(xs, f) /\ L = f[n]  BY LayoutMade
<1>2. n \in Nat /\ n \in 0 .. n  OBVIOUS
<1> HIDE DEF L
<1>3. /\ L \in ArrayLayouts /\ Len(L) = n
      /\ NumElements(L) = 0 <=> \E j \in 1 .. n : Count(xs[j]) = 0
      /\ NumElements(L) # 0 => \A j \in 1 .. n : Extension(L[j]) = xs[j]
    <2>1. PICK k \in 0 .. Len(xs) : k = Len(xs)  BY <1>2
    <2>2. /\ f[k] \in ArrayLayouts /\ Len(f[k]) = k
          /\ NumElements(f[k]) = 0 <=> \E j \in Len(xs) - k + 1 .. Len(xs) : Count(xs[j]) = 0
          /\ NumElements(f[k]) # 0 => \A j \in 1 .. k : Extension(f[k][j]) = xs[Len(xs) - k + j]
        BY <1>1, SubLayouts
    <2>3. Len(xs) - k + 1 = 1 /\ \A j \in 1 .. k : Len(xs) - k + j = j  BY <2>1
    <2> QED BY <1>1, <2>1, <2>2, <2>3
<1>4. L \in Seq(ArrayDims)  BY <1>3 DEF ArrayLayouts
<1>5. Counts(xs) \in Seq(Nat) /\ Len(Counts(xs)) = n /\ \A j \in 1 .. n : Counts(xs)[j] = Count(xs[j])
    <2>1. \A x \in Intervals : Count(x) \in Nat  BY DEF Intervals, Count
    <2>2. \A j \in 1 .. n : Count(xs[j]) \in Nat  BY <2>1
    <2> QED BY <1>2, <2>2 DEF Counts
<1>6. CASE NumElements(L) = 0
    <2>1. \E j \in 1 .. n : Counts(xs)[j] = 0  BY <1>3, <1>5, <1>6
    <2>2. Product(Counts(xs)) = 0  BY <1>5, <2>1, ProductOfCounts
    <2> QED BY <1>3, <1>6, <2>2 DEF L
<1>7. CASE NumElements(L) # 0
    <2>1. \A j \in 1 .. n : Extension(L[j]) = xs[j]  BY <1>3, <1>7
    <2>2. /\ Extensions(L) \in Seq(Intervals) /\ Len(Extensions(L)) = n
          /\ \A j \in 1 .. n : Extensions(L)[j] = Extension(L[j])
          /\ Counts(Extensions(L)) = Sizes(L)
        BY <1>3, <1>4, ExtensionsFacts
    <2>3. Extensions(L) = xs  BY <2>1, <2>2
    <2>4. NumElements(L) = Product(Counts(xs))  BY <2>2, <2>3 DEF NumElements
    <2> QED BY <1>3, <2>3, <2>4 DEF L
<1> QED BY <1>6, <1>7

(* A matrix has its rows times its columns. *)
LEMMA MatrixElements ==
    ASSUME NEW x \in Intervals, NEW y \in Intervals
    PROVE  /\ LayoutOf(<<x, y>>) \in ArrayLayouts /\ Len(LayoutOf(<<x, y>>)) = 2
           /\ NumElements(LayoutOf(<<x, y>>)) = Count(x) * Count(y)
<1>1. Count(x) \in Int /\ Count(y) \in Int  BY DEF Intervals, Count
<1>2. <<x, y>> \in Seq(Intervals) /\ Len(<<x, y>>) = 2  OBVIOUS
<1>3. Counts(<<x, y>>) = <<Count(x), Count(y)>>  BY <1>2 DEF Counts
<1>4. Product(<<Count(x), Count(y)>>) = Count(x) * Product(<<Count(y)>>)
    <2> DEFINE s == <<Count(x), Count(y)>>
               t == <<Count(y)>>
    <2>1. s \in Seq(Int) /\ t \in Seq(Int) /\ Len(s) = Len(t) + 1 /\ s[1] = Count(x)
          /\ \A k \in 1 .. Len(t) : s[k + 1] = t[k]
        BY <1>1
    <2> HIDE DEF s, t
    <2>2. Product(s) = s[1] * Product(t)  BY <2>1, ProductFirst
    <2> QED BY <2>1, <2>2 DEF s, t
<1>5. Product(<<Count(y)>>) = Count(y) * Product(<<>>)
    <2> DEFINE s == <<Count(y)>>
               t == <<>>
    <2>1. s \in Seq(Int) /\ t \in Seq(Int) /\ Len(s) = Len(t) + 1 /\ s[1] = Count(y)
          /\ \A k \in 1 .. Len(t) : s[k + 1] = t[k]
        BY <1>1
    <2> HIDE DEF s, t
    <2>2. Product(s) = s[1] * Product(t)  BY <2>1, ProductFirst
    <2> QED BY <2>1, <2>2 DEF s, t
<1>6. Product(<<Count(x), Count(y)>>) = Count(x) * Count(y)
    BY <1>1, <1>4, <1>5, ProductOfNone
<1> QED BY <1>2, <1>3, <1>6, LayoutOfExtensions

(* A copy has room for the elements of what it copies (static_array(basic_array const&)). *)
LEMMA CopyHasRoom ==
    ASSUME NEW L \in Seq(ArrayDims)
    PROVE  /\ LayoutOf(Extensions(L)) \in ArrayLayouts
           /\ Len(LayoutOf(Extensions(L))) = Len(L)
           /\ NumElements(LayoutOf(Extensions(L))) = NumElements(L)
BY ExtensionsFacts, LayoutOfExtensions DEF NumElements

(***************************************************************************)
(* Tuples of indices.                                                      *)
(***************************************************************************)
(* The first k indices of the tuples of extensions xs. *)
TuplesTo(xs, k) == {ix \in Seq(Int) : /\ Len(ix) = k
                                    /\ \A j \in 1 .. k : ix[j] \in Indices(xs[j])}

LEMMA BoxExists ==
    ASSUME NEW xs \in Seq(Intervals)
    PROVE  \E f : f = [k \in 0 .. Len(xs) |-> IF k = 0 THEN {<<>>} ELSE Longer(f[k - 1], xs[k])]
<1> DEFINE Is(n, f) == f = [k \in 0 .. n |-> IF k = 0 THEN {<<>>} ELSE Longer(f[k - 1], xs[k])]
           S == {n \in 0 .. Len(xs) : \E f : Is(n, f)}
<1>1. Len(xs) \in Nat  OBVIOUS
<1>2. 0 \in S
    <2>1. Is(0, [k \in 0 .. 0 |-> {<<>>}])  OBVIOUS
    <2>2. \E f : Is(0, f)  BY <2>1, Zenon
    <2> HIDE DEF Is
    <2> QED BY <1>1, <2>2
<1>3. ASSUME NEW n \in 0 .. Len(xs) - 1, n \in S PROVE n + 1 \in S
    <2>1. PICK f : Is(n, f)  BY <1>3
    <2> DEFINE new == Longer(f[n], xs[n + 1])
               g == [k \in 0 .. n + 1 |-> IF k = n + 1 THEN new ELSE f[k]]
    <2>2. \A k \in 0 .. n : g[k] = f[k]  BY <1>1
    <2>3. Is(n + 1, g)
        <3> SUFFICES ASSUME NEW k \in 0 .. n + 1
                     PROVE  g[k] = IF k = 0 THEN {<<>>} ELSE Longer(g[k - 1], xs[k])
            BY Zenon
        <3>1. CASE k = n + 1
            <4>1. k - 1 = n /\ k # 0  BY <3>1, <1>1
            <4>2. g[n] = f[n]  BY <2>2, <1>1
            <4> QED BY <3>1, <4>1, <4>2
        <3>2. CASE k # n + 1
            <4>1. k \in 0 .. n  BY <3>2, <1>1
            <4>2. f[k] = IF k = 0 THEN {<<>>} ELSE Longer(f[k - 1], xs[k])  BY <2>1, <4>1
            <4>3. k # 0 => k - 1 \in 0 .. n  BY <4>1, <1>1
            <4> QED BY <2>2, <4>1, <4>2, <4>3
        <3> QED BY <3>1, <3>2
    <2>4. \E h : Is(n + 1, h)  BY <2>3, Zenon
    <2>5. n + 1 \in 0 .. Len(xs)  BY <1>1
    <2> HIDE DEF Is
    <2> QED BY <2>4, <2>5
<1> HIDE DEF S
<1>4. \A n \in 0 .. Len(xs) : n \in S  BY <1>1, <1>2, <1>3, InductionTo
<1>5. Len(xs) \in S  BY <1>1, <1>4
<1> QED BY <1>5, Zenon DEF S

(* One more index. *)
LEMMA LongerTuples ==
    ASSUME NEW xs \in Seq(Intervals), NEW k \in 1 .. Len(xs)
    PROVE  Longer(TuplesTo(xs, k - 1), xs[k]) = TuplesTo(xs, k)
<1>1. k \in Nat /\ k - 1 \in Nat /\ (k - 1) + 1 = k /\ k \in 1 .. k  OBVIOUS
<1>2. Indices(xs[k]) \subseteq Int
    <2>1. xs[k] \in Intervals  OBVIOUS
    <2> QED BY <2>1 DEF Intervals, Indices
<1>3. ASSUME NEW ix \in TuplesTo(xs, k - 1), NEW i \in Indices(xs[k])
      PROVE  Append(ix, i) \in TuplesTo(xs, k)
    <2>1. ix \in Seq(Int) /\ Len(ix) = k - 1 /\ i \in Int  BY <1>2 DEF TuplesTo
    <2>2. /\ Append(ix, i) \in Seq(Int) /\ Len(Append(ix, i)) = k /\ Append(ix, i)[k] = i
          /\ \A j \in 1 .. k - 1 : Append(ix, i)[j] = ix[j]
        BY <1>1, <2>1
    <2>3. \A j \in 1 .. k : j \in 1 .. k - 1 \/ j = k  BY <1>1
    <2> HIDE DEF Indices
    <2> QED BY <2>2, <2>3 DEF TuplesTo
<1>4. ASSUME NEW ix \in TuplesTo(xs, k)
      PROVE  \E jx \in TuplesTo(xs, k - 1), i \in Indices(xs[k]) : ix = Append(jx, i)
    <2> DEFINE jx == SubSeq(ix, 1, k - 1)
    <2>1. /\ ix \in Seq(Int) /\ Len(ix) = k /\ ix[k] \in Indices(xs[k])
          /\ \A j \in 1 .. k : ix[j] \in Indices(xs[j])
        BY <1>1 DEF TuplesTo
    <2>2. jx \in Seq(Int) /\ Len(jx) = k - 1 /\ \A j \in 1 .. k - 1 : jx[j] = ix[j]
        BY <1>1, <2>1
    <2>3. \A j \in 1 .. k - 1 : j \in 1 .. k  BY <1>1
    <2> HIDE DEF jx
    <2>4. jx \in TuplesTo(xs, k - 1)  BY <2>1, <2>2, <2>3 DEF TuplesTo
    <2>5. ix = Append(jx, ix[k])  BY <1>1, <2>1, <2>2
    <2> QED BY <2>1, <2>4, <2>5
<1> HIDE DEF Indices
<1>5. ASSUME NEW jx \in Longer(TuplesTo(xs, k - 1), xs[k]) PROVE jx \in TuplesTo(xs, k)
    <2>1. PICK ix \in TuplesTo(xs, k - 1), i \in Indices(xs[k]) : jx = Append(ix, i)
        BY SMT DEF Longer
    <2> QED BY <1>3, <2>1
<1>6. ASSUME NEW jx \in TuplesTo(xs, k) PROVE jx \in Longer(TuplesTo(xs, k - 1), xs[k])
    <2>1. PICK ix \in TuplesTo(xs, k - 1), i \in Indices(xs[k]) : jx = Append(ix, i)
        BY <1>4
    <2> QED BY <2>1, SMT DEF Longer
<1> QED BY <1>5, <1>6, Zenon

(* An index for every dimension, each in its extension, and every such tuple. *)
LEMMA BoxTuples ==
    ASSUME NEW xs \in Seq(Intervals)
    PROVE  Box(xs) = TuplesTo(xs, Len(xs))
<1> DEFINE upto == CHOOSE f : f = [k \in 0 .. Len(xs) |->
                          IF k = 0 THEN {<<>>} ELSE Longer(f[k - 1], xs[k])]
           S == {k \in 0 .. Len(xs) : upto[k] = TuplesTo(xs, k)}
<1>1. Len(xs) \in Nat  OBVIOUS
<1>2. upto = [k \in 0 .. Len(xs) |-> IF k = 0 THEN {<<>>} ELSE Longer(upto[k - 1], xs[k])]
    BY BoxExists, Zenon
<1>3. Box(xs) = upto[Len(xs)]  BY Zenon DEF Box
<1> HIDE DEF upto
<1>8. \A k \in 1 .. Len(xs) : upto[k] = Longer(upto[k - 1], xs[k])  BY <1>1, <1>2
<1>4. 0 \in S
    <2>1. upto[0] = {<<>>}  BY <1>1, <1>2
    <2>2. TuplesTo(xs, 0) = {<<>>}
        <3>1. \A ix \in Seq(Int) : Len(ix) = 0 <=> ix = <<>>  OBVIOUS
        <3>2. <<>> \in Seq(Int) /\ Len(<<>>) = 0  OBVIOUS
        <3>3. 1 .. 0 = {}  OBVIOUS
        <3> QED BY <3>1, <3>2, <3>3 DEF TuplesTo
    <2>3. 0 \in 0 .. Len(xs)  BY <1>1
    <2>4. upto[0] = TuplesTo(xs, 0)  BY <2>1, <2>2
    <2> QED BY ONLY <2>3, <2>4 DEF S
<1>5. ASSUME NEW k \in 0 .. Len(xs) - 1, k \in S PROVE k + 1 \in S
    <2>1. k + 1 \in 1 .. Len(xs) /\ k + 1 \in 0 .. Len(xs) /\ (k + 1) - 1 = k  BY <1>1
    <2>2. upto[k + 1] = Longer(upto[k], xs[k + 1])  BY <1>8, <2>1
    <2>3. Longer(TuplesTo(xs, k), xs[k + 1]) = TuplesTo(xs, k + 1)  BY <2>1, LongerTuples
    <2> QED BY <1>5, <2>1, <2>2, <2>3
<1> HIDE DEF S
<1>6. \A k \in 0 .. Len(xs) : k \in S  BY <1>1, <1>4, <1>5, InductionTo
<1>7. Len(xs) \in S  BY <1>1, <1>6
<1> QED BY <1>3, <1>7 DEF S

(***************************************************************************)
(* Positions: the sum of the shifts of the dimensions.                     *)
(***************************************************************************)
Walk(L, ix, f) == /\ f \in [0 .. Len(ix) -> Int]
                  /\ f[0] = 0
                  /\ \A k \in 1 .. Len(ix) : f[k] = f[k - 1] + Shift(L[k], ix[k])

LEMMA PositionExists ==
    ASSUME NEW L, NEW ix \in Seq(Int)
    PROVE  \E f : f = [k \in 0 .. Len(ix) |-> IF k = 0 THEN 0 ELSE f[k - 1] + Shift(L[k], ix[k])]
<1> DEFINE Is(n, f) == f = [k \in 0 .. n |-> IF k = 0 THEN 0 ELSE f[k - 1] + Shift(L[k], ix[k])]
           S == {n \in 0 .. Len(ix) : \E f : Is(n, f)}
<1>1. Len(ix) \in Nat  OBVIOUS
<1>2. 0 \in S
    <2>1. Is(0, [k \in 0 .. 0 |-> 0])  OBVIOUS
    <2>2. \E f : Is(0, f)  BY <2>1, Zenon
    <2> HIDE DEF Is
    <2> QED BY <1>1, <2>2
<1>3. ASSUME NEW n \in 0 .. Len(ix) - 1, n \in S PROVE n + 1 \in S
    <2>1. PICK f : Is(n, f)  BY <1>3
    <2> DEFINE new == f[n] + Shift(L[n + 1], ix[n + 1])
               g == [k \in 0 .. n + 1 |-> IF k = n + 1 THEN new ELSE f[k]]
    <2>2. \A k \in 0 .. n : g[k] = f[k]  BY <1>1
    <2>3. Is(n + 1, g)
        <3> SUFFICES ASSUME NEW k \in 0 .. n + 1
                     PROVE  g[k] = IF k = 0 THEN 0 ELSE g[k - 1] + Shift(L[k], ix[k])
            BY Zenon
        <3>1. CASE k = n + 1
            <4>1. k - 1 = n /\ k # 0  BY <3>1, <1>1
            <4>2. g[n] = f[n]  BY <2>2, <1>1
            <4> QED BY <3>1, <4>1, <4>2
        <3>2. CASE k # n + 1
            <4>1. k \in 0 .. n  BY <3>2, <1>1
            <4>2. f[k] = IF k = 0 THEN 0 ELSE f[k - 1] + Shift(L[k], ix[k])  BY <2>1, <4>1
            <4>3. k # 0 => k - 1 \in 0 .. n  BY <4>1, <1>1
            <4> QED BY <2>2, <4>1, <4>2, <4>3
        <3> QED BY <3>1, <3>2
    <2>4. \E h : Is(n + 1, h)  BY <2>3, Zenon
    <2>5. n + 1 \in 0 .. Len(ix)  BY <1>1
    <2> HIDE DEF Is
    <2> QED BY <2>4, <2>5
<1> HIDE DEF S
<1>4. \A n \in 0 .. Len(ix) : n \in S  BY <1>1, <1>2, <1>3, InductionTo
<1>5. Len(ix) \in S  BY <1>1, <1>4
<1> QED BY <1>5, Zenon DEF S

(* A shift is a whole number. *)
LEMMA ShiftInt ==
    ASSUME NEW d \in Dims, NEW i \in Int
    PROVE  Shift(d, i) \in Int
BY DEF Dims, Shift

LEMMA PositionWalk ==
    ASSUME NEW L \in Seq(Dims), NEW ix \in Seq(Int), Len(ix) <= Len(L)
    PROVE  \E f : Walk(L, ix, f) /\ Position(L, ix) = f[Len(ix)]
<1> DEFINE walk == CHOOSE f : f = [k \in 0 .. Len(ix) |->
                                     IF k = 0 THEN 0 ELSE f[k - 1] + Shift(L[k], ix[k])]
<1>1. Len(ix) \in Nat /\ Len(L) \in Nat  OBVIOUS
<1>2. walk = [k \in 0 .. Len(ix) |-> IF k = 0 THEN 0 ELSE walk[k - 1] + Shift(L[k], ix[k])]
    BY PositionExists, Zenon
<1>3. Position(L, ix) = walk[Len(ix)]  BY Zenon DEF Position
<1> HIDE DEF walk
<1>4. walk[0] = 0  BY <1>1, <1>2
<1>5. \A k \in 1 .. Len(ix) : walk[k] = walk[k - 1] + Shift(L[k], ix[k])  BY <1>1, <1>2, SMTT(30)
<1>6. \A k \in 0 .. Len(ix) : walk[k] \in Int
    <2> DEFINE S == {k \in 0 .. Len(ix) : walk[k] \in Int}
    <2>1. 0 \in S  BY <1>1, <1>4
    <2>2. ASSUME NEW n \in 0 .. Len(ix) - 1, n \in S PROVE n + 1 \in S
        <3>1. n + 1 \in 1 .. Len(ix) /\ n + 1 \in 0 .. Len(ix) /\ (n + 1) - 1 = n /\ n + 1 \in 1 .. Len(L)
            BY <1>1
        <3>2. walk[n + 1] = walk[n] + Shift(L[n + 1], ix[n + 1])  BY <1>5, <3>1
        <3>3. L[n + 1] \in Dims /\ ix[n + 1] \in Int  BY <3>1
        <3>4. Shift(L[n + 1], ix[n + 1]) \in Int  BY <3>3, ShiftInt
        <3> QED BY <2>2, <3>1, <3>2, <3>4
    <2> HIDE DEF S
    <2>3. \A n \in 0 .. Len(ix) : n \in S  BY <1>1, <2>1, <2>2, InductionTo
    <2> QED BY <2>3 DEF S
<1>7. Walk(L, ix, walk)  BY <1>2, <1>4, <1>5, <1>6 DEF Walk
<1> QED BY <1>3, <1>7

(* The shifts behind the first, and the first. *)
WalkBehind(L, ix, M, jx, m) == /\ m + 1 <= Len(ix)
                               /\ \A k \in 1 .. m : L[k + 1] = M[k] /\ ix[k + 1] = jx[k]

LEMMA WalkShift ==
    ASSUME NEW L \in Seq(Dims), NEW ix \in Seq(Int), Len(ix) <= Len(L),
           NEW M \in Seq(Dims), NEW jx \in Seq(Int), Len(jx) <= Len(M),
           NEW f, NEW g, Walk(L, ix, f), Walk(M, jx, g),
           NEW m \in 0 .. Len(jx), WalkBehind(L, ix, M, jx, m)
    PROVE  f[m + 1] = Shift(L[1], ix[1]) + g[m]
<1> DEFINE S == {k \in 0 .. m : f[k + 1] = Shift(L[1], ix[1]) + g[k]}
<1>1. /\ Len(ix) \in Nat /\ Len(jx) \in Nat /\ Len(L) \in Nat /\ m \in Nat
      /\ m + 1 <= Len(ix) /\ m <= Len(jx)
    BY DEF WalkBehind
<1>2. /\ f[0] = 0 /\ g[0] = 0
      /\ \A k \in 1 .. Len(ix) : f[k] = f[k - 1] + Shift(L[k], ix[k])
      /\ \A k \in 1 .. Len(jx) : g[k] = g[k - 1] + Shift(M[k], jx[k])
      /\ g \in [0 .. Len(jx) -> Int]
    BY Zenon DEF Walk
<1>3. \A k \in 1 .. Len(ix) : Shift(L[k], ix[k]) \in Int
    <2> SUFFICES ASSUME NEW k \in 1 .. Len(ix) PROVE Shift(L[k], ix[k]) \in Int
        OBVIOUS
    <2>1. L[k] \in Dims /\ ix[k] \in Int  BY <1>1
    <2> QED BY <2>1, ShiftInt
<1>4. 0 \in S
    <2>1. 1 \in 1 .. Len(ix) /\ 1 - 1 = 0  BY <1>1
    <2>2. f[1] = f[0] + Shift(L[1], ix[1])  BY <1>2, <2>1
    <2> QED BY <1>1, <1>2, <1>3, <2>1, <2>2
<1>5. ASSUME NEW k \in 0 .. m - 1, k \in S PROVE k + 1 \in S
    <2>1. k + 1 \in 0 .. m /\ k + 1 \in 1 .. m /\ k + 1 \in 1 .. Len(jx) /\ (k + 1) - 1 = k
        BY <1>1
    <2>2. (k + 1) + 1 \in 1 .. Len(ix) /\ ((k + 1) + 1) - 1 = k + 1 /\ 1 \in 1 .. Len(ix)  BY <1>1
    <2>3. f[(k + 1) + 1] = f[k + 1] + Shift(L[(k + 1) + 1], ix[(k + 1) + 1])  BY <1>2, <2>2
    <2>4. L[(k + 1) + 1] = M[k + 1] /\ ix[(k + 1) + 1] = jx[k + 1]  BY <2>1 DEF WalkBehind
    <2>5. f[k + 1] = Shift(L[1], ix[1]) + g[k]  BY <1>5
    <2>6. g[k + 1] = g[k] + Shift(M[k + 1], jx[k + 1])  BY <1>2, <2>1
    <2>7. Shift(M[k + 1], jx[k + 1]) \in Int /\ Shift(L[1], ix[1]) \in Int
        BY <1>3, <2>2, <2>4
    <2>8. g[k] \in Int
        <3>1. k \in 0 .. Len(jx)  BY <1>1
        <3> QED BY <1>2, <3>1
    <2>9. f[(k + 1) + 1] = Shift(L[1], ix[1]) + g[k + 1]
        BY <2>3, <2>4, <2>5, <2>6, <2>7, <2>8
    <2> QED BY <2>1, <2>9
<1> HIDE DEF S
<1>6. \A k \in 0 .. m : k \in S  BY <1>1, <1>4, <1>5, InductionTo
<1>7. m \in S  BY <1>1, <1>6
<1> QED BY <1>7 DEF S

(* The position of a tuple is a whole number, whichever its indices. *)
LEMMA PositionInt ==
    ASSUME NEW L \in Seq(Dims), NEW ix \in Seq(Int), Len(ix) <= Len(L)
    PROVE  Position(L, ix) \in Int
<1>1. PICK f : Walk(L, ix, f) /\ Position(L, ix) = f[Len(ix)]  BY PositionWalk, Zenon
<1>2. f \in [0 .. Len(ix) -> Int]  BY <1>1, Zenon DEF Walk
<1>3. Len(ix) \in 0 .. Len(ix)  OBVIOUS
<1> QED BY <1>1, <1>2, <1>3

(* The first dimension shifts, the others take it from there (basic_array::operator[]). *)
LEMMA PositionFirst ==
    ASSUME NEW L \in Seq(Dims), NEW ix \in Seq(Int), Len(ix) = Len(L),
           NEW M \in Seq(Dims), NEW jx \in Seq(Int), Len(jx) = Len(M),
           Len(L) = Len(M) + 1,
           \A k \in 1 .. Len(M) : L[k + 1] = M[k] /\ ix[k + 1] = jx[k]
    PROVE  Position(L, ix) = Shift(L[1], ix[1]) + Position(M, jx)
<1>0. Len(ix) <= Len(L) /\ Len(jx) <= Len(M)  OBVIOUS
<1>1. PICK f : Walk(L, ix, f) /\ Position(L, ix) = f[Len(ix)]  BY <1>0, PositionWalk, Zenon
<1>2. PICK g : Walk(M, jx, g) /\ Position(M, jx) = g[Len(jx)]  BY <1>0, PositionWalk, Zenon
<1>3. Walk(L, ix, f) /\ Walk(M, jx, g)  BY <1>1, <1>2
<1>4. PICK m \in 0 .. Len(jx) : m = Len(jx)
    <2>1. Len(jx) \in 0 .. Len(jx)  OBVIOUS
    <2> QED BY <2>1
<1>5. WalkBehind(L, ix, M, jx, m)
    <2>1. m + 1 <= Len(ix) /\ m = Len(M)  BY <1>4
    <2> QED BY <2>1 DEF WalkBehind
<1>6. f[m + 1] = Shift(L[1], ix[1]) + g[m]  BY <1>0, <1>3, <1>5, WalkShift
<1> QED BY <1>1, <1>2, <1>4, <1>6

(* The first dimension may as well be the last (layout_t::rotate). *)
LEMMA PositionTurned ==
    ASSUME NEW L \in Seq(Dims), NEW ix \in Seq(Int), Len(ix) = Len(L),
           NEW M \in Seq(Dims), NEW jx \in Seq(Int), Len(jx) = Len(M),
           Len(L) = Len(M), Len(L) > 0,
           \A k \in 1 .. Len(L) - 1 : M[k] = L[k + 1] /\ jx[k] = ix[k + 1],
           M[Len(L)] = L[1], jx[Len(L)] = ix[1]
    PROVE  Position(M, jx) = Position(L, ix)
<1>0. Len(ix) <= Len(L) /\ Len(jx) <= Len(M)  OBVIOUS
<1>1. PICK f : Walk(L, ix, f) /\ Position(L, ix) = f[Len(ix)]  BY <1>0, PositionWalk, Zenon
<1>2. PICK g : Walk(M, jx, g) /\ Position(M, jx) = g[Len(jx)]  BY <1>0, PositionWalk, Zenon
<1>3. PICK m \in 0 .. Len(jx) : Len(L) = m + 1
    <2>1. Len(L) - 1 \in 0 .. Len(jx) /\ Len(L) = (Len(L) - 1) + 1  OBVIOUS
    <2> QED BY <2>1
<1>4. Walk(L, ix, f) /\ Walk(M, jx, g)  BY <1>1, <1>2
<1>5. Len(ix) <= Len(L) /\ Len(jx) <= Len(M) /\ Len(L) \in Nat  OBVIOUS
<1>6. WalkBehind(L, ix, M, jx, m)
    <2>1. \A k \in 1 .. m : L[k + 1] = M[k] /\ ix[k + 1] = jx[k]  BY <1>3
    <2> QED BY <1>3, <2>1 DEF WalkBehind
<1>7. f[m + 1] = Shift(L[1], ix[1]) + g[m]  BY <1>4, <1>5, <1>6, WalkShift
<1>8. g[Len(L)] = g[m] + Shift(L[1], ix[1])
    <2>1. Len(L) \in 1 .. Len(jx) /\ Len(L) - 1 = m  BY <1>3
    <2>2. g[Len(L)] = g[m] + Shift(M[Len(L)], jx[Len(L)])  BY <1>4, <2>1 DEF Walk
    <2> QED BY <2>2
<1>9. Shift(L[1], ix[1]) \in Int /\ g[m] \in Int
    <2>1. g \in [0 .. Len(jx) -> Int]  BY <1>4, Zenon DEF Walk
    <2>2. L[1] \in Dims /\ ix[1] \in Int  OBVIOUS
    <2> QED BY <1>3, <2>1, <2>2, ShiftInt
<1> QED BY <1>1, <1>2, <1>3, <1>7, <1>8, <1>9

(***************************************************************************)
(* Dense layouts send their tuples into the block, each to an element of   *)
(* its own.                                                                *)
(***************************************************************************)
(* An index of a dimension shifts by less than the dimension holds. *)
LEMMA ShiftInDim ==
    ASSUME NEW d \in WholeDims, NEW i \in Indices(Extension(d)), Size(d) > 0
    PROVE  /\ i \in Int
           /\ i - Extension(d)[1] \in 0 .. Size(d) - 1
           /\ Shift(d, i) = (i - Extension(d)[1]) * d.stride
           /\ Shift(d, i) \in 0 .. d.nelems - d.stride
<1> DEFINE o == Quot(d.offset, d.stride)
<1>1. /\ d.stride \in Nat \ {0} /\ Size(d) \in Nat /\ o \in Int
      /\ d.nelems = Size(d) * d.stride /\ d.offset = o * d.stride
      /\ Extension(d) = <<o, o + Size(d)>>
    BY WholeDimFacts
<1> HIDE DEF o
<1>2. i \in o .. o + Size(d) - 1  BY <1>1 DEF Indices
<1>3. i \in Int /\ i - o \in 0 .. Size(d) - 1  BY <1>1, <1>2
<1>4. Shift(d, i) = (i - o) * d.stride  BY <1>1, <1>3 DEF Shift
<1>5. (i - o) * d.stride \in 0 .. d.nelems - d.stride
    <2>1. (i - o) * d.stride >= 0  BY <1>1, <1>3
    <2>2. (i - o) * d.stride <= (Size(d) - 1) * d.stride  BY <1>1, <1>3
    <2>3. (Size(d) - 1) * d.stride = Size(d) * d.stride - d.stride  BY <1>1
    <2>4. (i - o) * d.stride \in Int /\ d.nelems - d.stride \in Int  BY <1>1, <1>3
    <2> QED BY <1>1, <2>1, <2>2, <2>3, <2>4
<1> QED BY <1>1, <1>3, <1>4, <1>5

(* What a tuple of the box of a layout is. *)
LEMMA BoxOfLayout ==
    ASSUME NEW L \in Seq(ArrayDims), NEW ix \in Box(Extensions(L))
    PROVE  /\ ix \in Seq(Int) /\ Len(ix) = Len(L)
           /\ \A k \in 1 .. Len(L) : ix[k] \in Indices(Extension(L[k])) /\ Size(L[k]) > 0
           /\ NumElements(L) # 0
<1>1. /\ Extensions(L) \in Seq(Intervals) /\ Len(Extensions(L)) = Len(L)
      /\ \A k \in 1 .. Len(L) : Extensions(L)[k] = Extension(L[k])
    BY ExtensionsFacts
<1>2. ix \in TuplesTo(Extensions(L), Len(L))  BY <1>1, BoxTuples
<1>3. ix \in Seq(Int) /\ Len(ix) = Len(L) /\ \A k \in 1 .. Len(L) : ix[k] \in Indices(Extension(L[k]))
    BY <1>1, <1>2 DEF TuplesTo
<1>4. \A k \in 1 .. Len(L) : Size(L[k]) > 0
    <2> SUFFICES ASSUME NEW k \in 1 .. Len(L) PROVE Size(L[k]) > 0
        OBVIOUS
    <2>1. L[k] \in ArrayDims  OBVIOUS
    <2>2. /\ Size(L[k]) \in Nat /\ Count(Extension(L[k])) = Size(L[k])
          /\ Extension(L[k]) \in Intervals
        BY <2>1, ArrayDimFacts
    <2>3. ix[k] \in Extension(L[k])[1] .. Extension(L[k])[2] - 1  BY <1>3 DEF Indices
    <2>4. Extension(L[k])[1] \in Int /\ Extension(L[k])[2] \in Int  BY <2>2 DEF Intervals
    <2>5. Extension(L[k])[2] - Extension(L[k])[1] = Size(L[k])  BY <2>2 DEF Count
    <2>6. Extension(L[k])[1] < Extension(L[k])[2]  BY <2>3, <2>4
    <2> QED BY <2>2, <2>4, <2>5, <2>6
<1>5. NumElements(L) # 0
    <2>1. \A k \in 1 .. Len(L) : Size(L[k]) # 0  BY <1>4
    <2> QED BY <2>1, SizesFacts
<1> QED BY <1>3, <1>4, <1>5

(* After its first k shifts a position has used up all but a stride of the block. *)
LEMMA WalkInBlock ==
    ASSUME NEW L \in Seq(ArrayDims), Dense(L), NEW ix \in Box(Extensions(L)),
           NEW f, Walk(L, ix, f)
    PROVE  \A k \in 1 .. Len(L) : f[k] \in 0 .. L[1].nelems - L[k].stride
<1>1. Len(L) \in Nat /\ ix \in Seq(Int) /\ Len(ix) = Len(L)  BY BoxOfLayout
<1>2. f[0] = 0 /\ \A k \in 1 .. Len(L) : f[k] = f[k - 1] + Shift(L[k], ix[k])
    BY <1>1 DEF Walk
<1>3. ASSUME NEW k \in 1 .. Len(L)
      PROVE  /\ L[k].stride \in Nat \ {0} /\ L[k].nelems \in Nat
             /\ Shift(L[k], ix[k]) \in 0 .. L[k].nelems - L[k].stride
    <2>1. L[k] \in WholeDims /\ Size(L[k]) > 0  BY DEF Dense
    <2>2. ix[k] \in Indices(Extension(L[k]))  BY BoxOfLayout
    <2>3. L[k].nelems \in Nat /\ L[k].stride \in Nat \ {0}  BY <2>1, WholeDimFacts DEF WholeDims, Dims
    <2> QED BY <2>1, <2>2, <2>3, ShiftInDim
<1> SUFFICES ASSUME Len(L) > 0 PROVE \A k \in 1 .. Len(L) : f[k] \in 0 .. L[1].nelems - L[k].stride
    BY <1>1
<1> DEFINE S == {k \in 0 .. Len(L) - 1 : f[k + 1] \in 0 .. L[1].nelems - L[k + 1].stride}
<1>4. 0 \in S
    <2>1. 1 \in 1 .. Len(L) /\ 1 - 1 = 0  BY <1>1
    <2>2. f[1] = f[0] + Shift(L[1], ix[1])  BY <1>2, <2>1
    <2>3. Shift(L[1], ix[1]) \in 0 .. L[1].nelems - L[1].stride  BY <1>3, <2>1
    <2>4. f[1] = Shift(L[1], ix[1])  BY <1>2, <2>2, <2>3
    <2> QED BY <1>1, <2>1, <2>3, <2>4
<1>5. ASSUME NEW k \in 0 .. (Len(L) - 1) - 1, k \in S PROVE k + 1 \in S
    <2> DEFINE i == k + 1
               j == i + 1
    <2>1. /\ i \in 1 .. Len(L) - 1 /\ i \in 1 .. Len(L) /\ j \in 1 .. Len(L) /\ j - 1 = i
          /\ i \in 0 .. Len(L) - 1 /\ 1 \in 1 .. Len(L)
        BY <1>1
    <2>2. f[i] \in 0 .. L[1].nelems - L[i].stride  BY <1>5
    <2>3. L[i].stride = L[j].nelems  BY <2>1 DEF Dense
    <2>4. f[j] = f[i] + Shift(L[j], ix[j])  BY <1>2, <2>1
    <2>5. Shift(L[j], ix[j]) \in 0 .. L[j].nelems - L[j].stride  BY <1>3, <2>1
    <2>6. L[1].nelems \in Nat /\ L[j].nelems \in Nat /\ L[j].stride \in Nat  BY <1>3, <2>1
    <2> HIDE DEF j
    <2>7. f[j] \in 0 .. L[1].nelems - L[j].stride  BY SMTT(30), <2>2, <2>3, <2>4, <2>5, <2>6
    <2> QED BY <2>1, <2>7 DEF j
<1> HIDE DEF S
<1>6. \A k \in 0 .. Len(L) - 1 : k \in S
    <2>1. Len(L) - 1 \in Nat  BY <1>1
    <2> QED BY <1>4, <1>5, <2>1, InductionTo
<1>7. ASSUME NEW k \in 1 .. Len(L) PROVE f[k] \in 0 .. L[1].nelems - L[k].stride
    <2>1. k - 1 \in 0 .. Len(L) - 1 /\ (k - 1) + 1 = k  BY <1>1
    <2>2. k - 1 \in S  BY <1>6, <2>1
    <2> QED BY <2>1, <2>2 DEF S
<1> QED BY <1>7

(* Every tuple of indices of an array names one of its num_elements() elements. *)
THEOREM DenseInBlock ==
    ASSUME NEW L \in ArrayLayouts, NEW ix \in Box(Extensions(L))
    PROVE  Position(L, ix) \in 0 .. NumElements(L) - 1
<1>1. L \in Seq(ArrayDims) /\ L \in Seq(Dims)  BY DEF ArrayLayouts, ArrayDims
<1>2. /\ ix \in Seq(Int) /\ Len(ix) = Len(L) /\ NumElements(L) # 0 /\ Len(L) \in Nat
      /\ Len(ix) <= Len(L)
    BY <1>1, BoxOfLayout
<1>3. Dense(L)  BY <1>2 DEF ArrayLayouts
<1>4. PICK f : Walk(L, ix, f) /\ Position(L, ix) = f[Len(ix)]  BY <1>1, <1>2, PositionWalk
<1>5. CASE L = <<>>
    <2>1. NumElements(L) = 1  BY <1>1, <1>3, <1>5, DenseNumElements
    <2>2. Len(ix) = 0 /\ f[0] = 0  BY <1>2, <1>4, <1>5 DEF Walk
    <2> QED BY <1>4, <2>1, <2>2
<1>6. CASE L # <<>>
    <2>1. Len(L) > 0 /\ Len(L) \in 1 .. Len(L)  BY <1>1, <1>6
    <2>2. f[Len(L)] \in 0 .. L[1].nelems - L[Len(L)].stride  BY <1>1, <1>3, <1>4, <2>1, WalkInBlock
    <2>3. L[Len(L)].stride = 1  BY <1>3, <2>1 DEF Dense
    <2>4. NumElements(L) = L[1].nelems  BY <1>1, <1>3, <1>6, DenseNumElements
    <2> QED BY <1>2, <1>4, <2>2, <2>3, <2>4
<1> QED BY <1>5, <1>6

(* A digit below the base and a number above it: the sum tells the two apart. *)
LEMMA MixedRadix ==
    ASSUME NEW f \in Nat \ {0}, NEW a \in Int, NEW b \in Int,
           NEW p \in 0 .. f - 1, NEW q \in 0 .. f - 1, a * f + p = b * f + q
    PROVE  a = b /\ p = q
<1>1. a * f \in Int /\ b * f \in Int /\ (a - b) * f = a * f - b * f  OBVIOUS
<1>2. (a - b) * f = q - p  BY <1>1
<1>3. ~ (a - b >= 1)
    <2> SUFFICES ASSUME a - b >= 1 PROVE FALSE
        OBVIOUS
    <2>1. (a - b) * f >= f
        <3>1. (a - b) * f = ((a - b) - 1) * f + f /\ ((a - b) - 1) * f >= 0  OBVIOUS
        <3>2. ((a - b) - 1) * f \in Int  OBVIOUS
        <3> QED BY <3>1, <3>2
    <2> QED BY <1>2, <2>1
<1>4. ~ (b - a >= 1)
    <2> SUFFICES ASSUME b - a >= 1 PROVE FALSE
        OBVIOUS
    <2>1. (b - a) * f >= f
        <3>1. (b - a) * f = ((b - a) - 1) * f + f /\ ((b - a) - 1) * f >= 0  OBVIOUS
        <3>2. ((b - a) - 1) * f \in Int  OBVIOUS
        <3> QED BY <3>1, <3>2
    <2>2. (b - a) * f = b * f - a * f  OBVIOUS
    <2> QED BY <1>1, <1>2, <2>1, <2>2
<1>5. a = b  BY <1>3, <1>4
<1> QED BY <1>1, <1>5

(* The digit and the number below m are a number below m times the base. *)
LEMMA MixedRadixBound ==
    ASSUME NEW f \in Nat \ {0}, NEW m \in Nat, NEW a \in 0 .. m - 1, NEW p \in 0 .. f - 1
    PROVE  a * f + p \in 0 .. m * f - 1
<1>1. a * f \in Nat  OBVIOUS
<1>2. (m - 1 - a) * f \in Nat  OBVIOUS
<1>3. (m - 1 - a) * f = m * f - f - a * f  OBVIOUS
<1>4. m * f \in Nat  OBVIOUS
<1> QED BY <1>1, <1>2, <1>3, <1>4

(* One sequence behind another. *)
LEMMA JoinFacts ==
    ASSUME NEW D, NEW s \in Seq(D), NEW t \in Seq(D)
    PROVE  /\ s \o t \in Seq(D) /\ Len(s \o t) = Len(s) + Len(t)
           /\ Len(s) \in Nat /\ Len(t) \in Nat
           /\ \A k \in 1 .. Len(s) : (s \o t)[k] = s[k]
           /\ \A k \in 1 .. Len(t) : (s \o t)[Len(s) + k] = t[k]
OBVIOUS

(* Two sequences cut at the same place are equal part by part. *)
Alike(p, s, q, t) == p \o s = q \o t

LEMMA SameParts ==
    ASSUME NEW D, NEW p \in Seq(D), NEW q \in Seq(D), Len(p) = Len(q),
           NEW s \in Seq(D), NEW t \in Seq(D), Len(s) = Len(t), Alike(p, s, q, t)
    PROVE  p = q /\ s = t
<1>1. /\ \A k \in 1 .. Len(p) : (p \o s)[k] = p[k]
      /\ \A k \in 1 .. Len(s) : (p \o s)[Len(p) + k] = s[k]
    BY ONLY p \in Seq(D), s \in Seq(D), JoinFacts
<1>2. /\ \A k \in 1 .. Len(q) : (q \o t)[k] = q[k]
      /\ \A k \in 1 .. Len(t) : (q \o t)[Len(q) + k] = t[k]
    BY ONLY q \in Seq(D), t \in Seq(D), JoinFacts
<1>3. \A k \in 1 .. Len(p) : p[k] = q[k]  BY <1>1, <1>2 DEF Alike
<1>4. \A k \in 1 .. Len(s) : s[k] = t[k]  BY <1>1, <1>2 DEF Alike
<1>5. p = q  BY ONLY <1>3, p \in Seq(D), q \in Seq(D), Len(p) = Len(q)
<1>6. s = t  BY ONLY <1>4, s \in Seq(D), t \in Seq(D), Len(s) = Len(t)
<1> QED BY <1>5, <1>6

(* What a name of a layout is: an index for every dimension, each in its extension. *)
IsName(L, ix) == /\ ix \in Seq(Int) /\ Len(ix) = Len(L)
                 /\ \A k \in 1 .. Len(L) : ix[k] \in Indices(Extension(L[k]))

Names(L) == Box(Extensions(L))

LEMMA NamesAre ==
    ASSUME NEW L \in Seq(ArrayDims), NEW ix
    PROVE  ix \in Names(L) <=> IsName(L, ix)
<1>1. /\ Extensions(L) \in Seq(Intervals) /\ Len(Extensions(L)) = Len(L)
      /\ \A k \in 1 .. Len(L) : Extensions(L)[k] = Extension(L[k])
    BY ExtensionsFacts
<1>2. Names(L) = TuplesTo(Extensions(L), Len(L))  BY <1>1, BoxTuples DEF Names
<1> QED BY <1>1, <1>2 DEF TuplesTo, IsName

(* Names of a layout and names of what follows it make names of the two together, ... *)
LEMMA NamesJoin ==
    ASSUME NEW L \in Seq(ArrayDims), NEW M \in Seq(ArrayDims),
           NEW ix \in Names(L), NEW jx \in Names(M)
    PROVE  ix \o jx \in Names(L \o M)
<1>1. /\ ix \in Seq(Int) /\ Len(ix) = Len(L)
      /\ \A k \in 1 .. Len(L) : ix[k] \in Indices(Extension(L[k]))
    BY NamesAre DEF IsName
<1>2. /\ jx \in Seq(Int) /\ Len(jx) = Len(M)
      /\ \A k \in 1 .. Len(M) : jx[k] \in Indices(Extension(M[k]))
    BY NamesAre DEF IsName
<1>3. /\ L \o M \in Seq(ArrayDims) /\ Len(L \o M) = Len(L) + Len(M)
      /\ Len(L) \in Nat /\ Len(M) \in Nat
    OBVIOUS
<1>6. /\ ix \o jx \in Seq(Int) /\ Len(ix \o jx) = Len(L) + Len(M)
      /\ \A k \in 1 .. Len(L) : (ix \o jx)[k] = ix[k]
      /\ \A k \in 1 .. Len(M) : (ix \o jx)[Len(L) + k] = jx[k]
    <2>1. ix \in Seq(Int) /\ jx \in Seq(Int)  BY <1>1, <1>2
    <2>2. /\ ix \o jx \in Seq(Int) /\ Len(ix \o jx) = Len(ix) + Len(jx)
          /\ \A k \in 1 .. Len(ix) : (ix \o jx)[k] = ix[k]
          /\ \A k \in 1 .. Len(jx) : (ix \o jx)[Len(ix) + k] = jx[k]
        BY ONLY <2>1, JoinFacts
    <2> QED BY <1>1, <1>2, <2>2
<1>4. ASSUME NEW k \in 1 .. Len(L \o M)
      PROVE  (ix \o jx)[k] \in Indices(Extension((L \o M)[k]))
    <2>1. CASE k \in 1 .. Len(L)
        <3>1. (ix \o jx)[k] = ix[k] /\ (L \o M)[k] = L[k]  BY <1>6, <2>1
        <3> QED BY <1>1, <2>1, <3>1
    <2>2. CASE k \notin 1 .. Len(L)
        <3>1. k - Len(L) \in 1 .. Len(M) /\ Len(L) + (k - Len(L)) = k  BY <1>3, <2>2
        <3>2. (ix \o jx)[k] = jx[k - Len(L)]  BY <1>6, <3>1
        <3>3. (L \o M)[k] = M[k - Len(L)]  BY <1>3, <2>2
        <3> QED BY <1>2, <3>1, <3>2, <3>3
    <2> QED BY <2>1, <2>2
<1>5. IsName(L \o M, ix \o jx)  BY <1>3, <1>4, <1>6 DEF IsName
<1> QED BY <1>3, <1>5, NamesAre

(* ... and every name of the two together is made of those. *)
LEMMA NamesSplit ==
    ASSUME NEW L \in Seq(ArrayDims), NEW M \in Seq(ArrayDims), NEW ix \in Names(L \o M)
    PROVE  /\ SubSeq(ix, 1, Len(L)) \in Names(L)
           /\ SubSeq(ix, Len(L) + 1, Len(ix)) \in Names(M)
           /\ ix = SubSeq(ix, 1, Len(L)) \o SubSeq(ix, Len(L) + 1, Len(ix))
<1> DEFINE jx == SubSeq(ix, 1, Len(L))
           kx == SubSeq(ix, Len(L) + 1, Len(ix))
<1>1. /\ L \o M \in Seq(ArrayDims) /\ Len(L \o M) = Len(L) + Len(M)
      /\ Len(L) \in Nat /\ Len(M) \in Nat
    OBVIOUS
<1>2. /\ ix \in Seq(Int) /\ Len(ix) = Len(L) + Len(M)
      /\ \A k \in 1 .. Len(L) + Len(M) : ix[k] \in Indices(Extension((L \o M)[k]))
    BY <1>1, NamesAre DEF IsName
<1>3. jx \in Seq(Int) /\ Len(jx) = Len(L) /\ \A k \in 1 .. Len(L) : jx[k] = ix[k]
    BY <1>1, <1>2
<1>4. kx \in Seq(Int) /\ Len(kx) = Len(M) /\ \A k \in 1 .. Len(M) : kx[k] = ix[Len(L) + k]
    BY <1>1, <1>2
<1> HIDE DEF jx, kx
<1>5. \A k \in 1 .. Len(L) : jx[k] \in Indices(Extension(L[k]))
    <2> SUFFICES ASSUME NEW k \in 1 .. Len(L) PROVE jx[k] \in Indices(Extension(L[k]))
        OBVIOUS
    <2>1. k \in 1 .. Len(L) + Len(M) /\ (L \o M)[k] = L[k]  BY <1>1
    <2> QED BY <1>2, <1>3, <2>1
<1>6. \A k \in 1 .. Len(M) : kx[k] \in Indices(Extension(M[k]))
    <2> SUFFICES ASSUME NEW k \in 1 .. Len(M) PROVE kx[k] \in Indices(Extension(M[k]))
        OBVIOUS
    <2>1. Len(L) + k \in 1 .. Len(L) + Len(M) /\ (L \o M)[Len(L) + k] = M[k]  BY <1>1
    <2> QED BY <1>2, <1>4, <2>1
<1>7. jx \in Names(L)  BY <1>3, <1>5, NamesAre DEF IsName
<1>8. kx \in Names(M)  BY <1>4, <1>6, NamesAre DEF IsName
<1>9. ix = jx \o kx
    <2>1. /\ jx \o kx \in Seq(Int) /\ Len(jx \o kx) = Len(ix)
          /\ \A k \in 1 .. Len(L) : (jx \o kx)[k] = jx[k]
          /\ \A k \in 1 .. Len(M) : (jx \o kx)[Len(L) + k] = kx[k]
        <3>1. /\ jx \o kx \in Seq(Int) /\ Len(jx \o kx) = Len(jx) + Len(kx)
              /\ \A k \in 1 .. Len(jx) : (jx \o kx)[k] = jx[k]
              /\ \A k \in 1 .. Len(kx) : (jx \o kx)[Len(jx) + k] = kx[k]
            <4>1. jx \in Seq(Int) /\ kx \in Seq(Int)  BY <1>3, <1>4
            <4> QED BY ONLY <4>1, JoinFacts
        <3> QED BY <1>2, <1>3, <1>4, <3>1
    <2>2. ASSUME NEW k \in 1 .. Len(ix) PROVE (jx \o kx)[k] = ix[k]
        <3>1. CASE k \in 1 .. Len(L)  BY <1>3, <2>1, <3>1
        <3>2. CASE k \notin 1 .. Len(L)
            <4>1. k - Len(L) \in 1 .. Len(M) /\ Len(L) + (k - Len(L)) = k  BY <1>1, <1>2, <3>2
            <4>2. (jx \o kx)[k] = kx[k - Len(L)]  BY <2>1, <4>1
            <4> QED BY <1>4, <4>1, <4>2
        <3> QED BY <3>1, <3>2
    <2>3. DOMAIN (jx \o kx) = DOMAIN ix  BY <1>2, <2>1
    <2> DEFINE both == jx \o kx
    <2>4. both \in Seq(Int) /\ Len(both) = Len(ix) /\ \A k \in 1 .. Len(ix) : both[k] = ix[k]
        BY <2>1, <2>2
    <2> HIDE DEF both
    <2>5. both = ix  BY <1>2, <2>4
    <2> QED BY <2>5 DEF both
<1> QED BY <1>7, <1>8, <1>9 DEF jx, kx

(* Positions of the parts of a name add up. *)
LEMMA PositionJoin ==
    ASSUME NEW M \in Seq(Dims), NEW jx \in Seq(Int), Len(jx) = Len(M)
    PROVE  \A n \in Nat : \A L \in Seq(Dims) : \A ix \in Seq(Int) :
               Len(L) = n /\ Len(ix) = n => Position(L \o M, ix \o jx) = Position(L, ix) + Position(M, jx)
<1> DEFINE Sum(L, ix) == Position(L \o M, ix \o jx) = Position(L, ix) + Position(M, jx)
           S == {n \in Nat : \A L \in Seq(Dims) : \A ix \in Seq(Int) :
                                 Len(L) = n /\ Len(ix) = n => Sum(L, ix)}
<1>1. 0 \in S
    <2>1. ASSUME NEW L \in Seq(Dims), NEW ix \in Seq(Int), Len(L) = 0, Len(ix) = 0 PROVE Sum(L, ix)
        <3>1. L = <<>> /\ ix = <<>> /\ L \o M = M /\ ix \o jx = jx  BY <2>1
        <3>2. Position(L, ix) = 0
            <4>1. Len(ix) <= Len(L)  BY <2>1
            <4>2. PICK f : Walk(L, ix, f) /\ Position(L, ix) = f[Len(ix)]  BY <4>1, PositionWalk
            <4> QED BY <2>1, <4>2 DEF Walk
        <3>3. Position(M, jx) \in Int  BY PositionInt
        <3> QED BY <3>1, <3>2, <3>3
    <2> QED BY <2>1
<1>2. ASSUME NEW n \in Nat, n \in S PROVE n + 1 \in S
    <2>1. ASSUME NEW L \in Seq(Dims), NEW ix \in Seq(Int), Len(L) = n + 1, Len(ix) = n + 1
          PROVE  Sum(L, ix)
        <3> DEFINE T == Tail(L)
                   tx == Tail(ix)
        <3>1. /\ T \in Seq(Dims) /\ Len(T) = n /\ tx \in Seq(Int) /\ Len(tx) = n
              /\ \A k \in 1 .. n : L[k + 1] = T[k] /\ ix[k + 1] = tx[k]
            BY <2>1
        <3> HIDE DEF T, tx
        <3>2. Sum(T, tx)  BY <1>2, <3>1
        <3>3. Position(L, ix) = Shift(L[1], ix[1]) + Position(T, tx)
            <4>1. \A k \in 1 .. Len(T) : L[k + 1] = T[k] /\ ix[k + 1] = tx[k]  BY <3>1
            <4>2. Len(ix) = Len(L) /\ Len(tx) = Len(T) /\ Len(L) = Len(T) + 1  BY <2>1, <3>1
            <4> QED BY <3>1, <4>1, <4>2, PositionFirst
        <3>4. Position(L \o M, ix \o jx) = Shift(L[1], ix[1]) + Position(T \o M, tx \o jx)
            <4> DEFINE A == L \o M
                       B == T \o M
                       ax == ix \o jx
                       bx == tx \o jx
            <4>7. /\ A \in Seq(Dims) /\ Len(A) = Len(L) + Len(M) /\ Len(M) \in Nat
                  /\ \A k \in 1 .. Len(L) : A[k] = L[k]
                  /\ \A k \in 1 .. Len(M) : A[Len(L) + k] = M[k]
                BY JoinFacts
            <4>8. /\ B \in Seq(Dims) /\ Len(B) = Len(T) + Len(M)
                  /\ \A k \in 1 .. Len(T) : B[k] = T[k]
                  /\ \A k \in 1 .. Len(M) : B[Len(T) + k] = M[k]
                <5>1. T \in Seq(Dims) /\ M \in Seq(Dims)  BY <3>1
                <5> QED BY ONLY <5>1, JoinFacts
            <4>9. /\ ax \in Seq(Int) /\ Len(ax) = Len(ix) + Len(jx)
                  /\ \A k \in 1 .. Len(ix) : ax[k] = ix[k]
                  /\ \A k \in 1 .. Len(jx) : ax[Len(ix) + k] = jx[k]
                <5>1. ix \in Seq(Int) /\ jx \in Seq(Int)  OBVIOUS
                <5> QED BY ONLY <5>1, JoinFacts
            <4>10. /\ bx \in Seq(Int) /\ Len(bx) = Len(tx) + Len(jx)
                   /\ \A k \in 1 .. Len(tx) : bx[k] = tx[k]
                   /\ \A k \in 1 .. Len(jx) : bx[Len(tx) + k] = jx[k]
                <5>1. tx \in Seq(Int) /\ jx \in Seq(Int)  BY <3>1
                <5> QED BY ONLY <5>1, JoinFacts
            <4> HIDE DEF A, B, ax, bx
            <4>1. /\ A \in Seq(Dims) /\ Len(A) = n + 1 + Len(M) /\ B \in Seq(Dims) /\ Len(B) = n + Len(M)
                  /\ ax \in Seq(Int) /\ Len(ax) = n + 1 + Len(M)
                  /\ bx \in Seq(Int) /\ Len(bx) = n + Len(M)
                  /\ A[1] = L[1] /\ ax[1] = ix[1] /\ Len(M) \in Nat
                <5>1. 1 \in 1 .. Len(L) /\ 1 \in 1 .. Len(ix)  BY <2>1
                <5> QED BY <2>1, <3>1, <4>7, <4>8, <4>9, <4>10, <5>1
            <4>2. \A k \in 1 .. Len(B) : A[k + 1] = B[k]
                <5> SUFFICES ASSUME NEW k \in 1 .. Len(B) PROVE A[k + 1] = B[k]
                    OBVIOUS
                <5>1. CASE k <= n
                    <6>1. k \in 1 .. n  BY <4>1, <5>1
                    <6>2. k + 1 \in 1 .. Len(L) /\ k \in 1 .. Len(T)  BY <2>1, <3>1, <6>1
                    <6>3. A[k + 1] = L[k + 1] /\ B[k] = T[k]  BY <4>7, <4>8, <4>9, <4>10, <6>2
                    <6> QED BY <3>1, <6>1, <6>3
                <5>2. CASE ~ (k <= n)
                    <6>1. k - n \in 1 .. Len(M) /\ k - n \in 1 .. Len(jx)  BY <4>1, <5>2
                    <6>2. Len(L) + (k - n) = k + 1 /\ Len(T) + (k - n) = k  BY <2>1, <3>1, <4>1
                    <6>3. A[Len(L) + (k - n)] = M[k - n] /\ B[Len(T) + (k - n)] = M[k - n]
                        BY <4>7, <4>8, <6>1
                    <6> QED BY <6>2, <6>3
                <5> QED BY <5>1, <5>2
            <4>3. \A k \in 1 .. Len(B) : ax[k + 1] = bx[k]
                <5> SUFFICES ASSUME NEW k \in 1 .. Len(B) PROVE ax[k + 1] = bx[k]
                    OBVIOUS
                <5>1. CASE k <= n
                    <6>1. k \in 1 .. n  BY <4>1, <5>1
                    <6>2. k + 1 \in 1 .. Len(ix) /\ k \in 1 .. Len(tx)  BY <2>1, <3>1, <6>1
                    <6>3. ax[k + 1] = ix[k + 1] /\ bx[k] = tx[k]  BY <4>7, <4>8, <4>9, <4>10, <6>2
                    <6> QED BY <3>1, <6>1, <6>3
                <5>2. CASE ~ (k <= n)
                    <6>1. k - n \in 1 .. Len(M) /\ k - n \in 1 .. Len(jx)  BY <4>1, <5>2
                    <6>2. Len(ix) + (k - n) = k + 1 /\ Len(tx) + (k - n) = k  BY <2>1, <3>1, <4>1
                    <6>3. ax[Len(ix) + (k - n)] = jx[k - n] /\ bx[Len(tx) + (k - n)] = jx[k - n]
                        BY <4>9, <4>10, <6>1
                    <6> QED BY <6>2, <6>3
                <5> QED BY <5>1, <5>2
            <4>4. \A k \in 1 .. Len(B) : A[k + 1] = B[k] /\ ax[k + 1] = bx[k]  BY <4>2, <4>3
            <4>5. Len(ax) = Len(A) /\ Len(bx) = Len(B) /\ Len(A) = Len(B) + 1  BY <4>1
            <4>6. Position(A, ax) = Shift(A[1], ax[1]) + Position(B, bx)
                BY <4>1, <4>4, <4>5, PositionFirst, ZenonT(30)
            <4> QED BY <4>1, <4>6 DEF A, B, ax, bx
        <3>5. /\ Shift(L[1], ix[1]) \in Int /\ Position(T, tx) \in Int /\ Position(M, jx) \in Int
            <4>1. L[1] \in Dims /\ ix[1] \in Int  BY <2>1
            <4>2. Len(tx) <= Len(T) /\ Len(jx) <= Len(M)  BY <3>1
            <4> QED BY <3>1, <4>1, <4>2, ShiftInt, PositionInt
        <3> QED BY <3>2, <3>3, <3>4, <3>5
    <2> HIDE DEF Sum
    <2> QED BY <2>1
<1> HIDE DEF S
<1>3. \A n \in Nat : n \in S  BY <1>1, <1>2, Induction
<1> QED BY <1>3 DEF S

(* What follows the leading dimension of a dense layout is dense, and as large as its stride. *)
LEMMA DenseTail ==
    ASSUME NEW L \in Seq(ArrayDims), Dense(L), Len(L) > 0,
           NEW T \in Seq(ArrayDims), Len(L) = Len(T) + 1, \A k \in 1 .. Len(T) : L[k + 1] = T[k]
    PROVE  Dense(T) /\ NumElements(T) = L[1].stride
<1>1. Len(T) \in Nat  OBVIOUS
<1>2. /\ \A k \in 1 .. Len(L) : L[k] \in WholeDims /\ Size(L[k]) > 0
      /\ \A k \in 1 .. Len(L) - 1 : L[k].stride = L[k + 1].nelems
      /\ L[Len(L)].stride = 1
    BY DEF Dense
<1>3. Dense(T)
    <2>1. \A k \in 1 .. Len(T) : k + 1 \in 1 .. Len(L)  BY <1>1
    <2>2. \A k \in 1 .. Len(T) : T[k] \in WholeDims /\ Size(T[k]) > 0  BY <1>2, <2>1
    <2>3. ASSUME NEW k \in 1 .. Len(T) - 1 PROVE T[k].stride = T[k + 1].nelems
        <3>1. /\ k \in 1 .. Len(T) /\ k + 1 \in 1 .. Len(T) /\ k + 1 \in 1 .. Len(L) - 1
            BY <1>1
        <3>2. T[k] = L[k + 1] /\ T[k + 1] = L[(k + 1) + 1]  BY <3>1
        <3> QED BY <1>2, <3>1, <3>2
    <2>4. Len(T) > 0 => T[Len(T)].stride = 1
        <3>1. Len(T) > 0 => Len(T) \in 1 .. Len(T)  BY <1>1
        <3> QED BY <1>2, <3>1
    <2> QED BY <2>2, <2>3, <2>4 DEF Dense
<1>4. CASE T = <<>>
    <2>1. Len(T) = 0 /\ Len(L) = 1  BY <1>4
    <2>2. NumElements(T) = 1  BY <1>3, <1>4, DenseNumElements
    <2> QED BY <1>2, <1>3, <2>1, <2>2
<1>5. CASE T # <<>>
    <2>1. 1 \in 1 .. Len(T) /\ 1 \in 1 .. Len(L) - 1 /\ 1 + 1 = 2  BY <1>1, <1>5
    <2>2. NumElements(T) = T[1].nelems  BY <1>3, <1>5, DenseNumElements
    <2>3. T[1] = L[2] /\ L[1].stride = L[2].nelems  BY <1>2, <2>1
    <2> QED BY <1>3, <2>2, <2>3
<1> QED BY <1>4, <1>5

(* The tail of a name, a name of the tail. *)
LEMMA NameTail ==
    ASSUME NEW L \in Seq(ArrayDims), Len(L) > 0, NEW ix \in Names(L)
    PROVE  /\ Tail(L) \in Seq(ArrayDims) /\ Len(L) = Len(Tail(L)) + 1
           /\ \A k \in 1 .. Len(Tail(L)) : L[k + 1] = Tail(L)[k]
           /\ ix[1] \in Indices(Extension(L[1]))
           /\ Tail(ix) \in Names(Tail(L))
           /\ ix = <<ix[1]>> \o Tail(ix)
           /\ Position(L, ix) = Shift(L[1], ix[1]) + Position(Tail(L), Tail(ix))
<1> DEFINE T == Tail(L)
           tx == Tail(ix)
<1>1. /\ ix \in Seq(Int) /\ Len(ix) = Len(L)
      /\ \A k \in 1 .. Len(L) : ix[k] \in Indices(Extension(L[k]))
    BY NamesAre DEF IsName
<1>2. /\ T \in Seq(ArrayDims) /\ Len(L) = Len(T) + 1 /\ Len(T) \in Nat
      /\ \A k \in 1 .. Len(T) : L[k + 1] = T[k]
    OBVIOUS
<1>3. /\ tx \in Seq(Int) /\ Len(tx) = Len(T)
      /\ \A k \in 1 .. Len(T) : ix[k + 1] = tx[k]
    BY <1>1, <1>2
<1>4. ix = <<ix[1]>> \o tx  BY <1>1
<1> HIDE DEF T, tx
<1>5. \A k \in 1 .. Len(T) : tx[k] \in Indices(Extension(T[k]))
    <2>1. \A k \in 1 .. Len(T) : k + 1 \in 1 .. Len(L)  BY <1>2
    <2> QED BY <1>1, <1>2, <1>3, <2>1
<1>6. tx \in Names(T)  BY <1>2, <1>3, <1>5, NamesAre DEF IsName
<1>7. 1 \in 1 .. Len(L)  BY <1>2
<1>8. Position(L, ix) = Shift(L[1], ix[1]) + Position(T, tx)
    <2>1. L \in Seq(Dims) /\ T \in Seq(Dims)  BY <1>2 DEF ArrayDims
    <2>2. \A k \in 1 .. Len(T) : L[k + 1] = T[k] /\ ix[k + 1] = tx[k]  BY <1>2, <1>3
    <2> QED BY <1>1, <1>2, <1>3, <2>1, <2>2, PositionFirst
<1> QED BY <1>1, <1>2, <1>4, <1>6, <1>7, <1>8 DEF T, tx

(* The name of no dimension. *)
LEMMA NoNames == Names(<<>>) = {<<>>} /\ Position(<<>>, <<>>) = 0
<1>1. <<>> \in Seq(ArrayDims) /\ <<>> \in Seq(Dims) /\ <<>> \in Seq(Int) /\ Len(<<>>) = 0  OBVIOUS
<1>2. \A ix : ix \in Names(<<>>) <=> IsName(<<>>, ix)  BY <1>1, NamesAre
<1>3. \A ix : IsName(<<>>, ix) <=> ix = <<>>
    <2>1. \A ix \in Seq(Int) : Len(ix) = 0 <=> ix = <<>>  OBVIOUS
    <2>2. 1 .. 0 = {}  OBVIOUS
    <2> QED BY <1>1, <2>1, <2>2 DEF IsName
<1>4. Len(<<>>) <= Len(<<>>)  BY <1>1
<1>5. PICK f : Walk(<<>>, <<>>, f) /\ Position(<<>>, <<>>) = f[Len(<<>>)]
    BY <1>1, <1>4, PositionWalk
<1>6. Position(<<>>, <<>>) = 0  BY <1>1, <1>5 DEF Walk
<1> QED BY <1>2, <1>3, <1>6

(* No two tuples of indices of an array name the same element. *)
THEOREM DenseApart ==
    ASSUME NEW L \in ArrayLayouts, NEW ix \in Box(Extensions(L)), NEW jx \in Box(Extensions(L)),
           Position(L, ix) = Position(L, jx)
    PROVE  ix = jx
<1> DEFINE Apart(M) == \A i, j \in Names(M) : Position(M, i) = Position(M, j) => i = j
           S == {n \in Nat : \A M \in Seq(ArrayDims) : Len(M) = n /\ Dense(M) => Apart(M)}
<1>1. 0 \in S
    <2>1. ASSUME NEW M \in Seq(ArrayDims), Len(M) = 0, NEW i \in Names(M), NEW j \in Names(M)
          PROVE  i = j
        <3>1. i \in Seq(Int) /\ Len(i) = 0 /\ j \in Seq(Int) /\ Len(j) = 0
            BY <2>1, NamesAre DEF IsName
        <3> QED BY <3>1
    <2> QED BY <2>1
<1>2. ASSUME NEW n \in Nat, n \in S PROVE n + 1 \in S
    <2>1. ASSUME NEW M \in Seq(ArrayDims), Len(M) = n + 1, Dense(M),
                 NEW i \in Names(M), NEW j \in Names(M), Position(M, i) = Position(M, j)
          PROVE  i = j
        <3> DEFINE T == Tail(M)
                   p == Position(T, Tail(i))
                   q == Position(T, Tail(j))
                   d == M[1]
                   first == Extension(d)[1]
        <3>1. Len(M) > 0  BY <2>1
        <3>2. /\ T \in Seq(ArrayDims) /\ Len(M) = Len(T) + 1
              /\ \A k \in 1 .. Len(T) : M[k + 1] = T[k]
              /\ i[1] \in Indices(Extension(d)) /\ Tail(i) \in Names(T) /\ i = <<i[1]>> \o Tail(i)
              /\ Position(M, i) = Shift(d, i[1]) + p
            BY <3>1, NameTail
        <3>3. /\ j[1] \in Indices(Extension(d)) /\ Tail(j) \in Names(T) /\ j = <<j[1]>> \o Tail(j)
              /\ Position(M, j) = Shift(d, j[1]) + q
            BY <3>1, NameTail
        <3>4. Dense(T) /\ NumElements(T) = d.stride
            <4> HIDE DEF T
            <4> QED BY <2>1, <3>1, <3>2, DenseTail
        <3>5. p \in 0 .. d.stride - 1 /\ q \in 0 .. d.stride - 1
            <4>1. T \in ArrayLayouts  BY <3>2, <3>4 DEF ArrayLayouts
            <4> HIDE DEF T
            <4> QED BY <3>2, <3>3, <3>4, <4>1, DenseInBlock DEF Names
        <3>6. d \in WholeDims /\ Size(d) > 0 /\ d.stride \in Nat \ {0}
            <4>1. d \in WholeDims /\ Size(d) > 0  BY <2>1, <3>1 DEF Dense
            <4> HIDE DEF d
            <4> QED BY <4>1, WholeDimFacts
        <3> HIDE DEF T, p, q, d
        <3>7. /\ Shift(d, i[1]) = (i[1] - first) * d.stride /\ i[1] \in Int
              /\ Shift(d, j[1]) = (j[1] - first) * d.stride /\ j[1] \in Int
              /\ first \in Int
            <4>1. Extension(d) \in Intervals
                BY <3>6, WholeDimFacts, ArrayDimFacts DEF ArrayDims
            <4> QED BY <3>2, <3>3, <3>6, <4>1, ShiftInDim DEF Intervals
        <3> HIDE DEF first
        <3>8. i[1] - first = j[1] - first /\ p = q
            <4> DEFINE a == i[1] - first
                       b == j[1] - first
            <4>1. a \in Int /\ b \in Int  BY <3>7
            <4>2. a * d.stride + p = b * d.stride + q  BY <2>1, <3>2, <3>3, <3>7
            <4> HIDE DEF a, b
            <4>3. a = b /\ p = q
                <5>1. d.stride \in Nat \ {0}  BY <3>6
                <5> QED BY ONLY <3>5, <4>1, <4>2, <5>1, MixedRadix
            <4> QED BY <4>3 DEF a, b
        <3>9. i[1] = j[1]  BY <3>7, <3>8
        <3>10. Tail(i) = Tail(j)
            <4>1. Len(T) = n  BY <2>1, <3>2
            <4>2. Apart(T)  BY <1>2, <3>2, <3>4, <4>1
            <4> QED BY <3>2, <3>3, <3>8, <4>2 DEF p, q
        <3> QED BY <3>2, <3>3, <3>9, <3>10
    <2> QED BY <2>1
<1> HIDE DEF S
<1>3. \A n \in Nat : n \in S  BY <1>1, <1>2, Induction
<1>4. L \in Seq(ArrayDims) /\ Len(L) \in Nat  BY DEF ArrayLayouts
<1>5. Dense(L)  BY <1>4, BoxOfLayout DEF ArrayLayouts
<1>6. Len(L) \in S  BY <1>3, <1>4
<1> QED BY <1>4, <1>5, <1>6 DEF S, Names

(* The order of tuples: the first index that differs decides. *)
Precedes(ix, jx) == \E k \in DOMAIN ix : /\ \A h \in 1 .. k - 1 : ix[h] = jx[h]
                                         /\ ix[k] < jx[k]

(* A tuple of indices and what is behind its first. *)
LeftBehind(tx, ix, n) ==
    /\ ix \in Seq(Int) /\ Len(ix) = n + 1
    /\ tx \in Seq(Int) /\ Len(tx) = n
    /\ \A k \in 1 .. n : ix[k + 1] = tx[k]

LEMMA PrecedesFirst ==
    ASSUME NEW n \in Nat, NEW ix, NEW jx, NEW tx, NEW ux, LeftBehind(tx, ix, n), LeftBehind(ux, jx, n)
    PROVE  Precedes(ix, jx) <=> ix[1] < jx[1] \/ (ix[1] = jx[1] /\ Precedes(tx, ux))
<1>0. /\ ix \in Seq(Int) /\ Len(ix) = n + 1 /\ jx \in Seq(Int) /\ Len(jx) = n + 1
      /\ tx \in Seq(Int) /\ Len(tx) = n /\ ux \in Seq(Int) /\ Len(ux) = n
      /\ \A k \in 1 .. n : ix[k + 1] = tx[k] /\ jx[k + 1] = ux[k]
    BY DEF LeftBehind
<1>1. DOMAIN ix = 1 .. n + 1 /\ DOMAIN tx = 1 .. n /\ 1 \in 1 .. n + 1  BY <1>0
<1>2. ASSUME NEW k \in 1 .. n + 1, \A h \in 1 .. k - 1 : ix[h] = jx[h], ix[k] < jx[k]
      PROVE  ix[1] < jx[1] \/ (ix[1] = jx[1] /\ Precedes(tx, ux))
    <2>1. CASE k = 1  BY <1>2, <2>1
    <2>2. CASE k # 1
        <3>1. k - 1 \in 1 .. n /\ (k - 1) + 1 = k /\ 1 \in 1 .. k - 1  BY <2>2
        <3>2. ix[1] = jx[1]  BY <1>2, <3>1
        <3>3. tx[k - 1] < ux[k - 1]
            <4>1. ix[(k - 1) + 1] = tx[k - 1] /\ jx[(k - 1) + 1] = ux[k - 1]  BY <1>0, <3>1
            <4> QED BY <1>2, <3>1, <4>1
        <3>4. ASSUME NEW h \in 1 .. (k - 1) - 1 PROVE tx[h] = ux[h]
            <4>1. h + 1 \in 1 .. k - 1 /\ h \in 1 .. n  OBVIOUS
            <4> QED BY <1>0, <1>2, <4>1
        <3> QED BY <1>1, <3>1, <3>2, <3>3, <3>4 DEF Precedes
    <2> QED BY <2>1, <2>2
<1>3. ASSUME ix[1] < jx[1] PROVE Precedes(ix, jx)
    <2>1. 1 .. 1 - 1 = {}  OBVIOUS
    <2> QED BY <1>1, <1>3, <2>1 DEF Precedes
<1>4. ASSUME ix[1] = jx[1], NEW k \in 1 .. n, \A h \in 1 .. k - 1 : tx[h] = ux[h], tx[k] < ux[k]
      PROVE  Precedes(ix, jx)
    <2>1. k + 1 \in 1 .. n + 1  OBVIOUS
    <2>2. ix[k + 1] < jx[k + 1]  BY <1>0, <1>4
    <2>3. ASSUME NEW h \in 1 .. (k + 1) - 1 PROVE ix[h] = jx[h]
        <3>1. CASE h = 1  BY <1>4, <3>1
        <3>2. CASE h # 1
            <4>1. h - 1 \in 1 .. k - 1 /\ h - 1 \in 1 .. n /\ (h - 1) + 1 = h  BY <3>2
            <4>2. ix[(h - 1) + 1] = tx[h - 1] /\ jx[(h - 1) + 1] = ux[h - 1]  BY <1>0, <4>1
            <4> QED BY <1>4, <4>1, <4>2
        <3> QED BY <3>1, <3>2
    <2> QED BY <1>1, <2>1, <2>2, <2>3 DEF Precedes
<1>5. Precedes(ix, jx) => \E k \in 1 .. n + 1 : (\A h \in 1 .. k - 1 : ix[h] = jx[h]) /\ ix[k] < jx[k]
    BY <1>1 DEF Precedes
<1>6. Precedes(tx, ux) => \E k \in 1 .. n : (\A h \in 1 .. k - 1 : tx[h] = ux[h]) /\ tx[k] < ux[k]
    BY <1>1 DEF Precedes
<1> QED BY <1>2, <1>3, <1>4, <1>5, <1>6

(* Numbers of two digits are ordered by the first, and where it is the same by the second. *)
LEMMA MixedRadixOrder ==
    ASSUME NEW f \in Nat \ {0}, NEW a \in Int, NEW b \in Int,
           NEW p \in 0 .. f - 1, NEW q \in 0 .. f - 1
    PROVE  a * f + p < b * f + q <=> a < b \/ (a = b /\ p < q)
<1>1. ASSUME NEW c \in Int, NEW d \in Int, c < d PROVE c * f + (f - 1) < d * f
    <2>1. (d - c - 1) * f >= 0  BY <1>1
    <2>2. (d - c - 1) * f = d * f - c * f - f /\ c * f \in Int /\ d * f \in Int  OBVIOUS
    <2> QED BY <2>1, <2>2
<1>2. a * f \in Int /\ b * f \in Int  OBVIOUS
<1>3. CASE a < b
    <2>1. a * f + (f - 1) < b * f  BY <1>1, <1>3
    <2> QED BY <1>2, <1>3, <2>1
<1>4. CASE b < a
    <2>1. b * f + (f - 1) < a * f  BY <1>1, <1>4
    <2> QED BY <1>2, <1>4, <2>1
<1>5. CASE a = b  BY <1>2, <1>5
<1> QED BY <1>3, <1>4, <1>5

(* A dense layout has an element at every position, and its tuples in order. *)
Rowwise(L) ==
    /\ \A p \in 0 .. NumElements(L) - 1 : \E ix \in Names(L) : Position(L, ix) = p
    /\ \A ix, jx \in Names(L) : Precedes(ix, jx) <=> Position(L, ix) < Position(L, jx)

LEMMA RowwiseNone == Rowwise(<<>>)
<1>1. Names(<<>>) = {<<>>} /\ Position(<<>>, <<>>) = 0  BY NoNames
<1>2. NumElements(<<>>) = 1
    <2>1. <<>> \in Seq(ArrayDims) /\ Len(<<>>) = 0  OBVIOUS
    <2>2. Dense(<<>>)  BY <2>1 DEF Dense
    <2> QED BY <2>1, <2>2, DenseNumElements
<1>3. ~ Precedes(<<>>, <<>>)  BY DEF Precedes
<1>4. \A p \in 0 .. NumElements(<<>>) - 1 : p = 0  BY <1>2
<1>5. \A p \in 0 .. NumElements(<<>>) - 1 : \E ix \in Names(<<>>) : Position(<<>>, ix) = p
    BY <1>1, <1>4
<1>6. \A ix, jx \in Names(<<>>) : ix = <<>> /\ jx = <<>>  BY <1>1
<1>7. ~ (Position(<<>>, <<>>) < Position(<<>>, <<>>))  BY <1>1
<1>8. \A ix, jx \in Names(<<>>) : Precedes(ix, jx) <=> Position(<<>>, ix) < Position(<<>>, jx)
    BY ONLY <1>3, <1>6, <1>7
<1> QED BY <1>5, <1>8 DEF Rowwise

LEMMA RowwiseMore ==
    ASSUME NEW L \in Seq(ArrayDims), Dense(L), Len(L) > 0, Rowwise(Tail(L))
    PROVE  Rowwise(L)
<1> DEFINE T == Tail(L)
           d == L[1]
           s == d.stride
           first == Extension(d)[1]
           size == Size(d)
<1>1. /\ T \in Seq(ArrayDims) /\ Len(L) = Len(T) + 1 /\ Len(T) \in Nat
      /\ \A k \in 1 .. Len(T) : L[k + 1] = T[k]
    OBVIOUS
<1>2. \A ix \in Names(L) :
          /\ ix[1] \in Indices(Extension(d))
          /\ Tail(ix) \in Names(T)
          /\ ix = <<ix[1]>> \o Tail(ix)
          /\ Position(L, ix) = Shift(d, ix[1]) + Position(T, Tail(ix))
    BY NameTail
<1>3. Rowwise(T)  OBVIOUS
<1> HIDE DEF T
<1>4. Dense(T) /\ NumElements(T) = s  BY <1>1, DenseTail
<1>5. d \in WholeDims /\ size > 0
    <2>1. 1 \in 1 .. Len(L)  OBVIOUS
    <2> QED BY <2>1 DEF Dense
<1> HIDE DEF d
<1>6. /\ d \in Dims /\ s \in Nat \ {0} /\ size \in Nat \ {0} /\ d.nelems = size * s
      /\ Extension(d) \in Intervals /\ Count(Extension(d)) = size
    <2>1. d \in ArrayDims  BY <1>5, WholeDimFacts DEF ArrayDims
    <2> QED BY <1>5, <2>1, WholeDimFacts, ArrayDimFacts
<1>7. first \in Int /\ Indices(Extension(d)) = first .. first + size - 1
    <2>1. Extension(d)[1] \in Int /\ Extension(d)[2] \in Int /\ Extension(d)[2] - Extension(d)[1] = size
        BY <1>6 DEF Intervals, Count
    <2>2. Extension(d)[2] - 1 = first + size - 1  BY <1>6, <2>1
    <2> QED BY <2>1, <2>2 DEF Indices
<1>8. \A i \in Indices(Extension(d)) : i \in Int /\ Shift(d, i) = (i - first) * s
    BY <1>5, ShiftInDim
<1>9. \A tx \in Names(T) : Position(T, tx) \in 0 .. s - 1
    <2>1. T \in ArrayLayouts  BY <1>1, <1>4 DEF ArrayLayouts
    <2> QED BY <1>4, <2>1, DenseInBlock DEF Names
<1>10. NumElements(L) = size * s
    <2>1. L # <<>>  OBVIOUS
    <2> QED BY <1>6, <2>1, DenseNumElements DEF d
<1> HIDE DEF s, first, size
<1>11. ASSUME NEW p \in 0 .. NumElements(L) - 1
       PROVE  \E ix \in Names(L) : Position(L, ix) = p
    <2> DEFINE q == p \div s
               r == p % s
    <2>1. size * s \in Nat /\ p \in Nat /\ p < size * s  BY <1>6, <1>10
    <2>2. p = q * s + r /\ r \in 0 .. s - 1 /\ q \in Int
        <3>1. s \in Nat \ {0} /\ p \in Int  BY <1>6, <2>1
        <3> QED BY ONLY <3>1, Division
    <2> HIDE DEF q, r
    <2>3. q >= 0 /\ q < size
        <3>0. q * s \in Int  BY <1>6, <2>2
        <3>1. q < 0 => q * s <= -s
            <4>1. q < 0 => (-1 - q) * s >= 0  BY <1>6, <2>2
            <4>2. (-1 - q) * s = -s - q * s  BY <1>6, <2>2
            <4> QED BY <1>6, <3>0, <4>1, <4>2
        <3>2. q >= size => q * s >= size * s
            <4>1. q >= size => (q - size) * s >= 0  BY <1>6, <2>2
            <4>2. (q - size) * s = q * s - size * s  BY <1>6, <2>2
            <4> QED BY <2>1, <3>0, <4>1, <4>2
        <3> QED BY <1>6, <2>1, <2>2, <3>0, <3>1, <3>2
    <2>4. PICK tx \in Names(T) : Position(T, tx) = r  BY <1>3, <1>4, <2>2 DEF Rowwise
    <2>5. tx \in Seq(Int) /\ Len(tx) = Len(T)
          /\ \A k \in 1 .. Len(T) : tx[k] \in Indices(Extension(T[k]))
        BY <1>1, NamesAre DEF IsName
    <2> DEFINE i == first + q
               ix == <<i>> \o tx
    <2>6. i \in Indices(Extension(d)) /\ i \in Int /\ i - first = q
        <3>1. first + q \in first .. first + size - 1  BY <1>6, <1>7, <2>2, <2>3
        <3> QED BY <1>7, <2>2, <3>1
    <2> HIDE DEF i
    <2>7. /\ ix \in Seq(Int) /\ Len(ix) = Len(L) /\ ix[1] = i
          /\ \A k \in 1 .. Len(T) : ix[k + 1] = tx[k]
        BY <1>1, <2>5, <2>6
    <2> HIDE DEF ix
    <2>8. ix \in Names(L)
        <3>1. ASSUME NEW k \in 1 .. Len(L) PROVE ix[k] \in Indices(Extension(L[k]))
            <4>1. CASE k = 1  BY <2>6, <2>7, <4>1 DEF d
            <4>2. CASE k # 1
                <5>1. k - 1 \in 1 .. Len(T) /\ (k - 1) + 1 = k  BY <1>1, <4>2
                <5>2. ix[k] = tx[k - 1] /\ L[k] = T[k - 1]
                    <6>1. ix[(k - 1) + 1] = tx[k - 1] /\ L[(k - 1) + 1] = T[k - 1]  BY <1>1, <2>7, <5>1
                    <6> QED BY <5>1, <6>1
                <5> QED BY <2>5, <5>1, <5>2
            <4> QED BY <4>1, <4>2
        <3> QED BY <2>7, <3>1, NamesAre DEF IsName
    <2>9. Position(L, ix) = Shift(d, i) + Position(T, tx)
        <3>1. L \in Seq(Dims) /\ T \in Seq(Dims)  BY <1>1 DEF ArrayDims
        <3>2. \A k \in 1 .. Len(T) : L[k + 1] = T[k] /\ ix[k + 1] = tx[k]  BY <1>1, <2>7
        <3>3. Position(L, ix) = Shift(L[1], ix[1]) + Position(T, tx)
            BY <1>1, <2>5, <2>7, <3>1, <3>2, PositionFirst
        <3> QED BY <2>7, <3>3 DEF d
    <2>10. Position(L, ix) = q * s + r  BY <1>8, <2>4, <2>6, <2>9
    <2> QED BY <2>2, <2>8, <2>10
<1>12. ASSUME NEW ix \in Names(L), NEW jx \in Names(L)
       PROVE  Precedes(ix, jx) <=> Position(L, ix) < Position(L, jx)
    <2> DEFINE tx == Tail(ix)
               ux == Tail(jx)
               i == ix[1]
               j == jx[1]
               p == Position(T, tx)
               q == Position(T, ux)
    <2>1. /\ i \in Indices(Extension(d)) /\ tx \in Names(T) /\ ix = <<i>> \o tx
          /\ Position(L, ix) = Shift(d, i) + p
          /\ j \in Indices(Extension(d)) /\ ux \in Names(T) /\ jx = <<j>> \o ux
          /\ Position(L, jx) = Shift(d, j) + q
        BY <1>2
    <2>2. /\ i \in Int /\ j \in Int /\ p \in 0 .. s - 1 /\ q \in 0 .. s - 1
          /\ Position(L, ix) = (i - first) * s + p /\ Position(L, jx) = (j - first) * s + q
        BY <1>8, <1>9, <2>1
    <2>3. /\ tx \in Seq(Int) /\ Len(tx) = Len(T) /\ ux \in Seq(Int) /\ Len(ux) = Len(T)
          /\ ix \in Seq(Int) /\ Len(ix) = Len(T) + 1 /\ jx \in Seq(Int) /\ Len(jx) = Len(T) + 1
        <3> HIDE DEF tx, ux
        <3> QED BY <1>1, <2>1, NamesAre DEF IsName
    <2>4. \A k \in 1 .. Len(T) : ix[k + 1] = tx[k] /\ jx[k + 1] = ux[k]  BY <1>1, <2>3
    <2> HIDE DEF tx, ux
    <2>5. Precedes(ix, jx) <=> i < j \/ (i = j /\ Precedes(tx, ux))
        <3>1. LeftBehind(tx, ix, Len(T)) /\ LeftBehind(ux, jx, Len(T))  BY <2>3, <2>4 DEF LeftBehind
        <3>2. Len(T) \in Nat  BY <1>1
        <3> QED BY ONLY <3>1, <3>2, PrecedesFirst
    <2>6. Precedes(tx, ux) <=> p < q  BY <1>3, <2>1 DEF Rowwise
    <2> DEFINE a == i - first
               b == j - first
    <2>7. a \in Int /\ b \in Int /\ (a < b <=> i < j) /\ (a = b <=> i = j)  BY <1>7, <2>2
    <2>8. Position(L, ix) = a * s + p /\ Position(L, jx) = b * s + q  BY <2>2
    <2> HIDE DEF a, b, p, q, i, j
    <2>9. a * s + p < b * s + q <=> a < b \/ (a = b /\ p < q)
        BY <1>6, <2>2, <2>7, MixedRadixOrder
    <2> QED BY <2>5, <2>6, <2>7, <2>8, <2>9
<1> QED BY <1>11, <1>12 DEF Rowwise

LEMMA DenseRowwise ==
    ASSUME NEW L \in Seq(ArrayDims), Dense(L)
    PROVE  Rowwise(L)
<1> DEFINE S == {n \in Nat : \A M \in Seq(ArrayDims) : Len(M) = n /\ Dense(M) => Rowwise(M)}
<1>1. 0 \in S
    <2>1. \A M \in Seq(ArrayDims) : Len(M) = 0 => M = <<>>  OBVIOUS
    <2> QED BY <2>1, RowwiseNone
<1>2. ASSUME NEW n \in Nat, n \in S PROVE n + 1 \in S
    <2>1. ASSUME NEW M \in Seq(ArrayDims), Len(M) = n + 1, Dense(M) PROVE Rowwise(M)
        <3> DEFINE T == Tail(M)
        <3>1. /\ T \in Seq(ArrayDims) /\ Len(M) = Len(T) + 1 /\ Len(T) = n /\ Len(M) > 0
              /\ \A k \in 1 .. Len(T) : M[k + 1] = T[k]
            BY <2>1
        <3> HIDE DEF T
        <3>2. Dense(T)  BY <2>1, <3>1, DenseTail
        <3>3. Rowwise(T)  BY <1>2, <3>1, <3>2
        <3> QED BY <2>1, <3>1, <3>3, RowwiseMore DEF T
    <2> QED BY <2>1
<1> HIDE DEF S
<1>3. \A n \in Nat : n \in S  BY <1>1, <1>2, Induction
<1>4. Len(L) \in S  BY <1>3
<1> QED BY <1>4 DEF S

(* A new array lies in lexicographic order and without holes: in front of an element lie as *)
(* many as tuples of indices come before its own (layout.hpp, operator()).                  *)
THEOREM DenseInOrder ==
    ASSUME NEW L \in ArrayLayouts, NEW ix \in Box(Extensions(L))
    PROVE  Cardinality({jx \in Box(Extensions(L)) : Precedes(jx, ix)}) = Position(L, ix)
<1> DEFINE p == Position(L, ix)
           A == {jx \in Names(L) : Precedes(jx, ix)}
           B == 0 .. p - 1
           f == [jx \in A |-> Position(L, jx)]
<1>1. L \in Seq(ArrayDims) /\ ix \in Names(L)  BY DEF ArrayLayouts, Names
<1>2. Dense(L)  BY <1>1, BoxOfLayout DEF ArrayLayouts
<1>3. Rowwise(L)  BY <1>1, <1>2, DenseRowwise
<1>4. \A jx \in Names(L) : Position(L, jx) \in 0 .. NumElements(L) - 1  BY DenseInBlock DEF Names
<1>5. \A jx, kx \in Names(L) : Position(L, jx) = Position(L, kx) => jx = kx  BY DenseApart DEF Names
<1>6. p \in 0 .. NumElements(L) - 1 /\ NumElements(L) \in Nat  BY <1>1, <1>4, SizesFacts
<1>7. \A jx \in Names(L) : jx \in A <=> Position(L, jx) < p  BY <1>1, <1>3 DEF Rowwise
<1> HIDE DEF p
<1>8. \A jx \in A : jx \in Names(L)  OBVIOUS
<1> HIDE DEF A
<1>9. \A jx \in A : Position(L, jx) \in B  BY <1>4, <1>6, <1>7, <1>8
<1>10. \A q \in B : \E jx \in A : Position(L, jx) = q
    <2> SUFFICES ASSUME NEW q \in B PROVE \E jx \in A : Position(L, jx) = q
        OBVIOUS
    <2>1. q \in 0 .. NumElements(L) - 1 /\ q < p  BY <1>6
    <2>2. PICK jx \in Names(L) : Position(L, jx) = q  BY <1>3, <2>1 DEF Rowwise
    <2> QED BY <1>7, <2>1, <2>2
<1> HIDE DEF B
<1>11. f \in Surjection(A, B)  BY <1>9, <1>10 DEF Surjection
<1>12. f \in Injection(A, B)
    <2>1. f \in [A -> B]  BY <1>9
    <2>2. \A jx, kx \in A : f[jx] = f[kx] => jx = kx  BY <1>5, <1>8
    <2> QED BY <2>1, <2>2 DEF Injection, IsInjective
<1> HIDE DEF f
<1>13. IsFiniteSet(B) /\ Cardinality(B) = p
    <2>1. 0 \in Int /\ p - 1 \in Int /\ p \in Nat  BY <1>6
    <2>2. IsFiniteSet(0 .. p - 1) /\ Cardinality(0 .. p - 1) = IF 0 > p - 1 THEN 0 ELSE p - 1 - 0 + 1
        BY <2>1, FS_Interval
    <2> QED BY <2>1, <2>2 DEF B
<1>14. Cardinality(A) = Cardinality(B)  BY <1>11, <1>12, <1>13, FS_Injection
<1> QED BY <1>13, <1>14 DEF A, p, Names

(* Extensions of which only the leading one may be empty: a dimension in front of a *)
(* layout that has elements.                                                        *)
LeadsBy(L, xs, sub) ==
    /\ sub \in ArrayLayouts /\ Len(sub) = Len(xs) - 1 /\ NumElements(sub) \in Nat \ {0}
    /\ \A j \in 1 .. Len(sub) : L[j + 1] = sub[j] /\ Extension(sub[j]) = xs[j + 1]
    /\ L[1] = Dim(NumElements(sub), xs[1][1] * NumElements(sub), Count(xs[1]) * NumElements(sub))

LEMMA LeadingOfLayout ==
    ASSUME NEW xs \in Seq(Intervals), Len(xs) # 0, \A k \in 2 .. Len(xs) : Count(xs[k]) > 0
    PROVE  \E sub : LeadsBy(LayoutOf(xs), xs, sub)
<1> DEFINE n == Len(xs)
           L == LayoutOf(xs)
<1>1. PICK f : Made(xs, f) /\ L = f[n]  BY LayoutMade
<1>2. n \in Nat  OBVIOUS
<1> HIDE DEF L
<1>3. PICK k \in 0 .. Len(xs) : k = n - 1
    <2>1. n - 1 \in 0 .. Len(xs)  BY <1>2
    <2> QED BY <2>1
<1> DEFINE sub == f[k]
           x == xs[1]
<1>4. /\ sub \in ArrayLayouts /\ Len(sub) = k
      /\ NumElements(sub) = 0 <=> \E j \in Len(xs) - k + 1 .. Len(xs) : Count(xs[j]) = 0
      /\ NumElements(sub) # 0 => \A j \in 1 .. k : Extension(sub[j]) = xs[Len(xs) - k + j]
    BY <1>1, SubLayouts
<1>5. Len(xs) - k + 1 = 2 /\ \A j \in 1 .. k : Len(xs) - k + j = j + 1  BY <1>2, <1>3
<1>6. NumElements(sub) # 0  BY <1>4, <1>5
<1>7. L = WithDimension(x, sub)
    <2>1. n \in 1 .. Len(xs) /\ Len(xs) - n + 1 = 1 /\ n - 1 = k  BY <1>2, <1>3
    <2>2. f[n] = WithDimension(xs[Len(xs) - n + 1], f[n - 1])  BY <1>1, <2>1 DEF Made
    <2> QED BY <1>1, <2>1, <2>2
<1>8. x \in Intervals
    <2>1. 1 \in 1 .. Len(xs)  BY <1>2
    <2> QED BY <2>1
<1> HIDE DEF sub
<1>9. \A j \in 1 .. k : Extension(sub[j]) = xs[j + 1]  BY <1>4, <1>5, <1>6
<1> HIDE DEF x
<1>10. /\ \A j \in 1 .. Len(sub) : L[j + 1] = sub[j]
       /\ L[1] = Dim(NumElements(sub), x[1] * NumElements(sub), Count(x) * NumElements(sub))
    BY <1>4, <1>6, <1>7, <1>8, WithDimensionFacts
<1>11. NumElements(sub) \in Nat \ {0}  BY <1>4, <1>6, SizesFacts DEF ArrayLayouts
<1>12. LeadsBy(L, xs, sub)  BY <1>3, <1>4, <1>9, <1>10, <1>11 DEF LeadsBy, x
<1> QED BY <1>12 DEF L

(* Such a layout is whole, and has the extensions it was made from: an empty one is (0, 0). *)
LEMMA WholeLayout ==
    ASSUME NEW xs \in Seq(Intervals), \A k \in 2 .. Len(xs) : Count(xs[k]) > 0
    PROVE  /\ LayoutOf(xs) \in Seq(WholeDims)
           /\ (\A k \in 1 .. Len(xs) : Count(xs[k]) = 0 => xs[k] = <<0, 0>>)
                 => Extensions(LayoutOf(xs)) = xs
<1> DEFINE n == Len(xs)
           L == LayoutOf(xs)
<1>1. L \in ArrayLayouts /\ Len(L) = n /\ n \in Nat  BY LayoutOfExtensions
<1>2. L \in Seq(ArrayDims)  BY <1>1 DEF ArrayLayouts
<1>3. /\ Extensions(L) \in Seq(Intervals) /\ Len(Extensions(L)) = n
      /\ \A k \in 1 .. n : Extensions(L)[k] = Extension(L[k])
    BY <1>1, <1>2, ExtensionsFacts
<1>4. CASE n = 0
    <2> HIDE DEF L
    <2>1. L = <<>> /\ xs = <<>> /\ Extensions(L) = <<>>  BY <1>1, <1>2, <1>3, <1>4
    <2> QED BY <2>1 DEF L
<1>5. CASE n # 0
    <2>1. PICK sub : LeadsBy(L, xs, sub)  BY <1>5, LeadingOfLayout
    <2> DEFINE x == xs[1]
               N == NumElements(sub)
    <2>2. x \in Intervals /\ x[1] \in Int /\ Count(x) \in Nat
        <3>1. x \in Intervals
            <4>1. 1 \in 1 .. Len(xs)  BY <1>1, <1>5
            <4> QED BY <4>1
        <3> QED BY <3>1 DEF Intervals, Count
    <2>3. /\ sub \in ArrayLayouts /\ Len(sub) = n - 1 /\ N \in Nat \ {0}
          /\ \A j \in 1 .. Len(sub) : L[j + 1] = sub[j] /\ Extension(sub[j]) = xs[j + 1]
          /\ L[1] = Dim(N, x[1] * N, Count(x) * N)
        BY <2>1 DEF LeadsBy
    <2> HIDE DEF L
    <2>4. \A j \in 1 .. n : j # 1 => j - 1 \in 1 .. Len(sub) /\ (j - 1) + 1 = j
        BY <1>1, <2>3
    <2>5. L \in Seq(WholeDims)
        <3>1. L[1] \in WholeDims
            <4> HIDE DEF x, N
            <4> QED BY <2>2, <2>3, MakeWhole
        <3>2. \A j \in 1 .. Len(sub) : sub[j] \in WholeDims
            <4>1. N # 0  BY <2>3
            <4> QED BY <2>3, <4>1 DEF ArrayLayouts, Dense
        <3>3. \A j \in 1 .. n : L[j] \in WholeDims
            <4> SUFFICES ASSUME NEW j \in 1 .. n PROVE L[j] \in WholeDims
                OBVIOUS
            <4>1. CASE j = 1  BY <3>1, <4>1
            <4>2. CASE j # 1  BY <2>3, <2>4, <3>2, <4>2
            <4> QED BY <4>1, <4>2
        <3> QED BY <1>1, <1>2, <3>3
    <2>6. ASSUME \A k \in 1 .. Len(xs) : Count(xs[k]) = 0 => xs[k] = <<0, 0>>
          PROVE  Extensions(L) = xs
        <3>1. Extension(L[1]) = x
            <4>1. Count(x) = 0 => x = <<0, 0>>
                <5>1. 1 \in 1 .. Len(xs)  BY <1>1, <1>5
                <5> QED BY <2>6, <5>1
            <4> HIDE DEF x, N
            <4>2. CASE Count(x) = 0
                <5>1. (Dim(N, x[1] * N, Count(x) * N)).nelems = 0  BY <2>3, <4>2 DEF Dim
                <5> QED BY <2>3, <4>1, <4>2, <5>1 DEF Extension
            <4>3. CASE Count(x) > 0  BY <2>2, <2>3, <4>3, ExtensionOfDim
            <4> QED BY <2>2, <4>2, <4>3
        <3>2. \A j \in 1 .. n : Extension(L[j]) = xs[j]
            <4> SUFFICES ASSUME NEW j \in 1 .. n PROVE Extension(L[j]) = xs[j]
                OBVIOUS
            <4>1. CASE j = 1  BY <3>1, <4>1
            <4>2. CASE j # 1  BY <2>3, <2>4, <4>2
            <4> QED BY <4>1, <4>2
        <3> QED BY <1>3, <3>2
    <2> QED BY <2>5, <2>6 DEF L
<1> QED BY <1>4, <1>5

(***************************************************************************)
(* Layouts that are turned or reindexed.                                   *)
(***************************************************************************)
(* Turned by one: the dimensions move one place to the front, the first to the end. *)
LEMMA RotateOne ==
    ASSUME NEW D, NEW L \in Seq(D), Len(L) > 0
    PROVE  /\ Rotate(L, 1) \in Seq(D) /\ Len(Rotate(L, 1)) = Len(L)
           /\ \A k \in 1 .. Len(L) - 1 : Rotate(L, 1)[k] = L[k + 1]
           /\ Rotate(L, 1)[Len(L)] = L[1]
<1>1. Len(L) \in Nat \ {0} /\ DOMAIN L = 1 .. Len(L) /\ \A k \in 1 .. Len(L) : L[k] \in D
    OBVIOUS
<1>2. CASE Len(L) < 2
    <2>1. Rotate(L, 1) = L /\ Len(L) = 1  BY <1>1, <1>2 DEF Rotate
    <2> QED BY <1>1, <2>1
<1>3. CASE ~ (Len(L) < 2)
    <2> DEFINE n == Len(L)
               to(k) == ((k - 1 + 1) % n) + 1
    <2>1. Rotate(L, 1) = [k \in 1 .. n |-> L[to(k)]]  BY <1>1, <1>3 DEF Rotate, Turn
    <2>2. \A k \in 1 .. n - 1 : to(k) = k + 1  BY <1>1
    <2>3. to(n) = 1  BY <1>1
    <2> HIDE DEF to
    <2>4. \A k \in 1 .. n : to(k) \in 1 .. n
        <3>1. n \in Nat \ {0}  BY <1>1
        <3> HIDE DEF n
        <3>2. \A k \in 1 .. n : k = n \/ k \in 1 .. n - 1  BY <3>1
        <3> QED BY <2>2, <2>3, <3>1, <3>2
    <2>5. Rotate(L, 1) \in Seq(D) /\ Len(Rotate(L, 1)) = n  BY <1>1, <2>1, <2>4
    <2>6. \A k \in 1 .. n - 1 : Rotate(L, 1)[k] = L[k + 1]  BY <1>1, <2>1, <2>2
    <2>7. Rotate(L, 1)[n] = L[1]  BY <1>1, <2>1, <2>3
    <2> QED BY <2>5, <2>6, <2>7
<1> QED BY <1>2, <1>3

(* A turned layout has as many elements, ... *)
LEMMA RotateNumElements ==
    ASSUME NEW L \in Seq(ArrayDims), Len(L) > 0
    PROVE  NumElements(Rotate(L, 1)) = NumElements(L)
<1> DEFINE R == Rotate(L, 1)
<1>1. /\ R \in Seq(ArrayDims) /\ Len(R) = Len(L)
      /\ \A k \in 1 .. Len(L) - 1 : R[k] = L[k + 1]
      /\ R[Len(L)] = L[1]
    BY RotateOne
<1> HIDE DEF R
<1>2. /\ Sizes(L) \in Seq(Int) /\ Len(Sizes(L)) = Len(L)
      /\ \A k \in 1 .. Len(L) : Sizes(L)[k] = Size(L[k])
    BY SizesFacts
<1>3. /\ Sizes(R) \in Seq(Int) /\ Len(Sizes(R)) = Len(R)
      /\ \A k \in 1 .. Len(R) : Sizes(R)[k] = Size(R[k])
    BY <1>1, SizesFacts
<1>4. \A k \in 1 .. Len(L) - 1 : k + 1 \in 1 .. Len(L) /\ k \in 1 .. Len(L)  OBVIOUS
<1>5. \A k \in 1 .. Len(Sizes(L)) - 1 : Sizes(R)[k] = Sizes(L)[k + 1]
    BY <1>1, <1>2, <1>3, <1>4
<1>6. Len(L) \in 1 .. Len(L) /\ 1 \in 1 .. Len(L)  OBVIOUS
<1>7. Sizes(R)[Len(Sizes(L))] = Sizes(L)[1]  BY <1>1, <1>2, <1>3, <1>6
<1>8. Product(Sizes(R)) = Product(Sizes(L))
    BY <1>1, <1>2, <1>3, <1>5, <1>7, ProductTurned
<1> QED BY <1>8 DEF NumElements, R

(* ... and its names are those of the layout, turned. *)
Back(jx) == [k \in 1 .. Len(jx) |-> IF k = 1 THEN jx[Len(jx)] ELSE jx[k - 1]]

LEMMA TurnedNames ==
    ASSUME NEW L \in Seq(ArrayDims), Len(L) > 0, NEW jx \in Names(Rotate(L, 1))
    PROVE  /\ Back(jx) \in Names(L)
           /\ Position(Rotate(L, 1), jx) = Position(L, Back(jx))
           /\ jx \in Seq(Int) /\ Len(jx) = Len(L)
           /\ Back(jx)[1] = jx[Len(L)]
           /\ \A k \in 1 .. Len(L) - 1 : Back(jx)[k + 1] = jx[k]
<1> DEFINE R == Rotate(L, 1)
           n == Len(L)
           ix == Back(jx)
<1>1. L \in Seq(ArrayDims) /\ L \in Seq(Dims) /\ n \in Nat \ {0}  BY DEF ArrayDims
<1>2. /\ R \in Seq(ArrayDims) /\ Len(R) = n
      /\ \A k \in 1 .. n - 1 : R[k] = L[k + 1]
      /\ R[n] = L[1]
    BY <1>1, RotateOne
<1>3. R \in Seq(Dims)  BY <1>1, RotateOne
<1> HIDE DEF R
<1>4. /\ jx \in Seq(Int) /\ Len(jx) = n
      /\ \A k \in 1 .. n : jx[k] \in Indices(Extension(R[k]))
    BY <1>2, NamesAre DEF R, IsName
<1>5. \A k \in 1 .. n : jx[k] \in Int  BY <1>4
<1>6. ix \in Seq(Int) /\ Len(ix) = n
    <2>1. \A k \in 1 .. n : k # 1 => k - 1 \in 1 .. n  BY <1>1
    <2>2. n \in 1 .. n  BY <1>1
    <2>3. ix \in [1 .. n -> Int]  BY <1>4, <1>5, <2>1, <2>2 DEF Back
    <2> HIDE DEF ix
    <2> QED BY <1>1, <2>3
<1>7. ix[1] = jx[n] /\ \A k \in 1 .. n - 1 : ix[k + 1] = jx[k]
    <2>1. \A k \in 1 .. n - 1 : k + 1 \in 1 .. n /\ k + 1 # 1 /\ (k + 1) - 1 = k  BY <1>1
    <2>2. 1 \in 1 .. n  BY <1>1
    <2> QED BY <1>4, <2>1, <2>2 DEF Back
<1> HIDE DEF ix
<1>8. \A k \in 1 .. n : ix[k] \in Indices(Extension(L[k]))
    <2> SUFFICES ASSUME NEW k \in 1 .. n PROVE ix[k] \in Indices(Extension(L[k]))
        OBVIOUS
    <2>1. CASE k = 1
        <3>1. n \in 1 .. n  BY <1>1
        <3> QED BY <1>2, <1>4, <1>7, <2>1, <3>1
    <2>2. CASE k # 1
        <3>1. k - 1 \in 1 .. n - 1 /\ k - 1 \in 1 .. n /\ (k - 1) + 1 = k  BY <1>1, <2>2
        <3>2. ix[k] = jx[k - 1] /\ L[k] = R[k - 1]  BY <1>2, <1>7, <3>1
        <3> QED BY <1>4, <3>1, <3>2
    <2> QED BY <2>1, <2>2
<1>9. ix \in Names(L)  BY <1>6, <1>8, NamesAre DEF IsName
<1>10. Position(R, jx) = Position(L, ix)
    <2>1. \A k \in 1 .. Len(L) - 1 : R[k] = L[k + 1] /\ jx[k] = ix[k + 1]  BY <1>2, <1>7
    <2>2. Len(ix) = Len(L) /\ Len(jx) = Len(R) /\ Len(L) = Len(R)  BY <1>2, <1>4, <1>6
    <2>3. R[Len(L)] = L[1] /\ jx[Len(L)] = ix[1]  BY <1>2, <1>7
    <2> QED BY <1>1, <1>3, <1>4, <1>6, <2>1, <2>2, <2>3, PositionTurned
<1> QED BY <1>4, <1>7, <1>9, <1>10 DEF R, ix

(* So a turned array names the elements of its block. *)
LEMMA TurnedInBlock ==
    ASSUME NEW L \in ArrayLayouts, Len(L) > 0, NEW jx \in Box(Extensions(Rotate(L, 1)))
    PROVE  Position(Rotate(L, 1), jx) \in 0 .. NumElements(L) - 1
<1>1. L \in Seq(ArrayDims)  BY DEF ArrayLayouts
<1>2. Back(jx) \in Names(L) /\ Position(Rotate(L, 1), jx) = Position(L, Back(jx))
    BY <1>1, TurnedNames DEF Names
<1>3. Position(L, Back(jx)) \in 0 .. NumElements(L) - 1
    <2> DEFINE ix == Back(jx)
    <2>1. ix \in Box(Extensions(L))  BY <1>2 DEF Names
    <2> HIDE DEF ix
    <2>2. Position(L, ix) \in 0 .. NumElements(L) - 1  BY <2>1, DenseInBlock
    <2> QED BY <2>2 DEF ix
<1> QED BY <1>2, <1>3

(* Turning once more is turning by one more, and only the remainder counts. *)
LEMMA TurnMore ==
    ASSUME NEW L \in Seq(ArrayDims), Len(L) > 0, NEW r \in Int
    PROVE  /\ Turn(L, r) \in Seq(ArrayDims) /\ Len(Turn(L, r)) = Len(L)
           /\ Turn(L, r + 1) = Rotate(Turn(L, r), 1)
           /\ Turn(L, r) = Turn(L, r % Len(L))
<1> DEFINE n == Len(L)
           At(k, s) == ((k - 1 + s) % n) + 1
<1>1. n \in Nat \ {0} /\ DOMAIN L = 1 .. n  OBVIOUS
<1>2. \A s \in Int : Turn(L, s) = [k \in 1 .. n |-> L[At(k, s)]]  BY <1>1 DEF Turn
<1>3. \A s \in Int : \A k \in 1 .. n : At(k, s) \in 1 .. n
    <2> SUFFICES ASSUME NEW s \in Int, NEW k \in 1 .. n PROVE At(k, s) \in 1 .. n
        OBVIOUS
    <2>1. k - 1 + s \in Int  OBVIOUS
    <2>2. (k - 1 + s) % n \in 0 .. n - 1  BY <1>1, <2>1, Division
    <2> QED BY <1>1, <2>2
<1> HIDE DEF At
<1>4. \A s \in Int : Turn(L, s) \in Seq(ArrayDims) /\ Len(Turn(L, s)) = n
    <2> SUFFICES ASSUME NEW s \in Int
                 PROVE  Turn(L, s) \in Seq(ArrayDims) /\ Len(Turn(L, s)) = n
        OBVIOUS
    <2>1. \A j \in 1 .. n : L[j] \in ArrayDims  BY <1>1
    <2>2. \A k \in 1 .. n : At(k, s) \in 1 .. n  BY <1>3
    <2>3. \A k \in 1 .. n : L[At(k, s)] \in ArrayDims  BY <2>1, <2>2
    <2>4. Turn(L, s) \in [1 .. n -> ArrayDims]
        <3>1. Turn(L, s) = [k \in 1 .. n |-> L[At(k, s)]]  BY <1>2
        <3> QED BY ONLY <2>3, <3>1
    <2>5. n \in Nat  BY <1>1
    <2> HIDE DEF n
    <2> QED BY ONLY <2>4, <2>5
<1>5. r + 1 \in Int  OBVIOUS
<1> DEFINE M == Turn(L, r)
           R == Rotate(M, 1)
           N == Turn(L, r + 1)
<1>6. /\ R \in Seq(ArrayDims) /\ Len(R) = n
      /\ \A k \in 1 .. n - 1 : R[k] = M[k + 1]
      /\ R[n] = M[1]
    <2> HIDE DEF M
    <2>1. M \in Seq(ArrayDims) /\ Len(M) = n  BY <1>4 DEF M
    <2>2. Len(M) > 0  BY <1>1, <2>1
    <2> QED BY <2>1, <2>2, RotateOne
<1>7. N = R
    <2>1. N \in Seq(ArrayDims) /\ Len(N) = n  BY <1>4, <1>5
    <2>2. ASSUME NEW k \in 1 .. n PROVE N[k] = R[k]
        <3>1. N[k] = L[At(k, r + 1)]  BY <1>2, <1>5
        <3>2. CASE k = n
            <4>1. R[k] = L[At(1, r)]
                <5>1. 1 \in 1 .. n  BY <1>1
                <5> QED BY <1>2, <1>6, <3>2, <5>1
            <4>2. At(k, r + 1) = At(1, r)
                <5>1. PICK q \in Int, t \in 0 .. n - 1 : r = q * n + t /\ r % n = t
                    BY <1>1, Division
                <5>2. n - 1 + (r + 1) = (q + 1) * n + t
                    <6>1. (q + 1) * n = q * n + n /\ q * n \in Int  BY <1>1
                    <6> QED BY <1>1, <5>1, <6>1
                <5>3. q + 1 \in Int  OBVIOUS
                <5>4. (n - 1 + (r + 1)) % n = t  BY <1>1, <5>2, <5>3, Remainder
                <5>5. 1 - 1 + r = r  OBVIOUS
                <5> QED BY <3>2, <5>1, <5>4, <5>5 DEF At
            <4> QED BY <3>1, <4>1, <4>2
        <3>3. CASE k # n
            <4>1. k \in 1 .. n - 1 /\ k + 1 \in 1 .. n
                <5>1. n \in Nat  BY <1>1
                <5> HIDE DEF n
                <5> QED BY <3>3, <5>1
            <4>2. R[k] = L[At(k + 1, r)]  BY <1>2, <1>6, <4>1
            <4>3. k - 1 + (r + 1) = (k + 1) - 1 + r  OBVIOUS
            <4>4. At(k, r + 1) = At(k + 1, r)  BY <4>3 DEF At
            <4> QED BY <3>1, <4>2, <4>4
        <3> QED BY <3>2, <3>3
    <2> HIDE DEF N, R
    <2> QED BY <1>6, <2>1, <2>2
<1>8. Turn(L, r) = Turn(L, r % n)
    <2>1. r % n \in Int  BY <1>1, Division
    <2>2. ASSUME NEW k \in 1 .. n PROVE At(k, r) = At(k, r % n)
        <3>1. k - 1 \in Int  OBVIOUS
        <3>2. ((k - 1) + (r % n)) % n = ((k - 1) + r) % n  BY <1>1, <3>1, RemainderOfSum
        <3>3. At(k, r % n) = (((k - 1) + (r % n)) % n) + 1 /\ At(k, r) = (((k - 1) + r) % n) + 1
            BY DEF At
        <3> QED BY <3>2, <3>3, Zenon
    <2> QED BY <1>2, <2>1, <2>2
<1> QED BY <1>4, <1>7, <1>8

(* Reindexing moves the first index and nothing else (array::reindex). *)
LEMMA ReindexFacts ==
    ASSUME NEW L \in ArrayLayouts, Len(L) > 0, NEW first \in Int,
           NEW R, R = [L EXCEPT ![1] = Reindex(L[1], first)]
    PROVE  R \in ArrayLayouts /\ Len(R) = Len(L) /\ NumElements(R) = NumElements(L)
<1> DEFINE d == L[1]
           e == Reindex(L[1], first)
<1>1. L \in Seq(ArrayDims) /\ Len(L) \in Nat \ {0} /\ 1 \in 1 .. Len(L)  BY DEF ArrayLayouts
<1>2. d \in ArrayDims /\ d \in Dims  BY <1>1 DEF ArrayDims
<1>3. /\ d = [stride |-> d.stride, offset |-> d.offset, nelems |-> d.nelems]
      /\ d.stride \in Nat /\ d.nelems \in Nat
    BY <1>2 DEF ArrayDims, Dims
<1>4. e = [stride |-> d.stride, offset |-> first * d.stride, nelems |-> d.nelems]
    BY <1>3 DEF Reindex
<1> HIDE DEF d, e
<1>5. e \in Dims /\ e.stride = d.stride /\ e.nelems = d.nelems
    <2>1. first * d.stride \in Int  BY <1>3
    <2> QED BY <1>3, <1>4, <2>1 DEF Dims
<1>6. d \in WholeDims => e \in WholeDims
    <2> SUFFICES ASSUME d \in WholeDims PROVE e \in WholeDims
        OBVIOUS
    <2>1. d.stride > 0 /\ d.nelems % d.stride = 0  BY DEF WholeDims, WholeDim
    <2>2. d.stride \in Nat \ {0}  BY <1>3, <2>1
    <2>3. e.offset = first * d.stride  BY <1>4
    <2>4. e.offset % d.stride = 0  BY <2>2, <2>3, NoRemainder
    <2> QED BY <1>5, <2>1, <2>4 DEF WholeDims, WholeDim
<1>7. e \in ArrayDims /\ Size(e) = Size(d)
    <2>1. e \in ArrayDims  BY <1>2, <1>3, <1>5, <1>6 DEF ArrayDims
    <2> QED BY <1>5, <2>1 DEF Size
<1>8. /\ R \in Seq(ArrayDims) /\ Len(R) = Len(L)
      /\ R[1] = e /\ \A k \in 1 .. Len(L) : k # 1 => R[k] = L[k]
    BY <1>1, <1>7 DEF e
<1>9. \A k \in 1 .. Len(L) : /\ Size(R[k]) = Size(L[k])
                             /\ R[k].stride = L[k].stride /\ R[k].nelems = L[k].nelems
                             /\ L[k] \in WholeDims => R[k] \in WholeDims
    BY <1>5, <1>6, <1>7, <1>8 DEF d
<1>10. NumElements(R) = NumElements(L)
    <2>1. DOMAIN R = 1 .. Len(L) /\ DOMAIN L = 1 .. Len(L)  BY <1>1, <1>8
    <2>2. Sizes(R) = [k \in 1 .. Len(L) |-> Size(R[k])]  BY <2>1 DEF Sizes
    <2>3. Sizes(L) = [k \in 1 .. Len(L) |-> Size(L[k])]  BY <2>1 DEF Sizes
    <2>4. \A k \in 1 .. Len(L) : Size(R[k]) = Size(L[k])  BY <1>9
    <2>5. Sizes(R) = Sizes(L)  BY <2>2, <2>3, <2>4
    <2> QED BY <2>5 DEF NumElements
<1>11. Dense(L) => Dense(R)
    <2> SUFFICES ASSUME Dense(L) PROVE Dense(R)
        OBVIOUS
    <2>1. \A k \in 1 .. Len(L) - 1 : k \in 1 .. Len(L) /\ k + 1 \in 1 .. Len(L)  BY <1>1
    <2>2. Len(L) \in 1 .. Len(L)  BY <1>1
    <2>3. \A k \in 1 .. Len(R) : R[k] \in WholeDims /\ Size(R[k]) > 0  BY <1>8, <1>9 DEF Dense
    <2>4. \A k \in 1 .. Len(R) - 1 : R[k].stride = R[k + 1].nelems  BY <1>8, <1>9, <2>1 DEF Dense
    <2>5. Len(R) > 0 => R[Len(R)].stride = 1  BY <1>1, <1>8, <1>9, <2>2 DEF Dense
    <2> QED BY <2>3, <2>4, <2>5 DEF Dense
<1> QED BY <1>8, <1>10, <1>11 DEF ArrayLayouts

=============================================================================
