----------------------------- MODULE ViewsProofs ----------------------------
(***************************************************************************)
(* What holds of every view, for every shape, first index, step and rank.  *)
(* The inductive invariant says that a layout is a sequence of whole       *)
(* dimensions: one that holds an exact number of strides.  It is what      *)
(* makes every division of the code exact, and from it follow the laws     *)
(* that say which element of the old view an index of the new one names.   *)
(* They are the laws of Grid: Views implements it.                         *)
(***************************************************************************)
EXTENDS Views, LayoutProofs, FiniteSetTheorems

(***************************************************************************)
(* One dimension: what the operations make of it.                          *)
(***************************************************************************)
(* Dividing nelems_ by the size and multiplying by the length is exact. *)
LEMMA SliceDim ==
    ASSUME NEW d \in WholeDims, Size(d) > 0, NEW n \in Nat
    PROVE  /\ Quot(d.nelems, Size(d)) * n = n * d.stride
           /\ Resize(d, n) \in WholeDims
           /\ Size(Resize(d, n)) = n
<1> DEFINE e == Resize(d, n)
<1>1. /\ d \in Dims /\ d.stride \in Nat \ {0} /\ Size(d) \in Nat \ {0}
      /\ d.nelems = d.stride * Size(d)
      /\ Quot(d.offset, d.stride) \in Int
      /\ d.offset = Quot(d.offset, d.stride) * d.stride
    BY WholeDimFacts
<1>2. Quot(d.nelems, Size(d)) = d.stride
    <2>1. d.stride \in Int /\ Size(d) \in Nat \ {0}  BY <1>1
    <2>2. Quot(d.stride * Size(d), Size(d)) = d.stride  BY <2>1, QuotExact
    <2> QED BY <1>1, <2>2
<1>3. Quot(d.nelems, Size(d)) * n = n * d.stride  BY <1>1, <1>2
<1>4. e = Dim(d.stride, Quot(d.offset, d.stride) * d.stride, n * d.stride)
    BY <1>1, <1>3 DEF Resize, Dim, Dims
<1>5. e \in WholeDims  BY <1>1, <1>4, MakeWhole
<1>6. Size(e) = n
    <2>1. e.nelems = n * d.stride /\ e.stride = d.stride  BY <1>4 DEF Dim
    <2>2. Quot(n * d.stride, d.stride) = n
        <3>1. n \in Int /\ d.stride \in Nat \ {0}  BY <1>1
        <3> QED BY <3>1, QuotExact
    <2>3. n * d.stride = 0 => n = 0  BY <1>1
    <2> QED BY <2>1, <2>2, <2>3 DEF Size
<1> QED BY <1>3, <1>5, <1>6

(* A step that divides the size and the first index leaves no remainder. *)
LEMMA StrideDim ==
    ASSUME NEW d \in WholeDims, NEW s \in Nat \ {0},
           Size(d) % s = 0, Quot(d.offset, d.stride) % s = 0
    PROVE  [d EXCEPT !.stride = @ * s] \in WholeDims
<1>1. /\ d \in Dims /\ d.stride \in Nat \ {0} /\ Size(d) \in Nat
      /\ d.nelems = Size(d) * d.stride
      /\ Quot(d.offset, d.stride) \in Int
      /\ d.offset = Quot(d.offset, d.stride) * d.stride
    BY WholeDimFacts
<1>2. PICK n \in Nat : Size(d) = n * s
    <2>1. Size(d) = (Size(d) \div s) * s
        <3>1. Size(d) \in Int  BY <1>1
        <3> QED BY <3>1, Multiple
    <2>2. Size(d) \div s \in Nat  BY <1>1
    <2> QED BY <2>1, <2>2
<1>3. PICK o \in Int : Quot(d.offset, d.stride) = o * s
    <2>1. Quot(d.offset, d.stride) = (Quot(d.offset, d.stride) \div s) * s  BY <1>1, Multiple
    <2>2. Quot(d.offset, d.stride) \div s \in Int  BY <1>1
    <2> QED BY <2>1, <2>2
<1>4. d.stride * s \in Nat \ {0}  BY <1>1
<1>5. d.nelems = n * (d.stride * s)
    <2>1. d.nelems = (n * s) * d.stride  BY <1>1, <1>2
    <2> QED BY <1>1, <2>1
<1>6. d.offset = o * (d.stride * s)
    <2>1. d.offset = (o * s) * d.stride  BY <1>1, <1>3
    <2> QED BY <1>1, <2>1
<1>7. [d EXCEPT !.stride = @ * s] = Dim(d.stride * s, o * (d.stride * s), n * (d.stride * s))
    BY <1>1, <1>5, <1>6 DEF Dim, Dims
<1> QED BY <1>4, <1>7, MakeWhole

(* Parts of a size that divides: the new dimension and the shortened one are whole. *)
LEMMA PartitionDim ==
    ASSUME NEW d \in WholeDims, NEW s \in Nat \ {0}, Size(d) > 0, Size(d) % s = 0
    PROVE  /\ Quot(d.nelems, s) = (Size(d) \div s) * d.stride
           /\ Size(d) \div s \in Nat \ {0}
           /\ Dim(Quot(d.nelems, s), 0, d.nelems) \in WholeDims
           /\ [d EXCEPT !.nelems = Quot(@, s)] \in WholeDims
<1> DEFINE p == Size(d) \div s
<1>1. /\ d \in Dims /\ d.stride \in Nat \ {0} /\ Size(d) \in Nat
      /\ d.nelems = Size(d) * d.stride
      /\ Quot(d.offset, d.stride) \in Int
      /\ d.offset = Quot(d.offset, d.stride) * d.stride
    BY WholeDimFacts
<1>2. p \in Nat /\ Size(d) = p * s
    <2>1. Size(d) \in Int  BY <1>1
    <2>2. Size(d) = (Size(d) \div s) * s  BY <2>1, Multiple
    <2>3. Size(d) \div s \in Nat  BY <1>1
    <2> QED BY <2>2, <2>3
<1>3. p # 0  BY <1>2
<1> HIDE DEF p
<1>4. d.nelems = (p * d.stride) * s
    <2>1. d.nelems = (p * s) * d.stride  BY <1>1, <1>2
    <2> QED BY <1>1, <1>2, <2>1
<1>5. p * d.stride \in Nat \ {0}  BY <1>1, <1>2, <1>3
<1>6. Quot(d.nelems, s) = p * d.stride
    <2>1. p * d.stride \in Int  BY <1>5
    <2>2. Quot((p * d.stride) * s, s) = p * d.stride  BY <2>1, QuotExact
    <2> QED BY <1>4, <2>2
<1>7. Dim(Quot(d.nelems, s), 0, d.nelems) \in WholeDims
    <2>1. d.nelems = s * (p * d.stride)  BY <1>4, <1>5
    <2>2. Dim(p * d.stride, 0 * (p * d.stride), s * (p * d.stride)) \in WholeDims
        <3>1. s \in Nat /\ 0 \in Int  OBVIOUS
        <3> QED BY <1>5, <3>1, MakeWhole
    <2>3. 0 * (p * d.stride) = 0  BY <1>5
    <2> QED BY <1>6, <2>1, <2>2, <2>3
<1>8. [d EXCEPT !.nelems = Quot(@, s)] \in WholeDims
    <2>1. [d EXCEPT !.nelems = Quot(@, s)]
             = Dim(d.stride, Quot(d.offset, d.stride) * d.stride, p * d.stride)
        BY <1>1, <1>6 DEF Dim, Dims
    <2> QED BY <1>1, <1>2, <2>1, MakeWhole
<1>9. p = Size(d) \div s  BY DEF p
<1> QED BY <1>2, <1>3, <1>6, <1>7, <1>8, <1>9

(***************************************************************************)
(* Renaming: every tuple of indices of a view names the element that some  *)
(* tuple of another view names, and no two tuples the same one.            *)
(***************************************************************************)
RenamesBy(w, v, old) ==
    /\ old \in [Names(w.layout) -> Names(v.layout)]
    /\ \A ix \in Names(w.layout) : Address(w, ix) = Address(v, old[ix])
    /\ \A ix, jx \in Names(w.layout) : old[ix] = old[jx] => ix = jx

Renames(w, v) == \E old : RenamesBy(w, v, old)

(* What a view becomes: its extensions, and which index of the old view one of its own is. *)
Becomes(w, v, xs, old) == RenamesBy(w, v, old) /\ Extensions(w.layout) = xs

LEMMA RenamesSome ==
    ASSUME NEW v, NEW w, NEW old, RenamesBy(w, v, old)
    PROVE  Renames(w, v)
BY DEF Renames

LEMMA BecomesSome ==
    ASSUME NEW v, NEW w, NEW xs, NEW old, Becomes(w, v, xs, old)
    PROVE  Renames(w, v)
BY RenamesSome DEF Becomes

(* A view of a root of so many elements: each tuple names one of them, none two of them. *)
Faithful(v, elements) ==
    /\ \A ix \in Names(v.layout) : Address(v, ix) \in 0 .. elements - 1
    /\ \A ix, jx \in Names(v.layout) : Address(v, ix) = Address(v, jx) => ix = jx

LEMMA RenamesFaithful ==
    ASSUME NEW v, NEW w, NEW elements, Renames(w, v), Faithful(v, elements)
    PROVE  Faithful(w, elements)
<1>1. PICK old : RenamesBy(w, v, old)  BY DEF Renames
<1> QED BY <1>1 DEF RenamesBy, Faithful

(* Renamings follow one another. *)
LEMMA RenamesByThen ==
    ASSUME NEW v, NEW w, NEW u, NEW f, NEW g, RenamesBy(w, v, f), RenamesBy(u, w, g)
    PROVE  RenamesBy(u, v, [ix \in Names(u.layout) |-> f[g[ix]]])
<1> DEFINE old == [ix \in Names(u.layout) |-> f[g[ix]]]
<1>1. /\ f \in [Names(w.layout) -> Names(v.layout)]
      /\ \A ix \in Names(w.layout) : Address(w, ix) = Address(v, f[ix])
      /\ \A ix, jx \in Names(w.layout) : f[ix] = f[jx] => ix = jx
    BY DEF RenamesBy
<1>2. /\ g \in [Names(u.layout) -> Names(w.layout)]
      /\ \A ix \in Names(u.layout) : Address(u, ix) = Address(w, g[ix])
      /\ \A ix, jx \in Names(u.layout) : g[ix] = g[jx] => ix = jx
    BY DEF RenamesBy
<1>3. old \in [Names(u.layout) -> Names(v.layout)]  BY <1>1, <1>2
<1>4. \A ix \in Names(u.layout) : Address(u, ix) = Address(v, old[ix])  BY <1>1, <1>2
<1>5. \A ix, jx \in Names(u.layout) : old[ix] = old[jx] => ix = jx  BY <1>1, <1>2
<1> HIDE DEF old
<1>6. RenamesBy(u, v, old)  BY <1>3, <1>4, <1>5 DEF RenamesBy
<1> QED BY <1>6 DEF old

LEMMA RenamesThen ==
    ASSUME NEW v, NEW w, NEW u, Renames(w, v), Renames(u, w)
    PROVE  Renames(u, v)
<1>1. PICK f : RenamesBy(w, v, f)  BY DEF Renames
<1>2. PICK g : RenamesBy(u, w, g)  BY DEF Renames
<1>3. RenamesBy(u, v, [ix \in Names(u.layout) |-> f[g[ix]]])  BY <1>1, <1>2, RenamesByThen
<1> QED BY <1>3, RenamesSome

LEMMA RenamesItself == ASSUME NEW v PROVE RenamesBy(v, v, [ix \in Names(v.layout) |-> ix])
BY DEF RenamesBy

(* Whole dimensions are dimensions of arrays, and so are layouts. *)
LEMMA WholeLayouts ==
    ASSUME NEW L \in Seq(WholeDims)
    PROVE  L \in Seq(ArrayDims) /\ L \in Seq(Dims)
<1>1. \A d \in WholeDims : d \in ArrayDims /\ d \in Dims
    BY WholeDimFacts DEF ArrayDims, WholeDims
<1> QED BY <1>1

(* Two names of a layout cut at the same dimension are equal part by part. *)
LEMMA SameNames ==
    ASSUME NEW L \in Seq(ArrayDims), NEW M \in Seq(ArrayDims),
           NEW gx \in Names(L), NEW kx \in Names(L), NEW rx \in Names(M), NEW sx \in Names(M),
           Alike(gx, rx, kx, sx)
    PROVE  gx = kx /\ rx = sx
<1>1. /\ gx \in Seq(Int) /\ Len(gx) = Len(L) /\ kx \in Seq(Int) /\ Len(kx) = Len(L)
      /\ rx \in Seq(Int) /\ Len(rx) = Len(M) /\ sx \in Seq(Int) /\ Len(sx) = Len(M)
    BY NamesAre DEF IsName
<1>2. Len(gx) = Len(kx) /\ Len(rx) = Len(sx)  BY <1>1
<1> QED BY <1>1, <1>2, SameParts

(* The leading dimensions are renamed, and the others stay as they are. *)
Former(jx, n) == SubSeq(jx, 1, n)
Latter(jx, n) == SubSeq(jx, n + 1, Len(jx))
Carried(h, G, R) == [jx \in Names(G \o R) |-> h[Former(jx, Len(G))] \o Latter(jx, Len(G))]

Maps(h, G, F, c, b) ==
    /\ h \in [Names(G) -> Names(F)]
    /\ \A gx \in Names(G) : c + Position(G, gx) = b + Position(F, h[gx])
    /\ \A gx, kx \in Names(G) : h[gx] = h[kx] => gx = kx

LEMMA FrontRenames ==
    ASSUME NEW F \in Seq(WholeDims), NEW G \in Seq(WholeDims), NEW R \in Seq(WholeDims),
           NEW b \in Int, NEW c \in Int, NEW h, Maps(h, G, F, c, b)
    PROVE  RenamesBy(View(c, G \o R), View(b, F \o R), Carried(h, G, R))
<1>0. /\ h \in [Names(G) -> Names(F)]
      /\ \A gx \in Names(G) : c + Position(G, gx) = b + Position(F, h[gx])
      /\ \A gx, kx \in Names(G) : h[gx] = h[kx] => gx = kx
    BY DEF Maps
<1> DEFINE Fore(jx) == SubSeq(jx, 1, Len(G))
           Rear(jx) == SubSeq(jx, Len(G) + 1, Len(jx))
           old == [jx \in Names(G \o R) |-> h[Fore(jx)] \o Rear(jx)]
<1>1. /\ F \in Seq(ArrayDims) /\ G \in Seq(ArrayDims) /\ R \in Seq(ArrayDims)
      /\ F \in Seq(Dims) /\ G \in Seq(Dims) /\ R \in Seq(Dims)
    BY WholeLayouts
<1>2. ASSUME NEW jx \in Names(G \o R)
      PROVE  Fore(jx) \in Names(G) /\ Rear(jx) \in Names(R) /\ jx = Fore(jx) \o Rear(jx)
    BY <1>1, <1>2, NamesSplit
<1> HIDE DEF Fore, Rear
<1>3. ASSUME NEW jx \in Names(G \o R)
      PROVE  h[Fore(jx)] \o Rear(jx) \in Names(F \o R)
    <2>1. h[Fore(jx)] \in Names(F)  BY <1>0, <1>2
    <2> QED BY <1>1, <1>2, <2>1, NamesJoin
<1>4. old \in [Names(G \o R) -> Names(F \o R)]  BY <1>3
<1>5. ASSUME NEW M \in Seq(ArrayDims), M \in Seq(Dims), NEW gx \in Names(M), NEW rx \in Names(R)
      PROVE  /\ Position(M \o R, gx \o rx) = Position(M, gx) + Position(R, rx)
             /\ gx \in Seq(Int) /\ Len(gx) = Len(M)
             /\ Position(M, gx) \in Int /\ Position(R, rx) \in Int
    <2>1. gx \in Seq(Int) /\ Len(gx) = Len(M)  BY <1>5, NamesAre DEF IsName
    <2>2. rx \in Seq(Int) /\ Len(rx) = Len(R)  BY <1>1, NamesAre DEF IsName
    <2>3. \A n \in Nat : \A L \in Seq(Dims) : \A ix \in Seq(Int) :
             Len(L) = n /\ Len(ix) = n => Position(L \o R, ix \o rx) = Position(L, ix) + Position(R, rx)
        BY <1>1, <2>2, PositionJoin
    <2>4. Len(M) \in Nat  OBVIOUS
    <2>5. Position(M \o R, gx \o rx) = Position(M, gx) + Position(R, rx)
        BY <1>5, <2>1, <2>3, <2>4
    <2>6. Len(gx) <= Len(M) /\ Len(rx) <= Len(R)  BY <2>1, <2>2
    <2>7. Position(M, gx) \in Int /\ Position(R, rx) \in Int
        BY <1>1, <1>5, <2>1, <2>2, <2>6, PositionInt
    <2> QED BY <2>1, <2>5, <2>7
<1>6. ASSUME NEW jx \in Names(G \o R)
      PROVE  Address(View(c, G \o R), jx) = Address(View(b, F \o R), old[jx])
    <2> DEFINE gx == Fore(jx)
               rx == Rear(jx)
    <2>1. gx \in Names(G) /\ rx \in Names(R) /\ jx = gx \o rx /\ h[gx] \in Names(F)  BY <1>0, <1>2
    <2>2. old[jx] = h[gx] \o rx  OBVIOUS
    <2> HIDE DEF old, gx, rx
    <2>3. Position(G \o R, gx \o rx) = Position(G, gx) + Position(R, rx)
          /\ Position(G, gx) \in Int /\ Position(R, rx) \in Int
        BY <1>1, <1>5, <2>1
    <2>4. Position(F \o R, h[gx] \o rx) = Position(F, h[gx]) + Position(R, rx)
          /\ Position(F, h[gx]) \in Int
        BY <1>1, <1>5, <2>1
    <2>5. c + Position(G, gx) = b + Position(F, h[gx])  BY <1>0, <2>1
    <2>6. Position(G \o R, jx) = Position(G, gx) + Position(R, rx)  BY <2>1, <2>3, Zenon
    <2>7. Position(F \o R, old[jx]) = Position(F, h[gx]) + Position(R, rx)  BY <2>2, <2>4, Zenon
    <2>8. c + Position(G \o R, jx) = b + Position(F \o R, old[jx])
        <3> DEFINE g == Position(G, gx)
                   f == Position(F, h[gx])
                   r == Position(R, rx)
        <3>1. g \in Int /\ f \in Int /\ r \in Int  BY <2>3, <2>4
        <3>2. c + g = b + f  BY <2>5
        <3> HIDE DEF f, g, r
        <3>3. c + (g + r) = b + (f + r)  BY <3>1, <3>2
        <3> QED BY <2>6, <2>7, <3>3, Zenon DEF f, g, r
    <2> QED BY <2>8 DEF Address, View
<1>7. ASSUME NEW jx \in Names(G \o R), NEW kx \in Names(G \o R), old[jx] = old[kx]
      PROVE  jx = kx
    <2>1. h[Fore(jx)] \o Rear(jx) = h[Fore(kx)] \o Rear(kx)  BY <1>7
    <2>2. /\ Fore(jx) \in Names(G) /\ Rear(jx) \in Names(R) /\ jx = Fore(jx) \o Rear(jx)
          /\ Fore(kx) \in Names(G) /\ Rear(kx) \in Names(R) /\ kx = Fore(kx) \o Rear(kx)
        BY <1>2
    <2>3. h[Fore(jx)] \in Names(F) /\ h[Fore(kx)] \in Names(F)  BY <1>0, <2>2
    <2>4. Alike(h[Fore(jx)], Rear(jx), h[Fore(kx)], Rear(kx))  BY <2>1 DEF Alike
    <2>6. h[Fore(jx)] = h[Fore(kx)] /\ Rear(jx) = Rear(kx)
        BY <1>1, <2>2, <2>3, <2>4, SameNames
    <2>7. Fore(jx) = Fore(kx)  BY <1>0, <2>2, <2>6
    <2> QED BY <2>2, <2>6, <2>7
<1> HIDE DEF old
<1>8. View(c, G \o R).layout = G \o R /\ View(b, F \o R).layout = F \o R  BY DEF View
<1>9. RenamesBy(View(c, G \o R), View(b, F \o R), old)  BY <1>4, <1>6, <1>7, <1>8 DEF RenamesBy
<1> QED BY <1>9 DEF old, Fore, Rear, Former, Latter, Carried

(* A whole dimension: its stride, its first index and how many indices it has. *)
Rows(s, o, n) == Dim(s, o * s, n * s)

LEMMA RowsFacts ==
    ASSUME NEW s \in Nat \ {0}, NEW o \in Int, NEW n \in Nat
    PROVE  /\ Rows(s, o, n) \in WholeDims
           /\ Size(Rows(s, o, n)) = n
           /\ Quot(o * s, s) = o
           /\ Indices(Extension(Rows(s, o, n))) = o .. o + n - 1
           /\ n > 0 => Extension(Rows(s, o, n)) = <<o, o + n>>
           /\ Extension(Rows(s, o, n)) = Promise!From(o, n)
           /\ \A i \in Int : Shift(Rows(s, o, n), i) = (i - o) * s
<1> DEFINE d == Rows(s, o, n)
<1>1. d \in WholeDims /\ d.stride = s /\ d.offset = o * s /\ d.nelems = n * s
    BY MakeWhole DEF Rows, Dim
<1>2. Quot(o * s, s) = o /\ Quot(n * s, s) = n  BY QuotExact
<1>3. Size(d) = n /\ (n = 0 <=> d.nelems = 0)
    <2>1. n * s = 0 <=> n = 0  OBVIOUS
    <2> QED BY <1>1, <1>2, <2>1 DEF Size
<1>4. n > 0 => Extension(d) = <<o, o + n>>
    <2> HIDE DEF d
    <2>1. Size(d) > 0 => Extension(d) = <<Quot(d.offset, d.stride), Quot(d.offset, d.stride) + Size(d)>>
        BY <1>1, WholeDimFacts
    <2> QED BY <1>1, <1>2, <1>3, <2>1
<1>5. Indices(Extension(d)) = o .. o + n - 1
    <2>1. CASE n > 0  BY <1>4, <2>1 DEF Indices
    <2>2. CASE n = 0
        <3>1. Extension(d) = <<0, 0>>  BY <1>3, <2>2 DEF Extension
        <3>2. Indices(Extension(d)) = {}  BY <3>1 DEF Indices
        <3>3. o .. o + n - 1 = {}  BY <2>2
        <3> QED BY <3>2, <3>3
    <2> QED BY <2>1, <2>2
<1>6. \A i \in Int : Shift(d, i) = (i - o) * s
    <2> SUFFICES ASSUME NEW i \in Int PROVE Shift(d, i) = (i - o) * s
        OBVIOUS
    <2>1. (i - o) * s = i * s - o * s  OBVIOUS
    <2> QED BY <1>1, <2>1 DEF Shift
<1>7. Extension(d) = Promise!From(o, n)
    <2>1. CASE n > 0  BY <1>4, <2>1 DEF Promise!From
    <2>2. CASE n = 0
        <3>1. Extension(d) = <<0, 0>>  BY <1>3, <2>2 DEF Extension
        <3> QED BY <2>2, <3>1 DEF Promise!From
    <2> QED BY <2>1, <2>2
<1> QED BY <1>1, <1>2, <1>3, <1>4, <1>5, <1>6, <1>7

IsRows(d, s, o, n) ==
    /\ d = Rows(s, o, n)
    /\ d \in WholeDims /\ d.stride = s /\ d.offset = o * s /\ d.nelems = n * s
    /\ Size(d) = n
    /\ Quot(d.offset, d.stride) = o
    /\ Indices(Extension(d)) = o .. o + n - 1
    /\ n > 0 => Extension(d) = <<o, o + n>>
    /\ Extension(d) = Promise!From(o, n)
    /\ \A i \in Int : Shift(d, i) = (i - o) * s

LEMMA RowsAre ==
    ASSUME NEW s \in Nat \ {0}, NEW o \in Int, NEW n \in Nat, NEW d, d = Rows(s, o, n)
    PROVE  IsRows(d, s, o, n)
<1>1. IsRows(Rows(s, o, n), s, o, n)
    <2>1. Rows(s, o, n).stride = s /\ Rows(s, o, n).offset = o * s /\ Rows(s, o, n).nelems = n * s
        BY DEF Rows, Dim
    <2> QED BY <2>1, RowsFacts, SMTT(30) DEF IsRows
<1> QED BY <1>1, Zenon

LEMMA RowsCount ==
    ASSUME NEW d, NEW s \in Nat \ {0}, NEW o \in Int, NEW n \in Nat, IsRows(d, s, o, n)
    PROVE  /\ Count(Extension(d)) = n
           /\ n > 0 => Extension(d)[1] = o
           /\ n = 0 => Extension(d) = <<0, 0>>
<1>1. Extension(d) = Promise!From(o, n)  BY DEF IsRows
<1>2. CASE n > 0
    <2>1. Extension(d) = <<o, o + n>>  BY <1>1, <1>2 DEF Promise!From
    <2>2. (o + n) - o = n  OBVIOUS
    <2> QED BY <1>2, <2>1, <2>2 DEF Count
<1>3. CASE n = 0
    <2>1. Extension(d) = <<0, 0>>  BY <1>1, <1>3 DEF Promise!From
    <2> QED BY <1>3, <2>1 DEF Count
<1> QED BY <1>2, <1>3

LEMMA WholeRows ==
    ASSUME NEW d \in WholeDims
    PROVE  \E s \in Nat \ {0}, o \in Int, n \in Nat : IsRows(d, s, o, n)
<1> DEFINE o == Quot(d.offset, d.stride)
           n == Size(d)
<1>1. /\ d \in Dims /\ d.stride \in Nat \ {0} /\ n \in Nat /\ d.nelems = n * d.stride
      /\ o \in Int /\ d.offset = o * d.stride
    BY WholeDimFacts
<1>2. d = [stride |-> d.stride, offset |-> d.offset, nelems |-> d.nelems]  BY <1>1 DEF Dims
<1> HIDE DEF o, n
<1>3. d = Rows(d.stride, o, n)  BY <1>1, <1>2 DEF Rows, Dim
<1>4. IsRows(d, d.stride, o, n)  BY <1>1, <1>3, RowsAre, Zenon
<1> QED BY <1>1, <1>4

(* The extensions of a layout are those of its parts. *)
LEMMA ExtensionsJoin ==
    ASSUME NEW G \in Seq(WholeDims), NEW R \in Seq(WholeDims)
    PROVE  Extensions(G \o R) = Extensions(G) \o Extensions(R)
<1> DEFINE M == G \o R
<1>1. /\ M \in Seq(WholeDims) /\ Len(M) = Len(G) + Len(R)
      /\ Len(G) \in Nat /\ Len(R) \in Nat
      /\ \A k \in 1 .. Len(G) : M[k] = G[k]
      /\ \A k \in 1 .. Len(R) : M[Len(G) + k] = R[k]
    BY ONLY G \in Seq(WholeDims), R \in Seq(WholeDims), JoinFacts
<1> HIDE DEF M
<1>2. M \in Seq(ArrayDims) /\ G \in Seq(ArrayDims) /\ R \in Seq(ArrayDims)  BY <1>1, WholeLayouts
<1>3. /\ Extensions(G) \in Seq(Intervals) /\ Len(Extensions(G)) = Len(G)
      /\ \A k \in 1 .. Len(G) : Extensions(G)[k] = Extension(G[k])
    BY <1>2, ExtensionsFacts
<1>4. /\ Extensions(R) \in Seq(Intervals) /\ Len(Extensions(R)) = Len(R)
      /\ \A k \in 1 .. Len(R) : Extensions(R)[k] = Extension(R[k])
    BY <1>2, ExtensionsFacts
<1>5. /\ Extensions(M) \in Seq(Intervals) /\ Len(Extensions(M)) = Len(M)
      /\ \A k \in 1 .. Len(M) : Extensions(M)[k] = Extension(M[k])
    BY <1>2, ExtensionsFacts
<1> DEFINE x == Extensions(G)
           y == Extensions(R)
           z == Extensions(M)
<1> HIDE DEF x, y, z
<1>6. /\ x \o y \in Seq(Intervals) /\ Len(x \o y) = Len(G) + Len(R)
      /\ \A k \in 1 .. Len(G) : (x \o y)[k] = x[k]
      /\ \A k \in 1 .. Len(R) : (x \o y)[Len(G) + k] = y[k]
    <2>1. x \in Seq(Intervals) /\ y \in Seq(Intervals) /\ Len(x) = Len(G) /\ Len(y) = Len(R)
        BY <1>3, <1>4 DEF x, y
    <2> QED BY <2>1, JoinFacts
<1>7. \A k \in 1 .. Len(M) : z[k] = (x \o y)[k]
    <2> SUFFICES ASSUME NEW k \in 1 .. Len(M) PROVE z[k] = (x \o y)[k]
        OBVIOUS
    <2>1. z[k] = Extension(M[k])  BY <1>5 DEF z
    <2>2. CASE k \in 1 .. Len(G)  BY <1>1, <1>3, <1>6, <2>1, <2>2 DEF x
    <2>3. CASE k \notin 1 .. Len(G)
        <3>1. k - Len(G) \in 1 .. Len(R) /\ Len(G) + (k - Len(G)) = k  BY <1>1, <2>3
        <3>2. M[k] = R[k - Len(G)] /\ (x \o y)[k] = y[k - Len(G)]  BY <1>1, <1>6, <3>1
        <3> QED BY <1>4, <2>1, <3>1, <3>2 DEF y
    <2> QED BY <2>2, <2>3
<1>8. z = x \o y
    <2>1. z \in Seq(Intervals) /\ x \o y \in Seq(Intervals) /\ Len(z) = Len(M) /\ Len(x \o y) = Len(M)
        BY <1>1, <1>5, <1>6 DEF z
    <2> DEFINE w == x \o y
    <2> HIDE DEF w
    <2>2. w \in Seq(Intervals) /\ Len(w) = Len(M) /\ \A k \in 1 .. Len(M) : z[k] = w[k]
        BY <1>7, <2>1 DEF w
    <2>3. z = w  BY ONLY <2>1, <2>2
    <2> QED BY <2>3 DEF w
<1> QED BY <1>8 DEF x, y, z, M

(* Sequences that agree everywhere. *)
Agree(s, t) == Len(s) = Len(t) /\ \A k \in 1 .. Len(s) : s[k] = t[k]

LEMMA SameSequence ==
    ASSUME NEW D, NEW s \in Seq(D), NEW t \in Seq(D), Agree(s, t)
    PROVE  s = t
BY DEF Agree

(* A name of one dimension in front of others, of two, and of none. *)
Joint(jx, gx, rx) == jx = gx \o rx

LEMMA CutFacts ==
    ASSUME NEW D, NEW gx \in Seq(D), NEW rx \in Seq(D), NEW jx, Joint(jx, gx, rx)
    PROVE  /\ Len(gx) = 0 => gx = <<>> /\ jx = rx
           /\ Len(gx) = 1 => gx = <<jx[1]>> /\ rx = Tail(jx) /\ Head(jx) = jx[1]
           /\ Len(gx) = 2 => gx = <<jx[1], jx[2]>> /\ rx = Tail(Tail(jx)) /\ rx = SubSeq(jx, 3, Len(jx))
<1>1. /\ jx \in Seq(D) /\ Len(jx) = Len(gx) + Len(rx)
      /\ Len(gx) \in Nat /\ Len(rx) \in Nat
      /\ \A k \in 1 .. Len(gx) : jx[k] = gx[k]
      /\ \A k \in 1 .. Len(rx) : jx[Len(gx) + k] = rx[k]
    <2>1. /\ gx \o rx \in Seq(D) /\ Len(gx \o rx) = Len(gx) + Len(rx)
          /\ Len(gx) \in Nat /\ Len(rx) \in Nat
          /\ \A k \in 1 .. Len(gx) : (gx \o rx)[k] = gx[k]
          /\ \A k \in 1 .. Len(rx) : (gx \o rx)[Len(gx) + k] = rx[k]
        BY ONLY gx \in Seq(D), rx \in Seq(D), JoinFacts
    <2> QED BY <2>1 DEF Joint
<1>2. ASSUME Len(gx) = 0 PROVE gx = <<>> /\ jx = rx
    <2>1. gx = <<>>  BY <1>2
    <2> QED BY <2>1 DEF Joint
<1>3. ASSUME Len(gx) = 1 PROVE gx = <<jx[1]>> /\ rx = Tail(jx) /\ Head(jx) = jx[1]
    <2>1. gx = <<gx[1]>> /\ jx[1] = gx[1]  BY <1>1, <1>3
    <2>2. Tail(jx) \in Seq(D) /\ Len(Tail(jx)) = Len(rx) /\ \A k \in 1 .. Len(rx) : Tail(jx)[k] = jx[1 + k]
        BY <1>1, <1>3
    <2>3. \A k \in 1 .. Len(rx) : Tail(jx)[k] = rx[k]  BY <1>1, <1>3, <2>2
    <2>4. rx = Tail(jx)
        <3> DEFINE t == Tail(jx)
        <3> HIDE DEF t
        <3>1. t \in Seq(D) /\ Len(t) = Len(rx) /\ \A k \in 1 .. Len(rx) : t[k] = rx[k]
            BY <2>2, <2>3 DEF t
        <3>2. Agree(rx, t)  BY <3>1 DEF Agree
        <3>3. rx = t  BY <3>1, <3>2, SameSequence
        <3> QED BY <3>3 DEF t
    <2>5. Head(jx) = jx[1]  BY <1>1, <1>3
    <2> QED BY <2>1, <2>4, <2>5
<1>4. ASSUME Len(gx) = 2 PROVE gx = <<jx[1], jx[2]>> /\ rx = Tail(Tail(jx)) /\ rx = SubSeq(jx, 3, Len(jx))
    <2>0. 1 \in 1 .. Len(gx) /\ 2 \in 1 .. Len(gx)  BY <1>4
    <2>1. gx = <<gx[1], gx[2]>> /\ jx[1] = gx[1] /\ jx[2] = gx[2]  BY <1>1, <1>4, <2>0
    <2>3. rx = Tail(Tail(jx))
        <3> DEFINE u == Tail(jx)
                   t == Tail(u)
        <3>1. u \in Seq(D) /\ Len(u) = Len(rx) + 1 /\ \A k \in 1 .. Len(rx) + 1 : u[k] = jx[k + 1]
            BY <1>1, <1>4
        <3> HIDE DEF u
        <3>2. t \in Seq(D) /\ Len(t) = Len(rx) /\ \A k \in 1 .. Len(rx) : t[k] = u[k + 1]
            BY <1>1, <3>1
        <3> HIDE DEF t
        <3>3. \A k \in 1 .. Len(rx) : t[k] = rx[k]
            <4> SUFFICES ASSUME NEW k \in 1 .. Len(rx) PROVE t[k] = rx[k]
                OBVIOUS
            <4>1. k + 1 \in 1 .. Len(rx) + 1 /\ (k + 1) + 1 = 2 + k  BY <1>1
            <4>2. jx[2 + k] = rx[k]  BY <1>1, <1>4
            <4> QED BY <3>1, <3>2, <4>1, <4>2
        <3>4. Agree(rx, t)  BY <3>2, <3>3 DEF Agree
        <3>5. rx = t  BY <3>2, <3>4, SameSequence
        <3> QED BY <3>5 DEF t, u
    <2>4. rx = SubSeq(jx, 3, Len(jx))
        <3> DEFINE t == SubSeq(jx, 3, Len(jx))
        <3>0. t = SubSeq(jx, 3, Len(jx))  OBVIOUS
        <3> HIDE DEF t
        <3>1. t \in Seq(D) /\ Len(t) = Len(rx) /\ \A k \in 1 .. Len(rx) : t[k] = jx[2 + k]
            <4> DEFINE n == Len(rx)
            <4>0. n \in Nat /\ Len(jx) = n + 2 /\ jx \in Seq(D)  BY <1>1, <1>4
            <4> HIDE DEF n
            <4>1. CASE n = 0
                <5>1. SubSeq(jx, 3, 2) = <<>>  BY <4>0
                <5>2. t = <<>>  BY <3>0, <4>0, <4>1, <5>1
                <5>3. <<>> \in Seq(D) /\ Len(<<>>) = 0 /\ 1 .. 0 = {}  OBVIOUS
                <5> QED BY <4>1, <5>2, <5>3 DEF n
            <4>2. CASE n > 0
                <5>1. SubSeq(jx, 3, n + 2) \in Seq(D) /\ Len(SubSeq(jx, 3, n + 2)) = n + 2 - 3 + 1
                      /\ \A k \in 1 .. n + 2 - 3 + 1 : SubSeq(jx, 3, n + 2)[k] = jx[3 + k - 1]
                    BY <4>0, <4>2
                <5>2. n + 2 - 3 + 1 = n /\ \A k \in 1 .. n : 3 + k - 1 = 2 + k  BY <4>0
                <5> QED BY <3>0, <4>0, <5>1, <5>2 DEF n
            <4>3. n = 0 \/ n > 0  BY <4>0
            <4> QED BY <4>1, <4>2, <4>3, Zenon
        <3>2. \A k \in 1 .. Len(rx) : t[k] = rx[k]  BY <1>1, <1>4, <3>1
        <3>3. Agree(rx, t)  BY <3>1, <3>2 DEF Agree
        <3>4. rx = t  BY <3>1, <3>3, SameSequence
        <3> QED BY <3>4 DEF t
    <2> QED BY <2>1, <2>3, <2>4
<1> QED BY <1>2, <1>3, <1>4

LEMMA CutName ==
    ASSUME NEW G \in Seq(WholeDims), NEW R \in Seq(WholeDims), NEW jx \in Names(G \o R)
    PROVE  /\ Former(jx, Len(G)) \in Names(G) /\ Latter(jx, Len(G)) \in Names(R)
           /\ jx \in Seq(Int) /\ Len(jx) = Len(G) + Len(R)
           /\ Len(G) = 0 => Former(jx, Len(G)) = <<>> /\ Latter(jx, Len(G)) = jx
           /\ Len(G) = 1 => Former(jx, Len(G)) = <<jx[1]>> /\ Latter(jx, Len(G)) = Tail(jx)
           /\ Len(G) = 2 => /\ Former(jx, Len(G)) = <<jx[1], jx[2]>>
                            /\ Latter(jx, Len(G)) = Tail(Tail(jx))
                            /\ Latter(jx, Len(G)) = SubSeq(jx, 3, Len(jx))
<1> DEFINE gx == Former(jx, Len(G))
           rx == Latter(jx, Len(G))
<1>1. G \in Seq(ArrayDims) /\ R \in Seq(ArrayDims)  BY WholeLayouts
<1>2. gx \in Names(G) /\ rx \in Names(R) /\ jx = gx \o rx
    BY <1>1, NamesSplit DEF Former, Latter
<1> HIDE DEF gx, rx
<1>4. /\ gx \in Seq(Int) /\ Len(gx) = Len(G)
      /\ rx \in Seq(Int) /\ Len(rx) = Len(R)
    BY <1>1, <1>2, NamesAre DEF IsName
<1>5. jx \in Seq(Int) /\ Len(jx) = Len(G) + Len(R)
    <2>1. gx \o rx \in Seq(Int) /\ Len(gx \o rx) = Len(gx) + Len(rx)
        BY ONLY <1>4, JoinFacts
    <2> QED BY <1>2, <1>4, <2>1
<1>6. /\ Len(gx) = 0 => gx = <<>> /\ jx = rx
      /\ Len(gx) = 1 => gx = <<jx[1]>> /\ rx = Tail(jx)
      /\ Len(gx) = 2 => gx = <<jx[1], jx[2]>> /\ rx = Tail(Tail(jx)) /\ rx = SubSeq(jx, 3, Len(jx))
    <2>1. gx \in Seq(Int) /\ rx \in Seq(Int) /\ Joint(jx, gx, rx)  BY <1>2, <1>4 DEF Joint
    <2>2. Len(gx) = 0 => gx = <<>> /\ jx = rx
        <3>1. <<>> \o rx = rx /\ (Len(gx) = 0 => gx = <<>>)  BY <1>4
        <3> QED BY <1>2, <3>1, Zenon
    <2>3. Len(gx) = 1 => gx = <<jx[1]>> /\ rx = Tail(jx)  BY ONLY <2>1, CutFacts
    <2>4. Len(gx) = 2 => gx = <<jx[1], jx[2]>> /\ rx = Tail(Tail(jx))  BY ONLY <2>1, CutFacts
    <2>5. Len(gx) = 2 => rx = SubSeq(jx, 3, Len(jx))  BY ONLY <2>1, CutFacts
    <2> QED BY ONLY <2>2, <2>3, <2>4, <2>5
<1> QED BY <1>2, <1>4, <1>5, <1>6 DEF gx, rx

LEMMA OneExtent ==
    ASSUME NEW d \in WholeDims, NEW R \in Seq(WholeDims)
    PROVE  /\ Extensions(<<d>> \o R) = <<Extension(d)>> \o Extensions(R)
           /\ Tail(Extensions(<<d>> \o R)) = Extensions(R)
           /\ Extensions(<<d>> \o R)[1] = Extension(d)
           /\ Head(Extensions(<<d>> \o R)) = Extension(d)
<1> DEFINE G == <<d>>
           x == <<Extension(d)>>
           xs == Extensions(G \o R)
<1>1. G \in Seq(WholeDims) /\ Len(G) = 1 /\ DOMAIN G = 1 .. 1 /\ G[1] = d  OBVIOUS
<1>2. Extensions(G) = x  BY <1>1 DEF Extensions
<1>3. Extension(d) \in Intervals
    BY WholeDimFacts, ArrayDimFacts DEF ArrayDims, WholeDims
<1>4. x \in Seq(Intervals) /\ Len(x) = 1 /\ x[1] = Extension(d)  BY <1>3
<1>5. Extensions(R) \in Seq(Intervals)
    <2>1. R \in Seq(ArrayDims)  BY WholeLayouts
    <2> QED BY <2>1, ExtensionsFacts
<1> HIDE DEF G
<1>6. xs = x \o Extensions(R)  BY <1>1, <1>2, ExtensionsJoin
<1> HIDE DEF x, xs
<1>7. x = <<xs[1]>> /\ Extensions(R) = Tail(xs) /\ Head(xs) = xs[1]
    <2>1. Joint(xs, x, Extensions(R))  BY <1>6 DEF Joint
    <2> QED BY ONLY <1>4, <1>5, <2>1, CutFacts
<1>8. xs[1] = Extension(d)  BY <1>4, <1>7
<1> QED BY <1>6, <1>7, <1>8 DEF x, xs, G

LEMMA TwoExtents ==
    ASSUME NEW d \in WholeDims, NEW e \in WholeDims, NEW R \in Seq(WholeDims)
    PROVE  /\ Extensions(<<d, e>> \o R) = <<Extension(d), Extension(e)>> \o Extensions(R)
           /\ Tail(Tail(Extensions(<<d, e>> \o R))) = Extensions(R)
           /\ SubSeq(Extensions(<<d, e>> \o R), 3, Len(Extensions(<<d, e>> \o R))) = Extensions(R)
           /\ Extensions(<<d, e>> \o R)[1] = Extension(d)
           /\ Extensions(<<d, e>> \o R)[2] = Extension(e)
<1> DEFINE G == <<d, e>>
           x == <<Extension(d), Extension(e)>>
           xs == Extensions(G \o R)
<1>1. G \in Seq(WholeDims) /\ Len(G) = 2 /\ DOMAIN G = 1 .. 2 /\ G[1] = d /\ G[2] = e  OBVIOUS
<1>2. Extensions(G) = x
    <2>1. Extensions(G) = [k \in 1 .. 2 |-> Extension(G[k])]  BY <1>1 DEF Extensions
    <2>2. x = [k \in 1 .. 2 |-> x[k]] /\ x[1] = Extension(G[1]) /\ x[2] = Extension(G[2])
        BY <1>1
    <2>3. \A k \in 1 .. 2 : k = 1 \/ k = 2  OBVIOUS
    <2> HIDE DEF x, G
    <2>4. \A k \in 1 .. 2 : x[k] = Extension(G[k])  BY <2>2, <2>3
    <2> QED BY <2>1, <2>2, <2>4
<1>3. Extension(d) \in Intervals /\ Extension(e) \in Intervals
    BY WholeDimFacts, ArrayDimFacts DEF ArrayDims, WholeDims
<1>4. x \in Seq(Intervals) /\ Len(x) = 2 /\ x[1] = Extension(d) /\ x[2] = Extension(e)  BY <1>3
<1>5. Extensions(R) \in Seq(Intervals)
    <2>1. R \in Seq(ArrayDims)  BY WholeLayouts
    <2> QED BY <2>1, ExtensionsFacts
<1> HIDE DEF G
<1>6. xs = x \o Extensions(R)  BY <1>1, <1>2, ExtensionsJoin
<1> HIDE DEF x, xs
<1>7. x = <<xs[1], xs[2]>> /\ Extensions(R) = Tail(Tail(xs)) /\ Extensions(R) = SubSeq(xs, 3, Len(xs))
    <2>1. Joint(xs, x, Extensions(R))  BY <1>6 DEF Joint
    <2> QED BY ONLY <1>4, <1>5, <2>1, CutFacts
<1>8. xs[1] = Extension(d) /\ xs[2] = Extension(e)  BY <1>4, <1>7
<1> QED BY <1>6, <1>7, <1>8 DEF x, xs, G

LEMMA FrontBecomes ==
    ASSUME NEW F \in Seq(WholeDims), NEW G \in Seq(WholeDims), NEW R \in Seq(WholeDims),
           NEW b \in Int, NEW c \in Int, NEW h, Maps(h, G, F, c, b)
    PROVE  Becomes(View(c, G \o R), View(b, F \o R), Extensions(G \o R), Carried(h, G, R))
<1>1. RenamesBy(View(c, G \o R), View(b, F \o R), Carried(h, G, R))  BY FrontRenames
<1>2. View(c, G \o R).layout = G \o R  BY DEF View
<1> QED BY <1>1, <1>2 DEF Becomes

(* The names of one dimension and of two. *)
LEMMA OneName ==
    ASSUME NEW d \in WholeDims, NEW ix
    PROVE  /\ ix \in Names(<<d>>) <=> \E i \in Indices(Extension(d)) : ix = <<i>>
           /\ \A i \in Int : Position(<<d>>, <<i>>) = Shift(d, i)
<1> DEFINE L == <<d>>
<1>1. d \in Dims /\ d \in ArrayDims /\ Extension(d) \in Intervals
    BY WholeDimFacts, ArrayDimFacts DEF ArrayDims, WholeDims
<1>2. /\ L \in Seq(ArrayDims) /\ L \in Seq(Dims) /\ Len(L) = 1 /\ L[1] = d
      /\ \A k \in 1 .. Len(L) : k = 1 /\ L[k] = d
    BY <1>1
<1>3. Indices(Extension(d)) \subseteq Int  BY <1>1 DEF Indices, Intervals
<1> HIDE DEF L
<1>4. ix \in Names(L) <=> IsName(L, ix)  BY <1>2, NamesAre
<1>5. IsName(L, ix) => \E i \in Indices(Extension(d)) : ix = <<i>>
    <2> SUFFICES ASSUME IsName(L, ix) PROVE ix[1] \in Indices(Extension(d)) /\ ix = <<ix[1]>>
        OBVIOUS
    <2>1. ix \in Seq(Int) /\ Len(ix) = 1 /\ \A k \in 1 .. 1 : ix[k] \in Indices(Extension(L[k]))
        BY <1>2 DEF IsName
    <2>2. ix[1] \in Indices(Extension(d))  BY <1>2, <2>1
    <2> QED BY <2>1, <2>2
<1>6. ASSUME NEW i \in Indices(Extension(d)) PROVE IsName(L, <<i>>)
    <2>1. <<i>> \in Seq(Int) /\ Len(<<i>>) = 1 /\ <<i>>[1] = i  BY <1>3
    <2> QED BY <1>2, <2>1 DEF IsName
<1>7. ASSUME NEW i \in Int PROVE Position(L, <<i>>) = Shift(d, i)
    <2> DEFINE M == <<>>
               tx == <<i>>
    <2>1. /\ M \in Seq(Dims) /\ M \in Seq(Int) /\ Len(M) = 0
          /\ tx \in Seq(Int) /\ Len(tx) = 1 /\ tx[1] = i
        OBVIOUS
    <2>2. Position(M, M) = 0  BY NoNames
    <2> HIDE DEF M, tx
    <2>3. Len(tx) = Len(L) /\ Len(M) = Len(M) /\ Len(L) = Len(M) + 1  BY <1>2, <2>1
    <2>4. \A k \in 1 .. Len(M) : L[k + 1] = M[k] /\ tx[k + 1] = M[k]  BY <2>1
    <2>5. Position(L, tx) = Shift(L[1], tx[1]) + Position(M, M)
        BY <1>2, <2>1, <2>3, <2>4, PositionFirst
    <2>6. Shift(d, i) \in Int  BY <1>1, ShiftInt
    <2> QED BY <1>2, <2>1, <2>2, <2>5, <2>6 DEF tx
<1> QED BY <1>4, <1>5, <1>6, <1>7 DEF L

LEMMA TwoNames ==
    ASSUME NEW d \in WholeDims, NEW e \in WholeDims, NEW ix
    PROVE  /\ ix \in Names(<<d, e>>) <=> \E i \in Indices(Extension(d)), j \in Indices(Extension(e)) :
                                            ix = <<i, j>>
           /\ \A i, j \in Int : Position(<<d, e>>, <<i, j>>) = Shift(d, i) + Shift(e, j)
<1> DEFINE L == <<d, e>>
<1>1. /\ d \in Dims /\ d \in ArrayDims /\ Extension(d) \in Intervals
      /\ e \in Dims /\ e \in ArrayDims /\ Extension(e) \in Intervals
    BY WholeDimFacts, ArrayDimFacts DEF ArrayDims, WholeDims
<1>2. /\ L \in Seq(ArrayDims) /\ L \in Seq(Dims) /\ Len(L) = 2 /\ L[1] = d /\ L[2] = e
    BY <1>1
<1>3. Indices(Extension(d)) \subseteq Int /\ Indices(Extension(e)) \subseteq Int
    BY <1>1 DEF Indices, Intervals
<1> HIDE DEF L
<1>4. ix \in Names(L) <=> IsName(L, ix)  BY <1>2, NamesAre
<1>5. IsName(L, ix) => \E i \in Indices(Extension(d)), j \in Indices(Extension(e)) : ix = <<i, j>>
    <2> SUFFICES ASSUME IsName(L, ix)
                 PROVE  /\ ix[1] \in Indices(Extension(d)) /\ ix[2] \in Indices(Extension(e))
                        /\ ix = <<ix[1], ix[2]>>
        OBVIOUS
    <2>1. ix \in Seq(Int) /\ Len(ix) = 2 /\ \A k \in 1 .. 2 : ix[k] \in Indices(Extension(L[k]))
        BY <1>2 DEF IsName
    <2>2. ix[1] \in Indices(Extension(d)) /\ ix[2] \in Indices(Extension(e))  BY <1>2, <2>1
    <2> QED BY <2>1, <2>2
<1>6. ASSUME NEW i \in Indices(Extension(d)), NEW j \in Indices(Extension(e)) PROVE IsName(L, <<i, j>>)
    <2>1. <<i, j>> \in Seq(Int) /\ Len(<<i, j>>) = 2 /\ <<i, j>>[1] = i /\ <<i, j>>[2] = j  BY <1>3
    <2>2. \A k \in 1 .. 2 : k = 1 \/ k = 2  OBVIOUS
    <2>3. \A k \in 1 .. Len(L) : <<i, j>>[k] \in Indices(Extension(L[k]))  BY <1>2, <2>1, <2>2
    <2> QED BY <1>2, <2>1, <2>3 DEF IsName
<1>7. ASSUME NEW i \in Int, NEW j \in Int PROVE Position(L, <<i, j>>) = Shift(d, i) + Shift(e, j)
    <2> DEFINE M == <<e>>
               ax == <<i, j>>
               bx == <<j>>
    <2>1. /\ M \in Seq(Dims) /\ Len(M) = 1 /\ M[1] = e
          /\ ax \in Seq(Int) /\ Len(ax) = 2 /\ ax[1] = i /\ ax[2] = j
          /\ bx \in Seq(Int) /\ Len(bx) = 1 /\ bx[1] = j
        BY <1>1
    <2>2. Position(M, bx) = Shift(e, j)  BY OneName
    <2> HIDE DEF M, ax, bx
    <2>3. Len(ax) = Len(L) /\ Len(bx) = Len(M) /\ Len(L) = Len(M) + 1  BY <1>2, <2>1
    <2>4. \A k \in 1 .. Len(M) : L[k + 1] = M[k] /\ ax[k + 1] = bx[k]
        <3>1. \A k \in 1 .. Len(M) : k = 1 /\ k + 1 = 2  BY <2>1
        <3> QED BY <1>2, <2>1, <3>1
    <2>5. Position(L, ax) = Shift(L[1], ax[1]) + Position(M, bx)
        BY <1>2, <2>1, <2>3, <2>4, PositionFirst
    <2> QED BY <1>2, <2>1, <2>2, <2>5 DEF ax
<1> QED BY <1>4, <1>5, <1>6, <1>7 DEF L

(***************************************************************************)
(* Whole views: what each operation makes of a view.                       *)
(***************************************************************************)
WholeViews == [base : Int, layout : Seq(WholeDims)]

(* A dimension in front of the rest of a layout. *)
LEMMA InFront ==
    ASSUME NEW d \in WholeDims, NEW L \in Seq(WholeDims), L # <<>>, NEW b \in Int
    PROVE  /\ View(b, <<d>> \o Tail(L)) \in WholeViews
           /\ (<<d>> \o Tail(L))[1] = d
           /\ Len(<<d>> \o Tail(L)) = Len(L)
           /\ \A k \in 2 .. Len(L) : (<<d>> \o Tail(L))[k] = L[k]
           /\ Tail(<<d>> \o Tail(L)) = Tail(L)
<1>1. Tail(L) \in Seq(WholeDims) /\ Len(Tail(L)) = Len(L) - 1  OBVIOUS
<1>2. <<d>> \in Seq(WholeDims)  OBVIOUS
<1>3. <<d>> \o Tail(L) \in Seq(WholeDims)  BY <1>1, <1>2
<1>4. /\ (<<d>> \o Tail(L))[1] = d
      /\ Len(<<d>> \o Tail(L)) = Len(L)
      /\ \A k \in 2 .. Len(L) : (<<d>> \o Tail(L))[k] = L[k]
    BY <1>1
<1>5. Tail(<<d>> \o Tail(L)) = Tail(L)  BY <1>1
<1> QED BY <1>3, <1>4, <1>5 DEF View, WholeViews

(* Turning a layout leaves its dimensions as they are. *)
LEMMA TurnKeeps ==
    ASSUME NEW L \in Seq(WholeDims), L # <<>>, NEW r \in Int
    PROVE  /\ Turn(L, r) \in Seq(WholeDims)
           /\ Len(Turn(L, r)) = Len(L)
<1>1. Len(L) \in Nat \ {0}  OBVIOUS
<1>2. \A k \in 1 .. Len(L) : ((k - 1 + r) % Len(L)) + 1 \in 1 .. Len(L)  BY <1>1
<1>3. DOMAIN L = 1 .. Len(L)  OBVIOUS
<1>4. \A k \in 1 .. Len(L) : L[((k - 1 + r) % Len(L)) + 1] \in WholeDims  BY <1>2
<1>5. Turn(L, r) = [k \in 1 .. Len(L) |-> L[((k - 1 + r) % Len(L)) + 1]]  BY <1>3 DEF Turn
<1> QED BY <1>1, <1>4, <1>5

(* So a turned view is as whole as it was. *)
LEMMA RotateKeeps ==
    ASSUME NEW v \in WholeViews, v.layout # <<>>, NEW r \in Int
    PROVE  /\ RotateView(v, r) \in WholeViews
           /\ UnrotateView(v, r) \in WholeViews
           /\ Len(RotateView(v, r).layout) = Len(v.layout)
           /\ Len(UnrotateView(v, r).layout) = Len(v.layout)
<1>1. v.base \in Int /\ v.layout \in Seq(WholeDims) /\ Len(v.layout) \in Nat  BY DEF WholeViews
<1>2. /\ Rotate(v.layout, r) \in Seq(WholeDims)
      /\ Len(Rotate(v.layout, r)) = Len(v.layout)
    BY <1>1, TurnKeeps DEF Rotate
<1>3. /\ Unrotate(v.layout, r) \in Seq(WholeDims)
      /\ Len(Unrotate(v.layout, r)) = Len(v.layout)
    BY <1>1, TurnKeeps DEF Unrotate
<1> QED BY <1>1, <1>2, <1>3 DEF RotateView, UnrotateView, View, WholeViews

(* A slice is whole and as long as asked for; the other dimensions stay. *)
LEMMA SliceKeeps ==
    ASSUME NEW v \in WholeViews, v.layout # <<>>, Size(Head(v.layout)) > 0,
           NEW first \in Int, NEW last \in Int, first <= last
    PROVE  /\ Slice(v, first, last) \in WholeViews
           /\ Len(Slice(v, first, last).layout) = Len(v.layout)
           /\ Slice(v, first, last).layout[1]
                = Resize(v.layout[1], last - first)
           /\ \A k \in 2 .. Len(v.layout) : Slice(v, first, last).layout[k] = v.layout[k]
<1> DEFINE d == Head(v.layout)
           e == Resize(d, last - first)
<1>1. /\ v.base \in Int /\ v.layout \in Seq(WholeDims)
      /\ d \in WholeDims /\ d = v.layout[1]
    BY DEF WholeViews
<1>2. last - first \in Nat  OBVIOUS
<1>3. e \in WholeDims  BY <1>1, <1>2, SliceDim
<1>4. v.base + Shift(d, first) \in Int
    <2>1. d.stride \in Int /\ d.offset \in Int  BY <1>1 DEF WholeDims, Dims
    <2> QED BY <1>1, <2>1 DEF Shift
<1>5. Slice(v, first, last) = View(v.base + Shift(d, first), <<e>> \o Tail(v.layout))
    BY DEF Slice
<1> HIDE DEF d, e
<1>6. /\ View(v.base + Shift(d, first), <<e>> \o Tail(v.layout)) \in WholeViews
      /\ (<<e>> \o Tail(v.layout))[1] = e
      /\ Len(<<e>> \o Tail(v.layout)) = Len(v.layout)
      /\ \A k \in 2 .. Len(v.layout) : (<<e>> \o Tail(v.layout))[k] = v.layout[k]
    BY <1>1, <1>3, <1>4, InFront
<1>7. Slice(v, first, last).layout = <<e>> \o Tail(v.layout)  BY <1>5 DEF View
<1>8. e = Resize(v.layout[1], last - first)
    BY <1>1 DEF e, d
<1> QED BY <1>5, <1>6, <1>7, <1>8

LEMMA ReindexKeeps ==
    ASSUME NEW v \in WholeViews, v.layout # <<>>, NEW first \in Int
    PROVE  ReindexView(v, first) \in WholeViews
<1> DEFINE d == Head(v.layout)
<1>1. v.base \in Int /\ v.layout \in Seq(WholeDims) /\ d \in WholeDims  BY DEF WholeViews
<1>2. /\ d \in Dims /\ d.stride \in Nat \ {0} /\ Size(d) \in Nat
      /\ d.nelems = Size(d) * d.stride
    BY <1>1, WholeDimFacts
<1>3. Reindex(d, first) = Dim(d.stride, first * d.stride, Size(d) * d.stride)
    BY <1>2 DEF Reindex, Dim, Dims
<1>4. Reindex(d, first) \in WholeDims  BY <1>2, <1>3, MakeWhole
<1> HIDE DEF d
<1>5. View(v.base, <<Reindex(d, first)>> \o Tail(v.layout)) \in WholeViews
    BY <1>1, <1>4, InFront
<1> QED BY <1>5 DEF ReindexView, d

LEMMA StrideKeeps ==
    ASSUME NEW v \in WholeViews, v.layout # <<>>, NEW s \in Nat \ {0},
           Size(Head(v.layout)) % s = 0,
           Quot(Head(v.layout).offset, Head(v.layout).stride) % s = 0
    PROVE  StrideView(v, s) \in WholeViews
<1> DEFINE d == Head(v.layout)
<1>1. v.base \in Int /\ v.layout \in Seq(WholeDims) /\ d \in WholeDims  BY DEF WholeViews
<1>2. [d EXCEPT !.stride = @ * s] \in WholeDims  BY <1>1, StrideDim
<1>3. View(v.base, <<[d EXCEPT !.stride = @ * s]>> \o Tail(v.layout)) \in WholeViews
    BY <1>1, <1>2, InFront
<1> QED BY <1>3 DEF StrideView

LEMMA PartitionKeeps ==
    ASSUME NEW v \in WholeViews, v.layout # <<>>, NEW s \in Nat \ {0},
           Size(Head(v.layout)) > 0, Size(Head(v.layout)) % s = 0
    PROVE  PartitionView(v, s) \in WholeViews
<1> DEFINE d == Head(v.layout)
           new == Dim(Quot(d.nelems, s), 0, d.nelems)
           part == [d EXCEPT !.nelems = Quot(@, s)]
<1>1. v.base \in Int /\ v.layout \in Seq(WholeDims) /\ d \in WholeDims  BY DEF WholeViews
<1>2. new \in WholeDims /\ part \in WholeDims  BY <1>1, PartitionDim
<1>3. PartitionView(v, s) = View(v.base, <<new, part>> \o Tail(v.layout))  BY DEF PartitionView
<1> HIDE DEF d, new, part
<1>4. Tail(v.layout) \in Seq(WholeDims)  BY <1>1
<1>5. <<new, part>> \in Seq(WholeDims)  BY <1>2
<1>6. <<new, part>> \o Tail(v.layout) \in Seq(WholeDims)  BY <1>4, <1>5
<1> QED BY <1>1, <1>3, <1>6 DEF View, WholeViews

LEMMA IndexKeeps ==
    ASSUME NEW v \in WholeViews, v.layout # <<>>, NEW i \in Int
    PROVE  At1(v, i) \in WholeViews
<1>1. /\ v.base \in Int /\ v.layout \in Seq(WholeDims)
      /\ Head(v.layout) \in WholeDims /\ Tail(v.layout) \in Seq(WholeDims)
    BY DEF WholeViews
<1>2. Head(v.layout).stride \in Int /\ Head(v.layout).offset \in Int
    BY <1>1 DEF WholeDims, Dims
<1>3. v.base + Shift(Head(v.layout), i) \in Int  BY <1>1, <1>2 DEF Shift
<1> QED BY <1>1, <1>3 DEF At1, View, WholeViews

(* A dimension counted in parts of its elements is as whole as it was. *)
LEMMA ScaleDim ==
    ASSUME NEW d \in WholeDims, NEW f \in Nat \ {0}
    PROVE  Dim(d.stride * f, d.offset * f, d.nelems * f) \in WholeDims
<1> DEFINE o == Quot(d.offset, d.stride)
<1>1. /\ d.stride \in Nat \ {0} /\ Size(d) \in Nat /\ o \in Int
      /\ d.nelems = Size(d) * d.stride
      /\ d.offset = o * d.stride
    BY WholeDimFacts
<1> HIDE DEF o
<1>2. d.stride * f \in Nat \ {0}  BY <1>1
<1>3. d.nelems * f = Size(d) * (d.stride * f) /\ d.offset * f = o * (d.stride * f)
    BY <1>1
<1> QED BY <1>1, <1>2, <1>3, MakeWhole

(* So is a layout. *)
LEMMA ScaleKeeps ==
    ASSUME NEW L \in Seq(WholeDims), NEW f \in Nat \ {0}
    PROVE  Scale(L, f) \in Seq(WholeDims)
<1>1. DOMAIN L = 1 .. Len(L) /\ Len(L) \in Nat  OBVIOUS
<1>2. \A k \in 1 .. Len(L) : Dim(L[k].stride * f, L[k].offset * f, L[k].nelems * f) \in WholeDims
    BY ScaleDim
<1>3. Scale(L, f) = [k \in 1 .. Len(L) |-> Dim(L[k].stride * f, L[k].offset * f, L[k].nelems * f)]
    BY <1>1 DEF Scale
<1> QED BY <1>1, <1>2, <1>3

(* One part of every element, or all of them in a dimension of their own. *)
LEMMA CastKeeps ==
    ASSUME NEW v \in WholeViews, NEW f \in Nat \ {0}, NEW part \in Int
    PROVE  MemberView(v, f, part) \in WholeViews /\ PartsView(v, f, f) \in WholeViews
<1> DEFINE L == Scale(v.layout, f)
           M == <<Dim(1, 0, f)>> \o L
<1>1. v.base \in Int /\ L \in Seq(WholeDims)  BY ScaleKeeps DEF WholeViews
<1>2. v.base * f \in Int /\ v.base * f + part \in Int  BY <1>1
<1>3. Dim(1, 0, f) \in WholeDims
    <2>1. 0 * 1 = 0 /\ f * 1 = f /\ 1 \in Nat \ {0} /\ 0 \in Int /\ f \in Nat  OBVIOUS
    <2>2. Dim(1, 0 * 1, f * 1) \in WholeDims  BY <2>1, MakeWhole
    <2> HIDE DEF WholeDims
    <2> QED BY <2>1, <2>2
<1> HIDE DEF L
<1>4. MemberView(v, f, part) \in WholeViews
    BY <1>1, <1>2 DEF MemberView, L, View, WholeViews
<1>5. M \in Seq(WholeDims) /\ M # <<>>
    <2>1. <<Dim(1, 0, f)>> \in Seq(WholeDims) /\ Len(<<Dim(1, 0, f)>>) = 1  BY <1>3
    <2> HIDE DEF Dim
    <2> QED BY <1>1, <2>1
<1> HIDE DEF M
<1>6. Rotate(M, 1) \in Seq(WholeDims)
    BY <1>5, TurnKeeps DEF Rotate
<1> QED BY <1>2, <1>4, <1>6 DEF PartsView, M, L, View, WholeViews

(* Two dimensions exchanged are as whole as they were. *)
LEMMA TransposeKeeps ==
    ASSUME NEW v \in WholeViews, Len(v.layout) > 1
    PROVE  View(v.base, Transpose(v.layout)) \in WholeViews
<1>1. /\ v.base \in Int /\ v.layout \in Seq(WholeDims) /\ Len(v.layout) \in Nat
      /\ v.layout[1] \in WholeDims /\ v.layout[2] \in WholeDims
    BY DEF WholeViews
<1>2. SubSeq(v.layout, 3, Len(v.layout)) \in Seq(WholeDims)  BY <1>1
<1>3. <<v.layout[2], v.layout[1]>> \in Seq(WholeDims)  BY <1>1
<1>4. Transpose(v.layout) \in Seq(WholeDims)  BY <1>2, <1>3 DEF Transpose
<1> QED BY <1>1, <1>4 DEF View, WholeViews

LEMMA FlatKeeps ==
    ASSUME NEW v \in WholeViews, Len(v.layout) > 1
    PROVE  FlatView(v) \in WholeViews
<1> DEFINE d == Head(v.layout)
           e == v.layout[2]
           flat == [e EXCEPT !.nelems = @ * Size(d)]
<1>1. /\ v.base \in Int /\ v.layout \in Seq(WholeDims) /\ Len(v.layout) \in Nat
      /\ d \in WholeDims /\ e \in WholeDims
    BY DEF WholeViews
<1>2. /\ Size(d) \in Nat /\ e \in Dims /\ e.stride \in Nat \ {0} /\ Size(e) \in Nat
      /\ e.nelems = Size(e) * e.stride
      /\ Quot(e.offset, e.stride) \in Int
      /\ e.offset = Quot(e.offset, e.stride) * e.stride
    BY <1>1, WholeDimFacts
<1>3. Size(e) * Size(d) \in Nat  BY <1>2
<1>4. e.nelems * Size(d) = (Size(e) * Size(d)) * e.stride  BY <1>2
<1> HIDE DEF d, e
<1>5. flat = Dim(e.stride, Quot(e.offset, e.stride) * e.stride, (Size(e) * Size(d)) * e.stride)
    <2> DEFINE m == e.nelems * Size(d)
    <2>1. m = (Size(e) * Size(d)) * e.stride  BY <1>4
    <2> HIDE DEF m
    <2>2. [e EXCEPT !.nelems = m] = Dim(e.stride, e.offset, m)  BY <1>2 DEF Dim, Dims
    <2> QED BY <1>2, <2>1, <2>2 DEF m
<1>6. flat \in WholeDims  BY <1>2, <1>3, <1>5, MakeWhole
<1>7. FlatView(v) = View(v.base, <<flat>> \o SubSeq(v.layout, 3, Len(v.layout)))
    BY DEF FlatView, d, e
<1> HIDE DEF flat
<1>8. SubSeq(v.layout, 3, Len(v.layout)) \in Seq(WholeDims)  BY <1>1
<1>9. <<flat>> \in Seq(WholeDims)  BY <1>6
<1>10. <<flat>> \o SubSeq(v.layout, 3, Len(v.layout)) \in Seq(WholeDims)  BY <1>8, <1>9
<1> QED BY <1>1, <1>7, <1>10 DEF View, WholeViews

(* What is behind the two leading dimensions. *)
LEMMA Rest ==
    ASSUME NEW L \in Seq(WholeDims), Len(L) > 1
    PROVE  /\ SubSeq(L, 3, Len(L)) \in Seq(WholeDims)
           /\ Len(SubSeq(L, 3, Len(L))) = Len(L) - 2
           /\ \A k \in 1 .. Len(L) - 2 : SubSeq(L, 3, Len(L))[k] = L[2 + k]
<1> DEFINE R == SubSeq(L, 3, Len(L))
<1>0. Len(L) \in Nat  OBVIOUS
<1>1. R \in Seq(WholeDims)  OBVIOUS
<1>2. Len(R) = Len(L) - 2
    <2>1. CASE Len(L) = 2
        <3>1. SubSeq(L, 3, 2) = <<>>  OBVIOUS
        <3>2. Len(<<>>) = 0  OBVIOUS
        <3> QED BY <2>1, <3>1, <3>2
    <2>2. CASE Len(L) > 2
        <3> DEFINE n == Len(L)
        <3>1. n \in Nat /\ n > 2 /\ 3 \in 1 .. n /\ n \in 1 .. n  BY <1>0, <2>2
        <3>2. Len(SubSeq(L, 3, n)) = n - 3 + 1  BY <3>1
        <3> HIDE DEF n
        <3>3. n - 3 + 1 = n - 2  BY <3>1
        <3> QED BY <3>2, <3>3 DEF n
    <2>3. Len(L) = 2 \/ Len(L) > 2
        <3> DEFINE n == Len(L)
        <3>1. n \in Nat /\ n > 1  BY <1>0
        <3> HIDE DEF n
        <3>2. n = 2 \/ n > 2  BY ONLY <3>1
        <3> QED BY <3>2 DEF n
    <2> HIDE DEF R
    <2> QED BY <2>1, <2>2, <2>3
<1>3. \A k \in 1 .. Len(L) - 2 : R[k] = L[3 + k - 1]  BY <1>0
<1>4. \A k \in 1 .. Len(L) - 2 : 3 + k - 1 = 2 + k  BY <1>0
<1> QED BY <1>1, <1>2, <1>3, <1>4

LEMMA HeadTwo ==
    ASSUME NEW L \in Seq(WholeDims), Len(L) > 1
    PROVE  /\ L = <<L[1], L[2]>> \o SubSeq(L, 3, Len(L))
           /\ L[1] \in WholeDims /\ L[2] \in WholeDims
           /\ SubSeq(L, 3, Len(L)) \in Seq(WholeDims)
<1> DEFINE F == <<L[1], L[2]>>
           R == SubSeq(L, 3, Len(L))
<1>1. Len(L) \in Nat /\ L[1] \in WholeDims /\ L[2] \in WholeDims  OBVIOUS
<1>2. R \in Seq(WholeDims) /\ Len(R) = Len(L) - 2 /\ \A k \in 1 .. Len(L) - 2 : R[k] = L[2 + k]
    BY Rest
<1>3. F \in Seq(WholeDims) /\ Len(F) = 2 /\ F[1] = L[1] /\ F[2] = L[2]  BY <1>1
<1> HIDE DEF F, R
<1>4. /\ F \o R \in Seq(WholeDims) /\ Len(F \o R) = Len(L)
      /\ \A k \in 1 .. 2 : (F \o R)[k] = F[k]
      /\ \A k \in 1 .. Len(L) - 2 : (F \o R)[2 + k] = R[k]
    <2>1. /\ F \o R \in Seq(WholeDims) /\ Len(F \o R) = Len(F) + Len(R)
          /\ \A k \in 1 .. Len(F) : (F \o R)[k] = F[k]
          /\ \A k \in 1 .. Len(R) : (F \o R)[Len(F) + k] = R[k]
        <3>1. F \in Seq(WholeDims) /\ R \in Seq(WholeDims)  BY <1>2, <1>3
        <3> QED BY ONLY <3>1, JoinFacts
    <2>2. 2 + (Len(L) - 2) = Len(L)  BY <1>1
    <2> QED BY <1>2, <1>3, <2>1, <2>2
<1>5. \A k \in 1 .. Len(L) : (F \o R)[k] = L[k]
    <2> SUFFICES ASSUME NEW k \in 1 .. Len(L) PROVE (F \o R)[k] = L[k]
        OBVIOUS
    <2>1. CASE k = 1
        <3>1. 1 \in 1 .. 2  OBVIOUS
        <3> QED BY <1>3, <1>4, <2>1, <3>1
    <2>2. CASE k = 2
        <3>1. 2 \in 1 .. 2  OBVIOUS
        <3> QED BY <1>3, <1>4, <2>2, <3>1
    <2>3. CASE k # 1 /\ k # 2
        <3>1. k - 2 \in 1 .. Len(L) - 2 /\ 2 + (k - 2) = k  BY <1>1, <2>3
        <3> QED BY <1>2, <1>4, <3>1
    <2> QED BY <2>1, <2>2, <2>3
<1>6. F \o R = L
    <2> DEFINE M == F \o R
    <2>1. M \in Seq(WholeDims) /\ Len(M) = Len(L) /\ \A k \in 1 .. Len(L) : M[k] = L[k]
        BY <1>4, <1>5
    <2> HIDE DEF M
    <2>2. M = L  BY ONLY <2>1, L \in Seq(WholeDims)
    <2> QED BY <2>2 DEF M
<1> QED BY <1>1, <1>2, <1>6 DEF F, R

LEMMA SameRest ==
    ASSUME NEW L \in Seq(WholeDims), NEW M \in Seq(WholeDims), Len(L) > 1, Len(M) = Len(L),
           \A k \in 3 .. Len(L) : M[k] = L[k]
    PROVE  SubSeq(M, 3, Len(M)) = SubSeq(L, 3, Len(L))
<1> DEFINE s == SubSeq(M, 3, Len(M))
           t == SubSeq(L, 3, Len(L))
<1>1. Len(M) > 1 /\ Len(L) \in Nat  OBVIOUS
<1>2. s \in Seq(WholeDims) /\ Len(s) = Len(L) - 2 /\ \A k \in 1 .. Len(L) - 2 : s[k] = M[2 + k]
    BY <1>1, Rest
<1>3. t \in Seq(WholeDims) /\ Len(t) = Len(L) - 2 /\ \A k \in 1 .. Len(L) - 2 : t[k] = L[2 + k]
    BY Rest
<1> HIDE DEF s, t
<1>4. \A k \in 1 .. Len(L) - 2 : 2 + k \in 3 .. Len(L)  BY <1>1
<1>5. \A k \in 1 .. Len(L) - 2 : s[k] = t[k]  BY <1>2, <1>3, <1>4
<1>6. Len(s) = Len(t) /\ \A k \in 1 .. Len(s) : s[k] = t[k]  BY <1>2, <1>3, <1>5
<1>7. s \in Seq(WholeDims) /\ t \in Seq(WholeDims)  BY <1>2, <1>3
<1>8. s = t  BY ONLY <1>6, <1>7
<1> QED BY <1>8 DEF s, t

(* Positions next to the end of a cycle. *)
LEMMA Around ==
    ASSUME NEW n \in Nat, n > 1
    PROVE  1 % n = 1 /\ n % n = 0 /\ (-1) % n = n - 1 /\ 0 % n = 0
<1>1. 1 % n = 1 /\ n % n = 0 /\ 0 % n = 0  OBVIOUS
<1>2. (-1) % n = n - 1  OBVIOUS
<1> QED BY <1>1, <1>2

LEMMA Below ==
    ASSUME NEW n \in Nat \ {0}, NEW a \in 0 .. n - 1
    PROVE  a % n = a
OBVIOUS

(* paren(a, b) slices the two leading dimensions and leaves the others alone. *)
LEMMA ParenKeeps ==
    ASSUME NEW v \in WholeViews, Len(v.layout) > 1,
           NEW f1 \in Int, NEW l1 \in Int, NEW f2 \in Int, NEW l2 \in Int,
           f1 <= l1, f2 <= l2, Size(v.layout[1]) > 0, Size(v.layout[2]) > 0
    PROVE  /\ ParenView(v, f1, l1, f2, l2) \in WholeViews
           /\ Len(ParenView(v, f1, l1, f2, l2).layout) = Len(v.layout)
           /\ ParenView(v, f1, l1, f2, l2).layout[1]
                = Resize(v.layout[1], l1 - f1)
           /\ ParenView(v, f1, l1, f2, l2).layout[2]
                = Resize(v.layout[2], l2 - f2)
           /\ \A k \in 3 .. Len(v.layout) : ParenView(v, f1, l1, f2, l2).layout[k] = v.layout[k]
<1> DEFINE n == Len(v.layout)
           A == Slice(v, f1, l1)
           B == RotateView(A, 1)
           C == Slice(B, f2, l2)
           P == UnrotateView(C, 1)
           e1 == Resize(v.layout[1], l1 - f1)
           e2 == Resize(v.layout[2], l2 - f2)
<1>1. v.layout \in Seq(WholeDims) /\ n \in Nat /\ n > 1 /\ v.layout # <<>>
      /\ Head(v.layout) = v.layout[1]
    BY DEF WholeViews
<1>2. /\ A \in WholeViews /\ Len(A.layout) = n /\ A.layout[1] = e1
      /\ \A k \in 2 .. n : A.layout[k] = v.layout[k]
    BY <1>1, SliceKeeps
<1>3. A.layout \in Seq(WholeDims) /\ A.layout # <<>> /\ DOMAIN A.layout = 1 .. n
    BY <1>1, <1>2 DEF WholeViews
<1>4. B \in WholeViews /\ Len(B.layout) = n  BY <1>2, <1>3, RotateKeeps
<1>5. /\ B.layout[1] = v.layout[2] /\ B.layout[n] = e1
      /\ \A k \in 3 .. n : B.layout[k - 1] = v.layout[k]
    <2>1. B.layout = Turn(A.layout, 1)
        BY <1>1, <1>2 DEF RotateView, Rotate, View
    <2>2. \A k \in 1 .. n : B.layout[k] = A.layout[((k - 1 + 1) % n) + 1]
        BY <1>2, <1>3, <2>1 DEF Turn
    <2>3. (1 - 1 + 1) % n = 1 /\ (n - 1 + 1) % n = 0
        <3>1. 1 - 1 + 1 = 1 /\ n - 1 + 1 = n  BY <1>1
        <3> QED BY <1>1, <3>1, Around
    <2>4. B.layout[1] = A.layout[2] /\ B.layout[n] = A.layout[1]
        <3>1. 1 \in 1 .. n /\ n \in 1 .. n  BY <1>1
        <3>2. B.layout[1] = A.layout[((1 - 1 + 1) % n) + 1]  BY <2>2, <3>1
        <3>3. B.layout[n] = A.layout[((n - 1 + 1) % n) + 1]  BY <2>2, <3>1
        <3> HIDE DEF n
        <3> QED BY <2>3, <3>2, <3>3
    <2>5. ASSUME NEW k \in 3 .. n PROVE B.layout[k - 1] = v.layout[k]
        <3>1. k - 1 \in 1 .. n /\ k - 1 - 1 + 1 = k - 1 /\ k - 1 \in 0 .. n - 1 /\ (k - 1) + 1 = k
              /\ k \in 2 .. n
            BY <1>1
        <3>2. (k - 1) % n = k - 1
            <4> DEFINE a == k - 1
            <4>1. n \in Nat \ {0} /\ a \in 0 .. n - 1  BY <1>1, <3>1
            <4> HIDE DEF n, a
            <4>2. a % n = a  BY ONLY <4>1, Below
            <4> QED BY <4>2 DEF a
        <3>3. B.layout[k - 1] = A.layout[((k - 1 - 1 + 1) % n) + 1]  BY <2>2, <3>1
        <3> HIDE DEF n
        <3>4. B.layout[k - 1] = A.layout[k]  BY <3>1, <3>2, <3>3, Zenon
        <3> QED BY <1>2, <3>1, <3>4
    <2> QED BY <1>1, <1>2, <2>4, <2>5
<1> HIDE DEF A, B
<1>6. B.layout \in Seq(WholeDims) /\ B.layout # <<>> /\ Head(B.layout) = v.layout[2]
    BY <1>1, <1>4, <1>5 DEF WholeViews
<1>7. /\ C \in WholeViews /\ Len(C.layout) = n /\ C.layout[1] = e2
      /\ C.layout[n] = e1
      /\ \A k \in 3 .. n : C.layout[k - 1] = v.layout[k]
    <2>1. /\ C \in WholeViews /\ Len(C.layout) = n
          /\ C.layout[1] = Resize(B.layout[1], l2 - f2)
          /\ \A k \in 2 .. n : C.layout[k] = B.layout[k]
        <3> HIDE DEF n, e1, e2, P
        <3>1. Size(Head(B.layout)) > 0  BY <1>6
        <3> QED BY <1>4, <1>6, <3>1, SliceKeeps, SMTT(30)
    <2>2. ASSUME NEW k \in 3 .. n PROVE C.layout[k - 1] = v.layout[k]
        <3>1. k - 1 \in 2 .. n  BY <1>1
        <3> HIDE DEF n, C
        <3> QED BY <1>5, <2>1, <3>1
    <2>3. n \in 2 .. n  BY <1>1
    <2> QED BY <1>5, <2>1, <2>2, <2>3
<1>8. C.layout \in Seq(WholeDims) /\ C.layout # <<>> /\ DOMAIN C.layout = 1 .. n
    BY <1>1, <1>7 DEF WholeViews
<1>9. P \in WholeViews /\ Len(P.layout) = n  BY <1>7, <1>8, RotateKeeps
<1>10. P.layout[1] = e1 /\ P.layout[2] = e2
    <2>1. P.layout = Turn(C.layout, -1)
        BY <1>1, <1>7 DEF UnrotateView, Unrotate, View
    <2>2. \A k \in 1 .. n : P.layout[k] = C.layout[((k - 1 + (-1)) % n) + 1]
        BY <1>7, <1>8, <2>1 DEF Turn
    <2>3. (1 - 1 + (-1)) % n = n - 1 /\ (2 - 1 + (-1)) % n = 0
        <3>1. 1 - 1 + (-1) = -1 /\ 2 - 1 + (-1) = 0  OBVIOUS
        <3> QED BY <1>1, <3>1, Around
    <2>4. P.layout[1] = C.layout[n] /\ P.layout[2] = C.layout[1]
        <3>1. 1 \in 1 .. n /\ 2 \in 1 .. n  BY <1>1
        <3>2. P.layout[1] = C.layout[((1 - 1 + (-1)) % n) + 1]  BY <2>2, <3>1
        <3>3. P.layout[2] = C.layout[((2 - 1 + (-1)) % n) + 1]  BY <2>2, <3>1
        <3>4. n - 1 + 1 = n  BY <1>1
        <3> HIDE DEF n, P, C
        <3> QED BY <2>3, <3>2, <3>3, <3>4
    <2> QED BY <1>7, <2>4
<1>11. ASSUME NEW k \in 3 .. n PROVE P.layout[k] = v.layout[k]
    <2>1. P.layout = Turn(C.layout, -1)
        BY <1>1, <1>7 DEF UnrotateView, Unrotate, View
    <2>2. k \in 1 .. n /\ k - 1 + (-1) = k - 2 /\ k - 2 \in 0 .. n - 1 /\ (k - 2) + 1 = k - 1
        BY <1>1
    <2>3. P.layout[k] = C.layout[((k - 1 + (-1)) % n) + 1]
        BY <1>7, <1>8, <2>1, <2>2 DEF Turn
    <2>4. (k - 2) % n = k - 2
        <3> DEFINE a == k - 2
        <3>1. n \in Nat \ {0} /\ a \in 0 .. n - 1  BY <1>1, <2>2
        <3> HIDE DEF n, a
        <3>2. a % n = a  BY ONLY <3>1, Below
        <3> QED BY <3>2 DEF a
    <2> HIDE DEF n, P, C
    <2>5. P.layout[k] = C.layout[k - 1]  BY <2>2, <2>3, <2>4, Zenon
    <2> QED BY <1>7, <2>5
<1>12. P = ParenView(v, f1, l1, f2, l2)  BY DEF ParenView, A, B, C, P
<1> QED BY <1>9, <1>10, <1>11, <1>12

(* A diagonal starts at its first element: its strides add up, and so do its lengths. *)
LEMMA DiagonalIs ==
    ASSUME NEW v \in WholeViews, Len(v.layout) > 1,
           Size(v.layout[1]) > 0, Size(v.layout[2]) > 0, Extension(v.layout[2])[1] = 0
    PROVE  \E m \in Nat :
             /\ m = IF Size(v.layout[1]) < Size(v.layout[2]) THEN Size(v.layout[1]) ELSE Size(v.layout[2])
             /\ m <= Size(v.layout[1]) /\ m <= Size(v.layout[2])
             /\ DiagonalView(v) = View(v.base, <<Rows(v.layout[1].stride + v.layout[2].stride, 0, m)>>
                                                 \o SubSeq(v.layout, 3, Len(v.layout)))
<1> DEFINE L == v.layout
           d1 == L[1]
           d2 == L[2]
           length == IF Size(d1) < Size(d2) THEN Size(d1) ELSE Size(d2)
           P == ParenView(v, 0, length, 0, length)
           e == Dim(P.layout[1].stride + P.layout[2].stride, P.layout[2].offset,
                    P.layout[1].nelems + P.layout[2].nelems)
<1>1. L \in Seq(WholeDims) /\ d1 \in WholeDims /\ d2 \in WholeDims
    BY DEF WholeViews
<1>2. /\ Size(d1) \in Nat /\ Size(d2) \in Nat /\ Size(d1) > 0 /\ Size(d2) > 0
      /\ d1 \in Dims /\ d1.stride \in Nat \ {0}
      /\ d2 \in Dims /\ d2.stride \in Nat \ {0}
      /\ d2.offset = Quot(d2.offset, d2.stride) * d2.stride
      /\ Extension(d2) = <<Quot(d2.offset, d2.stride), Quot(d2.offset, d2.stride) + Size(d2)>>
    BY <1>1, WholeDimFacts
<1>3. length \in Nat /\ length <= Size(d1) /\ length <= Size(d2)  BY <1>2
<1>4. d2.offset = 0
    <2>1. Quot(d2.offset, d2.stride) = 0  BY <1>2
    <2> QED BY <1>2, <2>1
<1> HIDE DEF length
<1>5. /\ P.layout \in Seq(WholeDims) /\ Len(P.layout) = Len(L)
      /\ P.layout[1] = Resize(d1, length - 0)
      /\ P.layout[2] = Resize(d2, length - 0)
      /\ \A k \in 3 .. Len(L) : P.layout[k] = L[k]
    <2>1. 0 \in Int /\ length \in Int /\ 0 <= length  BY <1>3
    <2>2. /\ ParenView(v, 0, length, 0, length) \in WholeViews
          /\ Len(ParenView(v, 0, length, 0, length).layout) = Len(v.layout)
          /\ ParenView(v, 0, length, 0, length).layout[1]
               = Resize(v.layout[1], length - 0)
          /\ ParenView(v, 0, length, 0, length).layout[2]
               = Resize(v.layout[2], length - 0)
          /\ \A k \in 3 .. Len(v.layout) : ParenView(v, 0, length, 0, length).layout[k] = v.layout[k]
        <3> HIDE DEF P, e, L
        <3> QED BY <2>1, ParenKeeps
    <2> QED BY <2>2 DEF WholeViews
<1>6. /\ Quot(d1.nelems, Size(d1)) * length = length * d1.stride
      /\ Quot(d2.nelems, Size(d2)) * length = length * d2.stride
    BY <1>1, <1>2, <1>3, SliceDim
<1>7. length - 0 = length  BY <1>3
<1>8. DiagonalView(v) = View(v.base, <<e>> \o SubSeq(P.layout, 3, Len(P.layout)))
    BY DEF DiagonalView, length
<1> HIDE DEF P, d1, d2
<1>9. P.layout[1].nelems = length * d1.stride /\ P.layout[1].stride = d1.stride
    BY <1>2, <1>5, <1>6, <1>7 DEF Dims, Resize
<1>10. P.layout[2] = [stride |-> d2.stride, offset |-> 0, nelems |-> length * d2.stride]
    BY <1>2, <1>4, <1>5, <1>6, <1>7 DEF Dims, Resize
<1>11. e = Rows(d1.stride + d2.stride, 0, length)
    <2>1. e = Dim(d1.stride + d2.stride, 0, length * d1.stride + length * d2.stride)
        BY <1>9, <1>10
    <2>2. length * d1.stride + length * d2.stride = length * (d1.stride + d2.stride)
        BY <1>2, <1>3
    <2>3. 0 * (d1.stride + d2.stride) = 0  BY <1>2
    <2> QED BY <2>1, <2>2, <2>3 DEF Rows
<1>12. SubSeq(P.layout, 3, Len(P.layout)) = SubSeq(L, 3, Len(L))
    BY <1>1, <1>5, SameRest
<1> HIDE DEF e
<1>13. DiagonalView(v) = View(v.base, <<Rows(d1.stride + d2.stride, 0, length)>> \o SubSeq(L, 3, Len(L)))
    BY <1>8, <1>11, <1>12
<1> QED BY <1>3, <1>13 DEF d1, d2, length

LEMMA DiagonalKeeps ==
    ASSUME NEW v \in WholeViews, Len(v.layout) > 1,
           Size(v.layout[1]) > 0, Size(v.layout[2]) > 0, Extension(v.layout[2])[1] = 0
    PROVE  DiagonalView(v) \in WholeViews
<1> DEFINE R == SubSeq(v.layout, 3, Len(v.layout))
           s == v.layout[1].stride + v.layout[2].stride
<1>1. PICK m \in Nat : DiagonalView(v) = View(v.base, <<Rows(s, 0, m)>> \o R)
    BY DiagonalIs
<1>2. v.layout \in Seq(WholeDims) /\ v.layout[1] \in WholeDims /\ v.layout[2] \in WholeDims /\ v.base \in Int
    BY DEF WholeViews
<1>3. R \in Seq(WholeDims)  BY <1>2, Rest
<1>4. s \in Nat \ {0}
    <2>1. v.layout[1].stride \in Nat \ {0} /\ v.layout[2].stride \in Nat \ {0}
        BY <1>2, WholeDimFacts
    <2> QED BY <2>1
<1> HIDE DEF R, s
<1>5. Rows(s, 0, m) \in WholeDims
    <2>1. 0 \in Int  OBVIOUS
    <2> QED BY <1>4, <2>1, RowsFacts
<1>6. <<Rows(s, 0, m)>> \o R \in Seq(WholeDims)
    <2> DEFINE d == Rows(s, 0, m)
    <2> HIDE DEF d
    <2>1. d \in WholeDims  BY <1>5 DEF d
    <2>2. <<d>> \in Seq(WholeDims)  BY <2>1
    <2>3. <<d>> \o R \in Seq(WholeDims)  BY <1>3, <2>2
    <2> QED BY <2>3 DEF d
<1> QED BY <1>1, <1>2, <1>6 DEF View, WholeViews

(***************************************************************************)
(* What each operation renames.  A dimension is written as Rows(s, o, n),  *)
(* so that all there is to show is about strides and first indices.        *)
(***************************************************************************)
LEMMA ViewOf ==
    ASSUME NEW v \in WholeViews
    PROVE  v = View(v.base, v.layout) /\ v.base \in Int /\ v.layout \in Seq(WholeDims)
BY DEF WholeViews, View

LEMMA HeadTail ==
    ASSUME NEW L \in Seq(WholeDims), L # <<>>
    PROVE  /\ L = <<Head(L)>> \o Tail(L) /\ Head(L) = L[1]
           /\ Head(L) \in WholeDims /\ Tail(L) \in Seq(WholeDims)
OBVIOUS

LEMMA ViewParts ==
    ASSUME NEW b, NEW L
    PROVE  View(b, L).layout = L /\ View(b, L).base = b
BY DEF View

(* The indices of one dimension are moved to those of another, e behind c to d behind b. *)
Moves(f, e, c, d, b) ==
    /\ f \in [Indices(Extension(e)) -> Indices(Extension(d))]
    /\ \A i \in Indices(Extension(e)) : i \in Int /\ f[i] \in Int /\ c + Shift(e, i) = b + Shift(d, f[i])
    /\ \A i, j \in Indices(Extension(e)) : f[i] = f[j] => i = j

LeadBy(f, L) == [jx \in Names(L) |-> <<f[jx[1]]>> \o Tail(jx)]

(* The leading dimension is exchanged for another. *)
LEMMA OneRenames ==
    ASSUME NEW d \in WholeDims, NEW e \in WholeDims, NEW R \in Seq(WholeDims),
           NEW b \in Int, NEW c \in Int, NEW f, Moves(f, e, c, d, b)
    PROVE  Becomes(View(c, <<e>> \o R), View(b, <<d>> \o R),
                   <<Extension(e)>> \o Tail(Extensions(<<d>> \o R)), LeadBy(f, <<e>> \o R))
<1> DEFINE F == <<d>>
           G == <<e>>
           h == [gx \in Names(G) |-> <<f[gx[1]]>>]
<1>0. /\ f \in [Indices(Extension(e)) -> Indices(Extension(d))]
      /\ \A i \in Indices(Extension(e)) : i \in Int /\ f[i] \in Int /\ c + Shift(e, i) = b + Shift(d, f[i])
      /\ \A i, j \in Indices(Extension(e)) : f[i] = f[j] => i = j
    BY DEF Moves
<1>1. F \in Seq(WholeDims) /\ G \in Seq(WholeDims)  OBVIOUS
<1>2. ASSUME NEW gx \in Names(G)
      PROVE  /\ gx = <<gx[1]>> /\ gx[1] \in Indices(Extension(e))
             /\ <<f[gx[1]]>> \in Names(F)
             /\ c + Position(G, gx) = b + Position(F, <<f[gx[1]]>>)
    <2>1. PICK i \in Indices(Extension(e)) : gx = <<i>>  BY OneName
    <2>2. gx[1] = i  BY <2>1
    <2>3. <<f[i]>> \in Names(F)  BY <1>0, OneName
    <2>4. Position(G, <<i>>) = Shift(e, i) /\ Position(F, <<f[i]>>) = Shift(d, f[i])  BY <1>0, OneName
    <2>5. c + Shift(e, i) = b + Shift(d, f[i])  BY <1>0
    <2> QED BY <2>1, <2>2, <2>3, <2>4, <2>5
<1>3. h \in [Names(G) -> Names(F)]  BY <1>2
<1>4. \A gx \in Names(G) : c + Position(G, gx) = b + Position(F, h[gx])  BY <1>2
<1>5. \A gx, kx \in Names(G) : h[gx] = h[kx] => gx = kx
    <2> SUFFICES ASSUME NEW gx \in Names(G), NEW kx \in Names(G), h[gx] = h[kx] PROVE gx = kx
        OBVIOUS
    <2>1. <<f[gx[1]]>> = <<f[kx[1]]>>  OBVIOUS
    <2>2. f[gx[1]] = f[kx[1]]  BY <2>1
    <2>3. gx[1] = kx[1]  BY <1>0, <1>2, <2>2
    <2> QED BY <1>2, <2>3
<1>6. ASSUME NEW jx \in Names(G \o R)
      PROVE  h[Former(jx, Len(G))] \o Latter(jx, Len(G)) = <<f[jx[1]]>> \o Tail(jx)
    <2>1. Len(G) = 1  OBVIOUS
    <2> DEFINE gx == Former(jx, Len(G))
    <2>2. gx \in Names(G) /\ gx = <<jx[1]>> /\ Latter(jx, Len(G)) = Tail(jx)
        <3> HIDE DEF G, h
        <3> QED BY <1>1, <1>6, <2>1, CutName
    <2> HIDE DEF gx
    <2>3. h[gx] = <<f[gx[1]]>>  BY <2>2
    <2>4. gx[1] = jx[1]  BY <2>2
    <2> HIDE DEF h, G
    <2>5. h[gx] \o Latter(jx, Len(G)) = <<f[jx[1]]>> \o Tail(jx)  BY <2>2, <2>3, <2>4
    <2> QED BY <2>5 DEF gx
<1> HIDE DEF F, G, h
<1>7. RenamesBy(View(c, G \o R), View(b, F \o R), Carried(h, G, R))
    <2>1. Maps(h, G, F, c, b)  BY <1>3, <1>4, <1>5 DEF Maps
    <2> QED BY <1>1, <2>1, FrontRenames
<1>8. Carried(h, G, R) = LeadBy(f, G \o R)  BY <1>6 DEF Carried, LeadBy
<1>9. RenamesBy(View(c, G \o R), View(b, F \o R), LeadBy(f, G \o R))
    BY <1>7, <1>8
<1>10. Extensions(<<e>> \o R) = <<Extension(e)>> \o Tail(Extensions(<<d>> \o R))  BY OneExtent
<1>11. View(c, <<e>> \o R).layout = <<e>> \o R  BY ViewParts
<1> QED BY <1>9, <1>10, <1>11 DEF F, G, Becomes

(* The first index of a name is one of the leading dimension. *)
LEMMA LeadName ==
    ASSUME NEW e \in WholeDims, NEW R \in Seq(WholeDims), NEW jx \in Names(<<e>> \o R)
    PROVE  jx[1] \in Indices(Extension(e))
<1> DEFINE G == <<e>>
<1>1. G \in Seq(WholeDims) /\ Len(G) = 1  OBVIOUS
<1>2. jx \in Names(G \o R)  OBVIOUS
<1> HIDE DEF G
<1>3. <<jx[1]>> \in Names(G)  BY <1>1, <1>2, CutName
<1>4. PICK i \in Indices(Extension(e)) : <<jx[1]>> = <<i>>  BY <1>3, OneName DEF G
<1>5. jx[1] = i  BY <1>4
<1> QED BY <1>5

(* Two dimensions at once: each index moves on its own. *)
PairBy(f1, f2, L) == [jx \in Names(L) |-> <<f1[jx[1]], f2[jx[2]]>> \o Tail(Tail(jx))]

LEMMA PairName ==
    ASSUME NEW e1 \in WholeDims, NEW e2 \in WholeDims, NEW R \in Seq(WholeDims), NEW jx \in Names(<<e1, e2>> \o R)
    PROVE  jx[1] \in Indices(Extension(e1)) /\ jx[2] \in Indices(Extension(e2))
<1> DEFINE G == <<e1, e2>>
<1>1. G \in Seq(WholeDims) /\ Len(G) = 2  OBVIOUS
<1>2. jx \in Names(G \o R)  OBVIOUS
<1> HIDE DEF G
<1>3. <<jx[1], jx[2]>> \in Names(G)  BY <1>1, <1>2, CutName
<1>4. PICK i \in Indices(Extension(e1)), j \in Indices(Extension(e2)) : <<jx[1], jx[2]>> = <<i, j>>
    BY <1>3, TwoNames DEF G
<1>5. jx[1] = i /\ jx[2] = j  BY <1>4
<1> QED BY <1>5

LEMMA TwoRenames ==
    ASSUME NEW d1 \in WholeDims, NEW d2 \in WholeDims, NEW e1 \in WholeDims, NEW e2 \in WholeDims,
           NEW R \in Seq(WholeDims), NEW b \in Int, NEW c1 \in Int, NEW c2 \in Int, NEW f1, NEW f2,
           Moves(f1, e1, c1, d1, 0), Moves(f2, e2, c2, d2, 0)
    PROVE  Becomes(View(b + c1 + c2, <<e1, e2>> \o R), View(b, <<d1, d2>> \o R),
                   <<Extension(e1), Extension(e2)>> \o Tail(Tail(Extensions(<<d1, d2>> \o R))),
                   PairBy(f1, f2, <<e1, e2>> \o R))
<1> DEFINE F == <<d1, d2>>
           G == <<e1, e2>>
           c == b + c1 + c2
           h == [gx \in Names(G) |-> <<f1[gx[1]], f2[gx[2]]>>]
<1>0. /\ f1 \in [Indices(Extension(e1)) -> Indices(Extension(d1))]
      /\ \A i \in Indices(Extension(e1)) : i \in Int /\ f1[i] \in Int /\ c1 + Shift(e1, i) = 0 + Shift(d1, f1[i])
      /\ \A i, j \in Indices(Extension(e1)) : f1[i] = f1[j] => i = j
    BY DEF Moves
<1>1. /\ f2 \in [Indices(Extension(e2)) -> Indices(Extension(d2))]
      /\ \A i \in Indices(Extension(e2)) : i \in Int /\ f2[i] \in Int /\ c2 + Shift(e2, i) = 0 + Shift(d2, f2[i])
      /\ \A i, j \in Indices(Extension(e2)) : f2[i] = f2[j] => i = j
    BY DEF Moves
<1>2. F \in Seq(WholeDims) /\ G \in Seq(WholeDims) /\ Len(G) = 2 /\ c \in Int  OBVIOUS
<1>3. ASSUME NEW gx \in Names(G)
      PROVE  /\ gx = <<gx[1], gx[2]>>
             /\ gx[1] \in Indices(Extension(e1)) /\ gx[2] \in Indices(Extension(e2))
             /\ <<f1[gx[1]], f2[gx[2]]>> \in Names(F)
             /\ c + Position(G, gx) = b + Position(F, <<f1[gx[1]], f2[gx[2]]>>)
    <2>1. PICK i \in Indices(Extension(e1)), j \in Indices(Extension(e2)) : gx = <<i, j>>  BY TwoNames
    <2>2. gx[1] = i /\ gx[2] = j  BY <2>1
    <2>3. <<f1[i], f2[j]>> \in Names(F)
        <3>1. f1[i] \in Indices(Extension(d1)) /\ f2[j] \in Indices(Extension(d2))  BY <1>0, <1>1
        <3> QED BY <3>1, TwoNames
    <2>4. i \in Int /\ j \in Int /\ f1[i] \in Int /\ f2[j] \in Int  BY <1>0, <1>1
    <2>5. Position(G, <<i, j>>) = Shift(e1, i) + Shift(e2, j)  BY <2>4, TwoNames
    <2>6. Position(F, <<f1[i], f2[j]>>) = Shift(d1, f1[i]) + Shift(d2, f2[j])  BY <2>4, TwoNames
    <2>7. c1 + Shift(e1, i) = 0 + Shift(d1, f1[i]) /\ c2 + Shift(e2, j) = 0 + Shift(d2, f2[j])
        BY <1>0, <1>1
    <2>8. Shift(e1, i) \in Int /\ Shift(e2, j) \in Int /\ Shift(d1, f1[i]) \in Int /\ Shift(d2, f2[j]) \in Int
        <3>1. e1 \in Dims /\ e2 \in Dims /\ d1 \in Dims /\ d2 \in Dims  BY WholeDimFacts
        <3> QED BY <2>4, <3>1, ShiftInt
    <2>9. c + (Shift(e1, i) + Shift(e2, j)) = b + (Shift(d1, f1[i]) + Shift(d2, f2[j]))
        BY <2>7, <2>8
    <2>10. c + Position(G, gx) = b + Position(F, <<f1[i], f2[j]>>)  BY <2>1, <2>5, <2>6, <2>9, Zenon
    <2> QED BY <2>1, <2>2, <2>3, <2>10, Zenon
<1>4. h \in [Names(G) -> Names(F)]  BY <1>3
<1>5. \A gx \in Names(G) : c + Position(G, gx) = b + Position(F, h[gx])  BY <1>3
<1>6. \A gx, kx \in Names(G) : h[gx] = h[kx] => gx = kx
    <2> SUFFICES ASSUME NEW gx \in Names(G), NEW kx \in Names(G), h[gx] = h[kx] PROVE gx = kx
        OBVIOUS
    <2>1. <<f1[gx[1]], f2[gx[2]]>> = <<f1[kx[1]], f2[kx[2]]>>  OBVIOUS
    <2>2. f1[gx[1]] = f1[kx[1]] /\ f2[gx[2]] = f2[kx[2]]  BY <2>1
    <2>3. /\ gx[1] \in Indices(Extension(e1)) /\ kx[1] \in Indices(Extension(e1))
          /\ gx[2] \in Indices(Extension(e2)) /\ kx[2] \in Indices(Extension(e2))
        BY <1>3
    <2>4. gx[1] = kx[1] /\ gx[2] = kx[2]  BY <1>0, <1>1, <2>2, <2>3
    <2>5. gx = <<gx[1], gx[2]>> /\ kx = <<kx[1], kx[2]>>  BY <1>3
    <2> QED BY <2>4, <2>5, Zenon
<1>7. ASSUME NEW jx \in Names(G \o R)
      PROVE  h[Former(jx, Len(G))] \o Latter(jx, Len(G)) = <<f1[jx[1]], f2[jx[2]]>> \o Tail(Tail(jx))
    <2> DEFINE gx == Former(jx, Len(G))
    <2>1. gx \in Names(G) /\ gx = <<jx[1], jx[2]>> /\ Latter(jx, Len(G)) = Tail(Tail(jx))
        <3> HIDE DEF G, h
        <3> QED BY <1>2, <1>7, CutName
    <2> HIDE DEF gx
    <2>2. h[gx] = <<f1[gx[1]], f2[gx[2]]>>  BY <2>1
    <2>3. gx[1] = jx[1] /\ gx[2] = jx[2]  BY <2>1
    <2> HIDE DEF h, G
    <2>4. h[gx] \o Latter(jx, Len(G)) = <<f1[jx[1]], f2[jx[2]]>> \o Tail(Tail(jx))  BY <2>1, <2>2, <2>3
    <2> QED BY <2>4 DEF gx
<1> HIDE DEF F, G, c, h
<1>8. Becomes(View(c, G \o R), View(b, F \o R), Extensions(G \o R), Carried(h, G, R))
    <2>1. Maps(h, G, F, c, b)  BY <1>4, <1>5, <1>6 DEF Maps
    <2> QED BY <1>2, <2>1, FrontBecomes
<1>9. Carried(h, G, R) = PairBy(f1, f2, G \o R)  BY <1>7 DEF Carried, PairBy
<1>10. Extensions(<<e1, e2>> \o R) = <<Extension(e1), Extension(e2)>> \o Extensions(R)
       /\ Tail(Tail(Extensions(<<d1, d2>> \o R))) = Extensions(R)
    BY TwoExtents
<1>11. Extensions(G \o R) = <<Extension(e1), Extension(e2)>> \o Tail(Tail(Extensions(F \o R)))
    BY <1>10 DEF F, G
<1>12. Becomes(View(c, G \o R), View(b, F \o R),
               <<Extension(e1), Extension(e2)>> \o Tail(Tail(Extensions(F \o R))), PairBy(f1, f2, G \o R))
    BY <1>8, <1>9, <1>11, Zenon
<1> QED BY <1>12 DEF c, F, G

(* A sequence whose first element, or first two, another takes the place of. *)
LEMMA TwoOff ==
    ASSUME NEW D, NEW s \in Seq(D), Len(s) > 1
    PROVE  /\ Tail(Tail(s)) \in Seq(D) /\ Len(Tail(Tail(s))) = Len(s) - 2
           /\ \A k \in 1 .. Len(s) - 2 : Tail(Tail(s))[k] = s[k + 2]
<1> DEFINE t == Tail(s)
<1>1. t \in Seq(D) /\ Len(t) = Len(s) - 1 /\ \A k \in 1 .. Len(s) - 1 : t[k] = s[k + 1]  OBVIOUS
<1> HIDE DEF t
<1>2. t # <<>>  BY <1>1
<1>3. Tail(t) \in Seq(D) /\ Len(Tail(t)) = Len(t) - 1 /\ \A k \in 1 .. Len(t) - 1 : Tail(t)[k] = t[k + 1]
    BY <1>1, <1>2
<1>4. \A k \in 1 .. Len(s) - 2 : Tail(t)[k] = s[k + 2]
    <2> SUFFICES ASSUME NEW k \in 1 .. Len(s) - 2 PROVE Tail(t)[k] = s[k + 2]  OBVIOUS
    <2>1. k \in 1 .. Len(t) - 1 /\ k + 1 \in 1 .. Len(s) - 1 /\ (k + 1) + 1 = k + 2  BY <1>1
    <2>2. Tail(t)[k] = t[k + 1] /\ t[k + 1] = s[(k + 1) + 1]  BY <1>1, <1>3, <2>1
    <2> QED BY <2>1, <2>2
<1>5. Len(Tail(t)) = Len(s) - 2  BY <1>1, <1>3
<1> QED BY <1>3, <1>4, <1>5 DEF t

LEMMA ExceptFirst ==
    ASSUME NEW D, NEW s \in Seq(D), Len(s) > 0, NEW a \in D
    PROVE  [s EXCEPT ![1] = a] = <<a>> \o Tail(s)
<1>1. <<a>> \o Tail(s) \in Seq(D)  OBVIOUS
<1>2. [s EXCEPT ![1] = a] \in Seq(D)  OBVIOUS
<1>3. Agree([s EXCEPT ![1] = a], <<a>> \o Tail(s))  BY DEF Agree
<1> QED BY ONLY <1>1, <1>2, <1>3, SameSequence

BothSet(s, a, c) == [s EXCEPT ![1] = a, ![2] = c]

LEMMA ExceptTwo ==
    ASSUME NEW D, NEW s \in Seq(D), Len(s) > 1, NEW a \in D, NEW c \in D
    PROVE  BothSet(s, a, c) = <<a, c>> \o Tail(Tail(s))
<1> DEFINE t == Tail(Tail(s))
           u == [s EXCEPT ![1] = a, ![2] = c]
<1>1. t \in Seq(D) /\ Len(t) = Len(s) - 2 /\ \A k \in 1 .. Len(s) - 2 : t[k] = s[k + 2]  BY TwoOff
<1>2. u \in Seq(D) /\ Len(u) = Len(s) /\ u[1] = a /\ u[2] = c /\ \A k \in 3 .. Len(s) : u[k] = s[k]  OBVIOUS
<1> HIDE DEF t, u
<1>3. Agree(u, <<a, c>> \o t)  BY <1>1, <1>2 DEF Agree
<1>4. <<a, c>> \o t \in Seq(D)  BY <1>1
<1>5. u = <<a, c>> \o t  BY ONLY <1>2, <1>3, <1>4, SameSequence
<1> QED BY <1>5 DEF t, u, BothSet

LEMMA ExceptLast ==
    ASSUME NEW D, NEW s \in Seq(D), Len(s) = 2, NEW c \in D
    PROVE  [s EXCEPT ![2] = c] = <<s[1], c>> \o Tail(Tail(s))
<1> DEFINE t == Tail(Tail(s))
           u == [s EXCEPT ![2] = c]
<1>0. Len(s) > 1 /\ DOMAIN s = 1 .. 2 /\ s[1] \in D
    <2>1. Len(s) > 1 /\ 1 \in 1 .. Len(s) /\ DOMAIN s = 1 .. Len(s)  OBVIOUS
    <2>2. \A k \in 1 .. Len(s) : s[k] \in D  BY ONLY s \in Seq(D)
    <2>3. s[1] \in D  BY ONLY <2>1, <2>2
    <2> QED BY <2>1, <2>3
<1>1. t \in Seq(D) /\ Len(t) = Len(s) - 2  BY <1>0, TwoOff
<1>2. u \in Seq(D) /\ Len(u) = 2 /\ u[1] = s[1] /\ u[2] = c /\ s[1] \in D
    <2>1. DOMAIN u = 1 .. 2 /\ u[1] = s[1] /\ u[2] = c  BY <1>0
    <2>2. u \in Seq(D)  BY SMTT(30)
    <2> HIDE DEF u
    <2>3. Len(u) = 2  BY <2>1, <2>2
    <2> QED BY <1>0, <2>1, <2>2, <2>3
<1> HIDE DEF t, u
<1>3. Agree(u, <<s[1], c>> \o t)  BY <1>1, <1>2 DEF Agree
<1>4. <<s[1], c>> \o t \in Seq(D)  BY <1>1, <1>2
<1>5. u = <<s[1], c>> \o t  BY ONLY <1>2, <1>3, <1>4, SameSequence
<1> QED BY <1>5 DEF t, u

(* An index: one dimension less, the same elements (operator[]). *)
LEMMA IndexRenames ==
    ASSUME NEW v \in WholeViews, v.layout # <<>>, NEW i \in Indices(Extension(Head(v.layout)))
    PROVE  /\ Renames(At1(v, i), v)
           /\ Becomes(At1(v, i), v, Tail(Extensions(v.layout)),
                      [jx \in Names(At1(v, i).layout) |-> <<i>> \o jx])
<1> DEFINE d == Head(v.layout)
           R == Tail(v.layout)
           F == <<d>>
           G == <<>>
           b == v.base
           c == v.base + Shift(d, i)
           h == [gx \in Names(G) |-> <<i>>]
<1>1. /\ b \in Int /\ v = View(b, F \o R) /\ d \in WholeDims /\ R \in Seq(WholeDims)
    <2>1. v = View(b, v.layout) /\ b \in Int /\ v.layout \in Seq(WholeDims)  BY ViewOf
    <2>2. v.layout = F \o R /\ d \in WholeDims /\ R \in Seq(WholeDims)  BY <2>1, HeadTail
    <2> QED BY <2>1, <2>2, Zenon
<1>2. i \in Int /\ Shift(d, i) \in Int
    <2>1. d \in ArrayDims /\ d \in Dims  BY <1>1, WholeDimFacts DEF ArrayDims, WholeDims
    <2>2. Extension(d) \in Intervals  BY <2>1, ArrayDimFacts
    <2>3. i \in Int  BY <2>2 DEF Indices, Intervals
    <2> QED BY <2>1, <2>3, ShiftInt
<1>3. <<i>> \in Names(F) /\ Position(F, <<i>>) = Shift(d, i)  BY <1>1, <1>2, OneName
<1>4. F \in Seq(WholeDims) /\ G \in Seq(WholeDims) /\ c \in Int /\ G \o R = R  BY <1>1, <1>2
<1>5. h \in [Names(G) -> Names(F)]  BY <1>3
<1>6. \A gx \in Names(G) : c + Position(G, gx) = b + Position(F, h[gx])
    <2> SUFFICES ASSUME NEW gx \in Names(G) PROVE c + Position(G, gx) = b + Position(F, h[gx])
        OBVIOUS
    <2>1. gx = <<>> /\ Position(G, gx) = 0  BY NoNames
    <2>2. h[gx] = <<i>>  OBVIOUS
    <2>3. c + 0 = b + Shift(d, i)  BY <1>1, <1>2
    <2> QED BY <1>3, <2>1, <2>2, <2>3
<1>7. \A gx, kx \in Names(G) : h[gx] = h[kx] => gx = kx  BY NoNames
<1>8. At1(v, i) = View(c, G \o R)  BY <1>4 DEF At1
<1>9. At1(v, i).layout = G \o R /\ v.layout = F \o R  BY <1>1, <1>8 DEF View
<1>10. Extensions(G \o R) = Tail(Extensions(F \o R))  BY <1>1, <1>4, OneExtent
<1>11. ASSUME NEW jx \in Names(G \o R)
       PROVE  h[Former(jx, Len(G))] \o Latter(jx, Len(G)) = <<i>> \o jx
    <2>1. Len(G) = 0 /\ h[<<>>] = <<i>>  BY NoNames
    <2> HIDE DEF G, h
    <2>2. Former(jx, Len(G)) = <<>> /\ Latter(jx, Len(G)) = jx  BY <1>1, <1>4, <1>11, <2>1, CutName
    <2> QED BY <2>1, <2>2
<1> HIDE DEF d, R, F, G, b, c, h
<1>12. RenamesBy(View(c, G \o R), View(b, F \o R), Carried(h, G, R))
    <2>1. Maps(h, G, F, c, b)  BY <1>5, <1>6, <1>7 DEF Maps
    <2> QED BY <1>1, <1>4, <2>1, FrontRenames
<1>13. Carried(h, G, R) = [jx \in Names(G \o R) |-> <<i>> \o jx]  BY <1>11 DEF Carried
<1>14. RenamesBy(At1(v, i), v, [jx \in Names(At1(v, i).layout) |-> <<i>> \o jx])
    BY <1>1, <1>8, <1>9, <1>12, <1>13
<1>15. Renames(At1(v, i), v)  BY <1>14, RenamesSome
<1> QED BY <1>9, <1>10, <1>14, <1>15 DEF Becomes

(* A slice: the indices from first on are those of the view, from where it starts (sliced). *)
Slid(d, first, last) ==
    [i \in Indices(Extension(Resize(d, last - first))) |-> i - Extension(d)[1] + first]

LEMMA SliceMoves ==
    ASSUME NEW d \in WholeDims, NEW first \in Int, NEW last \in Int, Within(d, first, last), NEW b \in Int
    PROVE  /\ Resize(d, last - first) \in WholeDims
           /\ Extension(Resize(d, last - first)) = Promise!From(Extension(d)[1], last - first)
           /\ Shift(d, first) \in Int
           /\ Moves(Slid(d, first, last), Resize(d, last - first), b + Shift(d, first), d, b)
<1> DEFINE c == b + Shift(d, first)
           e == Resize(d, last - first)
           m == last - first
<1>3. Size(d) > 0 /\ Extension(d)[1] <= first /\ first <= last /\ last <= Extension(d)[2]
    BY DEF Within
<1>4. m \in Nat  BY <1>3
<1> HIDE DEF e
<1>5. PICK s \in Nat \ {0}, o \in Int, n \in Nat : IsRows(d, s, o, n)  BY WholeRows
<1>6. /\ Size(d) = n /\ Indices(Extension(d)) = o .. o + n - 1
      /\ n > 0 => Extension(d) = <<o, o + n>>
      /\ \A i \in Int : Shift(d, i) = (i - o) * s
    BY <1>5 DEF IsRows
<1>7. n > 0 /\ o <= first /\ last <= o + n  BY <1>3, <1>6
<1>8. e = Rows(s, o, m)
    <2>1. Quot(d.nelems, Size(d)) * m = m * d.stride  BY <1>3, <1>4, SliceDim
    <2>2. d.stride = s /\ d.offset = o * s  BY <1>5 DEF IsRows
    <2>3. e = [stride |-> d.stride, offset |-> d.offset, nelems |-> Quot(d.nelems, Size(d)) * m]
        <3>1. d = Rows(s, o, n)  BY <1>5 DEF IsRows
        <3> QED BY <3>1 DEF e, Resize, Rows, Dim
    <2> QED BY <2>1, <2>2, <2>3 DEF Rows, Dim
<1> HIDE DEF m
<1>9. /\ e \in WholeDims /\ Indices(Extension(e)) = o .. o + m - 1
      /\ Extension(e) = Promise!From(o, m)
      /\ \A i \in Int : Shift(e, i) = (i - o) * s
    <2>1. IsRows(e, s, o, m)  BY <1>4, <1>8, RowsAre, Zenon
    <2> QED BY <2>1 DEF IsRows
<1> DEFINE f == [i \in Indices(Extension(e)) |-> i - o + first]
<1>10. ASSUME NEW i \in Indices(Extension(e))
       PROVE  /\ i \in Int /\ i - o + first \in Indices(Extension(d)) /\ i - o + first \in Int
              /\ c + Shift(e, i) = b + Shift(d, i - o + first)
    <2>1. i \in Int /\ o <= i /\ i <= o + m - 1  BY <1>4, <1>9
    <2>2. i - o + first \in o .. o + n - 1  BY <1>7, <2>1 DEF m
    <2>3. Shift(d, first) = (first - o) * s /\ Shift(e, i) = (i - o) * s  BY <1>6, <1>9, <2>1
    <2>4. Shift(d, i - o + first) = ((i - o + first) - o) * s
        <3>1. i - o + first \in Int  BY <2>1
        <3> QED BY <1>6, <3>1
    <2>5. (first - o) * s + (i - o) * s = ((i - o + first) - o) * s  BY <2>1
    <2>6. (first - o) * s \in Int /\ (i - o) * s \in Int  BY <2>1
    <2>7. i - o + first \in Indices(Extension(d)) /\ i - o + first \in Int
        <3>1. i - o + first \in Int  BY <2>1
        <3> QED BY <1>6, <2>2, <3>1
    <2>8. Shift(d, i - o + first) = Shift(d, first) + Shift(e, i)  BY <2>3, <2>4, <2>5
    <2>9. Shift(d, first) \in Int /\ Shift(e, i) \in Int  BY <2>3, <2>6
    <2>10. c + Shift(e, i) = b + (Shift(d, first) + Shift(e, i))
        <3> DEFINE x == Shift(d, first)
                   y == Shift(e, i)
        <3>1. x \in Int /\ y \in Int /\ c = b + x  BY <2>9
        <3> HIDE DEF x, y, c
        <3>2. c + y = b + (x + y)  BY <3>1
        <3> QED BY <3>2 DEF x, y
    <2> HIDE DEF c
    <2> QED BY <2>1, <2>7, <2>8, <2>10
<1>11. f \in [Indices(Extension(e)) -> Indices(Extension(d))]  BY <1>10
<1>12. \A i \in Indices(Extension(e)) : i \in Int /\ f[i] \in Int /\ c + Shift(e, i) = b + Shift(d, f[i])
    BY <1>10
<1>13. \A i, j \in Indices(Extension(e)) : f[i] = f[j] => i = j
    <2> SUFFICES ASSUME NEW i \in Indices(Extension(e)), NEW j \in Indices(Extension(e)), f[i] = f[j]
                 PROVE  i = j
        OBVIOUS
    <2>1. i \in Int /\ j \in Int /\ i - o + first = j - o + first  BY <1>10
    <2> QED BY <2>1
<1>14. Shift(d, first) \in Int
    <2>1. Shift(d, first) = (first - o) * s  BY <1>6
    <2> QED BY <2>1
<1>15. Extension(d)[1] = o  BY <1>6, <1>7
<1>16. f = Slid(d, first, last)  BY <1>15 DEF Slid, e
<1> HIDE DEF f, c
<1>17. Moves(f, e, c, d, b)  BY <1>11, <1>12, <1>13 DEF Moves
<1> QED BY <1>9, <1>14, <1>15, <1>16, <1>17 DEF c, e, m

LEMMA SliceRenames ==
    ASSUME NEW v \in WholeViews, v.layout # <<>>, NEW first \in Int, NEW last \in Int,
           Within(Head(v.layout), first, last)
    PROVE  /\ Renames(Slice(v, first, last), v)
           /\ Becomes(Slice(v, first, last), v,
                      <<Promise!From(Extension(Head(v.layout))[1], last - first)>> \o Tail(Extensions(v.layout)),
                      [jx \in Names(Slice(v, first, last).layout) |->
                           <<jx[1] - Extension(Head(v.layout))[1] + first>> \o Tail(jx)])
<1> DEFINE d == Head(v.layout)
           R == Tail(v.layout)
           b == v.base
           c == b + Shift(d, first)
           e == Resize(d, last - first)
           m == last - first
           f == Slid(d, first, last)
<1>1. v = View(b, <<d>> \o R) /\ b \in Int /\ d \in WholeDims /\ R \in Seq(WholeDims)
    <2>1. v = View(b, v.layout) /\ b \in Int /\ v.layout \in Seq(WholeDims)  BY ViewOf
    <2>2. v.layout = <<d>> \o R /\ d \in WholeDims /\ R \in Seq(WholeDims)  BY <2>1, HeadTail
    <2> QED BY <2>1, <2>2, Zenon
<1>2. Slice(v, first, last) = View(c, <<e>> \o R)  BY DEF Slice
<1>3. /\ e \in WholeDims /\ Extension(e) = Promise!From(Extension(d)[1], m)
      /\ Shift(d, first) \in Int /\ Moves(f, e, c, d, b)
    <2> HIDE DEF d, b
    <2>1. Within(d, first, last)  BY DEF d
    <2> QED BY <1>1, <2>1, SliceMoves
<1> HIDE DEF d, R, b, e, m
<1>4. c \in Int  BY <1>1, <1>3
<1>5. \A jx \in Names(<<e>> \o R) : f[jx[1]] = jx[1] - Extension(d)[1] + first
    BY <1>1, <1>3, LeadName DEF Slid, e
<1> HIDE DEF f, c
<1>6. Becomes(View(c, <<e>> \o R), View(b, <<d>> \o R), <<Extension(e)>> \o Tail(Extensions(<<d>> \o R)),
              LeadBy(f, <<e>> \o R))
    BY <1>1, <1>3, <1>4, OneRenames
<1>7. LeadBy(f, <<e>> \o R)
          = [jx \in Names(<<e>> \o R) |-> <<jx[1] - Extension(d)[1] + first>> \o Tail(jx)]
    BY <1>5 DEF LeadBy
<1>8. Slice(v, first, last).layout = <<e>> \o R /\ v.layout = <<d>> \o R
    <2>1. View(c, <<e>> \o R).layout = <<e>> \o R /\ View(b, <<d>> \o R).layout = <<d>> \o R  BY ONLY ViewParts, ZenonT(30)
    <2> QED BY <1>1, <1>2, <2>1, Zenon
<1>9. Becomes(Slice(v, first, last), v,
              <<Promise!From(Extension(d)[1], m)>> \o Tail(Extensions(v.layout)),
              [jx \in Names(Slice(v, first, last).layout) |->
                   <<jx[1] - Extension(d)[1] + first>> \o Tail(jx)])
    BY <1>1, <1>2, <1>3, <1>6, <1>7, <1>8
<1>10. Renames(Slice(v, first, last), v)  BY <1>9, BecomesSome
<1> QED BY <1>9, <1>10 DEF d, m

(* Another first index (reindexed). *)
LEMMA ReindexRenames ==
    ASSUME NEW v \in WholeViews, v.layout # <<>>, NEW first \in Int
    PROVE  /\ Renames(ReindexView(v, first), v)
           /\ Becomes(ReindexView(v, first), v,
                      <<Promise!From(first, Count(Extension(Head(v.layout))))>> \o Tail(Extensions(v.layout)),
                      [jx \in Names(ReindexView(v, first).layout) |->
                           <<jx[1] - first + Extension(Head(v.layout))[1]>> \o Tail(jx)])
<1> DEFINE d == Head(v.layout)
           R == Tail(v.layout)
           b == v.base
           e == Reindex(d, first)
<1>1. v = View(b, <<d>> \o R) /\ b \in Int /\ d \in WholeDims /\ R \in Seq(WholeDims)
    <2>1. v = View(b, v.layout) /\ b \in Int /\ v.layout \in Seq(WholeDims)  BY ViewOf
    <2>2. v.layout = <<d>> \o R /\ d \in WholeDims /\ R \in Seq(WholeDims)  BY <2>1, HeadTail
    <2> QED BY <2>1, <2>2, Zenon
<1>2. ReindexView(v, first) = View(b, <<e>> \o R)  BY DEF ReindexView
<1> HIDE DEF d, R, b, e
<1>3. PICK s \in Nat \ {0}, o \in Int, n \in Nat : IsRows(d, s, o, n)  BY <1>1, WholeRows
<1>4. /\ Indices(Extension(d)) = o .. o + n - 1
      /\ \A i \in Int : Shift(d, i) = (i - o) * s
    BY <1>3 DEF IsRows
<1>5. e = Rows(s, first, n)
    <2>1. d = Rows(s, o, n)  BY <1>3 DEF IsRows
    <2> QED BY <2>1 DEF e, Reindex, Rows, Dim
<1>6. /\ e \in WholeDims /\ Indices(Extension(e)) = first .. first + n - 1
      /\ \A i \in Int : Shift(e, i) = (i - first) * s
    <2>1. IsRows(e, s, first, n)  BY <1>5, RowsAre, Zenon
    <2> QED BY <2>1 DEF IsRows
<1> DEFINE f == [i \in Indices(Extension(e)) |-> i - first + o]
<1>7. ASSUME NEW i \in Indices(Extension(e))
      PROVE  /\ i \in Int /\ i - first + o \in Indices(Extension(d)) /\ i - first + o \in Int
             /\ b + Shift(e, i) = b + Shift(d, i - first + o)
    <2>1. i \in Int /\ first <= i /\ i <= first + n - 1  BY <1>6
    <2>2. i - first + o \in o .. o + n - 1  BY <2>1
    <2>3. Shift(e, i) = (i - first) * s  BY <1>6, <2>1
    <2>4. Shift(d, i - first + o) = ((i - first + o) - o) * s
        <3>1. i - first + o \in Int  BY <2>1
        <3> QED BY <1>4, <3>1
    <2>5. (i - first + o) - o = i - first  BY <2>1
    <2> QED BY <1>4, <2>1, <2>2, <2>3, <2>4, <2>5
<1>8. f \in [Indices(Extension(e)) -> Indices(Extension(d))]  BY <1>7
<1>9. \A i \in Indices(Extension(e)) : i \in Int /\ f[i] \in Int /\ b + Shift(e, i) = b + Shift(d, f[i])
    BY <1>7
<1>10. \A i, j \in Indices(Extension(e)) : f[i] = f[j] => i = j
    <2> SUFFICES ASSUME NEW i \in Indices(Extension(e)), NEW j \in Indices(Extension(e)), f[i] = f[j]
                 PROVE  i = j
        OBVIOUS
    <2>1. i \in Int /\ j \in Int /\ i - first + o = j - first + o  BY <1>7
    <2> QED BY <2>1
<1>11. Extension(e) = Promise!From(first, n)
    <2>1. IsRows(e, s, first, n)  BY <1>5, RowsAre, Zenon
    <2> QED BY <2>1 DEF IsRows
<1>12. Count(Extension(d)) = n /\ (n > 0 => Extension(d)[1] = o)  BY <1>3, RowsCount
<1>13. ASSUME NEW jx \in Names(<<e>> \o R)
       PROVE  f[jx[1]] = jx[1] - first + Extension(d)[1]
    <2>1. jx[1] \in Indices(Extension(e))  BY <1>1, <1>6, <1>13, LeadName
    <2>2. jx[1] \in first .. first + n - 1  BY <1>6, <2>1
    <2>3. n > 0  BY <2>2
    <2> QED BY <1>12, <2>1, <2>3
<1> HIDE DEF f
<1>14. Becomes(View(b, <<e>> \o R), View(b, <<d>> \o R), <<Extension(e)>> \o Tail(Extensions(<<d>> \o R)),
               LeadBy(f, <<e>> \o R))
    <2>1. Moves(f, e, b, d, b)  BY <1>8, <1>9, <1>10 DEF Moves
    <2>2. b \in Int /\ d \in WholeDims /\ e \in WholeDims /\ R \in Seq(WholeDims)  BY <1>1, <1>6
    <2> QED BY ONLY <2>1, <2>2, OneRenames
<1>15. LeadBy(f, <<e>> \o R)
          = [jx \in Names(<<e>> \o R) |-> <<jx[1] - first + Extension(d)[1]>> \o Tail(jx)]
    BY <1>13 DEF LeadBy
<1>16. ReindexView(v, first).layout = <<e>> \o R /\ v.layout = <<d>> \o R
    <2>1. View(b, <<e>> \o R).layout = <<e>> \o R /\ View(b, <<d>> \o R).layout = <<d>> \o R  BY ONLY ViewParts, ZenonT(30)
    <2> QED BY <1>1, <1>2, <2>1, Zenon
<1>17. Becomes(ReindexView(v, first), v,
               <<Promise!From(first, Count(Extension(d)))>> \o Tail(Extensions(v.layout)),
               [jx \in Names(ReindexView(v, first).layout) |->
                    <<jx[1] - first + Extension(d)[1]>> \o Tail(jx)])
    BY <1>1, <1>2, <1>11, <1>12, <1>14, <1>15, <1>16
<1>18. Renames(ReindexView(v, first), v)  BY <1>17, BecomesSome
<1> QED BY <1>17, <1>18 DEF d

(* A block: a slice that keeps its first index (blocked). *)
LEMMA FirstThen ==
    ASSUME NEW D, NEW a \in D, NEW s \in Seq(D)
    PROVE  /\ (<<a>> \o s)[1] = a /\ Tail(<<a>> \o s) = s
           /\ Len(s) > 0 => s = <<s[1]>> \o Tail(s)
<1>1. (<<a>> \o s)[1] = a  OBVIOUS
<1>2. Tail(<<a>> \o s) = s
    <2> DEFINE t == <<a>> \o s
    <2>1. t \in Seq(D) /\ Len(t) = Len(s) + 1 /\ \A k \in 1 .. Len(s) : t[k + 1] = s[k]  OBVIOUS
    <2> HIDE DEF t
    <2>2. t # <<>> /\ Len(s) \in Nat  BY <2>1
    <2>3. Tail(t) \in Seq(D) /\ Len(Tail(t)) = Len(s) /\ \A k \in 1 .. Len(s) : Tail(t)[k] = t[k + 1]
        BY <2>1, <2>2
    <2>4. Agree(Tail(t), s)  BY <2>1, <2>3 DEF Agree
    <2>5. s \in Seq(D)  OBVIOUS
    <2>6. Tail(t) = s  BY ONLY <2>3, <2>4, <2>5, SameSequence
    <2> QED BY <2>6 DEF t
<1>3. ASSUME Len(s) > 0 PROVE s = <<s[1]>> \o Tail(s)
    <2>1. s # <<>> /\ s[1] \in D /\ Tail(s) \in Seq(D)  BY <1>3
    <2> QED BY <1>3, <2>1
<1> QED BY <1>1, <1>2, <1>3

LEMMA BlockRenames ==
    ASSUME NEW v \in WholeViews, v.layout # <<>>, NEW first \in Int, NEW last \in Int,
           Within(Head(v.layout), first, last), first < last
    PROVE  LET w == ReindexView(Slice(v, first, last), first)
           IN  Becomes(w, v, <<Promise!From(first, last - first)>> \o Tail(Extensions(v.layout)),
                       [jx \in Names(w.layout) |-> jx])
<1> DEFINE d == Head(v.layout)
           R == Tail(v.layout)
           A == Slice(v, first, last)
           m == last - first
           e == Resize(d, m)
           x == Extension(d)
           w == ReindexView(A, first)
           g == [jx \in Names(A.layout) |-> <<jx[1] - x[1] + first>> \o Tail(jx)]
           x2 == Extension(Head(A.layout))
           h == [jx \in Names(w.layout) |-> <<jx[1] - first + x2[1]>> \o Tail(jx)]
<1>1. v.layout = <<d>> \o R /\ d \in WholeDims /\ R \in Seq(WholeDims) /\ Size(d) > 0 /\ first <= last
    <2>1. v.layout \in Seq(WholeDims)  BY ViewOf
    <2> QED BY <2>1, HeadTail DEF Within
<1>2. e \in WholeDims /\ Extension(e) = Promise!From(x[1], m) /\ x[1] \in Int
    <2>1. Within(d, first, last) /\ 0 \in Int  OBVIOUS
    <2> HIDE DEF d
    <2>2. e \in WholeDims /\ Extension(e) = Promise!From(x[1], m)  BY <1>1, <2>1, SliceMoves
    <2>3. d \in ArrayDims  BY <1>1, WholeDimFacts DEF ArrayDims, WholeDims
    <2>4. x \in Intervals  BY <2>3, ArrayDimFacts
    <2> QED BY <2>2, <2>4 DEF Intervals
<1>3. A.layout = <<e>> \o R  BY DEF Slice, View
<1>4. A \in WholeViews /\ A.layout # <<>>
    <2>1. A \in WholeViews /\ Len(A.layout) = Len(v.layout)  BY <1>1, SliceKeeps
    <2>2. A.layout \in Seq(WholeDims) /\ v.layout \in Seq(WholeDims)  BY <2>1, ViewOf
    <2> HIDE DEF A
    <2> QED BY <2>1, <2>2
<1>5. Becomes(A, v, <<Promise!From(x[1], m)>> \o Tail(Extensions(v.layout)), g)
    BY SliceRenames
<1>6. w \in WholeViews
    <2> HIDE DEF A
    <2> QED BY <1>4, ReindexKeeps
<1> HIDE DEF A, d, R, e
<1>7. Becomes(w, A, <<Promise!From(first, Count(x2))>> \o Tail(Extensions(A.layout)), h)
    BY <1>4, ReindexRenames
<1>8. x2 = <<x[1], x[1] + m>>
    <2>1. Head(A.layout) = e  BY <1>1, <1>2, <1>3
    <2>2. m # 0  OBVIOUS
    <2> HIDE DEF m
    <2>3. Promise!From(x[1], m) = <<x[1], x[1] + m>>  BY <2>2 DEF Promise!From
    <2> QED BY <1>2, <2>1, <2>3
<1> HIDE DEF x2, x, g, h, w
<1>9. x2[1] = x[1] /\ Count(x2) = m
    <2>1. m \in Int  OBVIOUS
    <2> HIDE DEF m
    <2> QED BY <1>2, <1>8, <2>1 DEF Count
<1>10. Tail(Extensions(A.layout)) = Tail(Extensions(v.layout))
    <2>1. Tail(Extensions(<<e>> \o R)) = Extensions(R)  BY <1>1, <1>2, OneExtent
    <2>2. Tail(Extensions(<<d>> \o R)) = Extensions(R)  BY <1>1, OneExtent
    <2> QED BY <1>1, <1>3, <2>1, <2>2, Zenon
<1>11. /\ RenamesBy(A, v, g) /\ RenamesBy(w, A, h)
       /\ Extensions(w.layout) = <<Promise!From(first, m)>> \o Tail(Extensions(v.layout))
    <2>1. RenamesBy(A, v, g)  BY <1>5 DEF Becomes
    <2>2. RenamesBy(w, A, h) /\ Extensions(w.layout) = <<Promise!From(first, Count(x2))>> \o Tail(Extensions(A.layout))
        BY <1>7 DEF Becomes
    <2> QED BY <1>9, <1>10, <2>1, <2>2, Zenon
<1>12. RenamesBy(w, v, [ix \in Names(w.layout) |-> g[h[ix]]])  BY <1>11, RenamesByThen
<1>13. ASSUME NEW ix \in Names(w.layout) PROVE g[h[ix]] = ix
    <2>1. h[ix] \in Names(A.layout)
        <3>1. h \in [Names(w.layout) -> Names(A.layout)]  BY <1>11 DEF RenamesBy
        <3> QED BY <3>1
    <2>2. ix \in Seq(Int) /\ Len(ix) > 0 /\ ix[1] \in Int
        <3> DEFINE W == w.layout
                   c == Head(W)
                   Q == Tail(W)
        <3>1. W \in Seq(WholeDims) /\ W \in Seq(ArrayDims)  BY <1>6, ViewOf, WholeLayouts
        <3>2. Len(W) > 0
            <4>1. w.layout = <<Reindex(Head(A.layout), first)>> \o Tail(A.layout)  BY DEF w, ReindexView, View
            <4>2. A.layout \in Seq(WholeDims)  BY <1>4, ViewOf
            <4>3. Tail(A.layout) \in Seq(WholeDims)  BY <1>4, <4>2
            <4> DEFINE a == Reindex(Head(A.layout), first)
                       s == Tail(A.layout)
            <4> HIDE DEF a, s
            <4>4. Len(<<a>> \o s) = Len(s) + 1 /\ Len(s) \in Nat  BY <4>3 DEF s
            <4> QED BY <4>1, <4>4 DEF a, s
        <3> HIDE DEF W
        <3>3. ix \in Names(W)  BY DEF W
        <3>4. ix \in Seq(Int) /\ Len(ix) = Len(W)  BY <3>1, <3>3, NamesAre DEF IsName
        <3> QED BY <3>2, <3>4
    <2> DEFINE t == Tail(ix)
               i == ix[1]
               o == x[1]
    <2>3. h[ix] = <<i - first + o>> \o t  BY <1>9 DEF h
    <2>4. t \in Seq(Int) /\ ix = <<i>> \o t
        <3>1. t \in Seq(Int)  BY <2>2
        <3>2. ix = <<i>> \o t  BY <2>2, FirstThen
        <3> QED BY <3>1, <3>2
    <2>5. i \in Int /\ o \in Int /\ i - first + o \in Int  BY <1>2, <2>2
    <2>6. g[h[ix]] = <<h[ix][1] - o + first>> \o Tail(h[ix])  BY <2>1 DEF g
    <2> HIDE DEF t, i, o
    <2>7. h[ix][1] = i - first + o /\ Tail(h[ix]) = t  BY <2>3, <2>4, <2>5, FirstThen
    <2>8. (i - first + o) - o + first = i  BY <2>5
    <2> QED BY <2>4, <2>6, <2>7, <2>8, Zenon
<1>14. [ix \in Names(w.layout) |-> g[h[ix]]] = [jx \in Names(w.layout) |-> jx]  BY <1>13
<1>15. Becomes(w, v, <<Promise!From(first, m)>> \o Tail(Extensions(v.layout)), [jx \in Names(w.layout) |-> jx])
    BY <1>11, <1>12, <1>14 DEF Becomes
<1> QED BY <1>15 DEF w, A

(* Every t-th index; t divides the size and the first index (strided). *)
LEMMA StrideRenames ==
    ASSUME NEW v \in WholeViews, v.layout # <<>>, NEW t \in Nat \ {0},
           Size(Head(v.layout)) % t = 0,
           Quot(Head(v.layout).offset, Head(v.layout).stride) % t = 0
    PROVE  /\ Renames(StrideView(v, t), v)
           /\ Becomes(StrideView(v, t), v,
                      <<Promise!From(Extension(Head(v.layout))[1] \div t,
                                     Count(Extension(Head(v.layout))) \div t)>> \o Tail(Extensions(v.layout)),
                      [jx \in Names(StrideView(v, t).layout) |-> <<jx[1] * t>> \o Tail(jx)])
<1> DEFINE d == Head(v.layout)
           R == Tail(v.layout)
           b == v.base
           e == [d EXCEPT !.stride = @ * t]
<1>1. v = View(b, <<d>> \o R) /\ b \in Int /\ d \in WholeDims /\ R \in Seq(WholeDims)
    <2>1. v = View(b, v.layout) /\ b \in Int /\ v.layout \in Seq(WholeDims)  BY ViewOf
    <2>2. v.layout = <<d>> \o R /\ d \in WholeDims /\ R \in Seq(WholeDims)  BY <2>1, HeadTail
    <2> QED BY <2>1, <2>2, Zenon
<1>2. StrideView(v, t) = View(b, <<e>> \o R)  BY DEF StrideView
<1>0. Size(d) % t = 0 /\ Quot(d.offset, d.stride) % t = 0  OBVIOUS
<1> HIDE DEF d, R, b, e
<1>3. PICK s \in Nat \ {0}, o \in Int, n \in Nat : IsRows(d, s, o, n)  BY <1>1, WholeRows
<1>4. /\ Size(d) = n /\ Indices(Extension(d)) = o .. o + n - 1
      /\ \A i \in Int : Shift(d, i) = (i - o) * s
    BY <1>3 DEF IsRows
<1>5. Quot(d.offset, d.stride) = o  BY <1>3 DEF IsRows
<1>6. PICK p \in Int, q \in Int : n = p * t /\ o = q * t
    <2>1. n % t = 0 /\ o % t = 0  BY <1>0, <1>4, <1>5
    <2>2. n = (n \div t) * t /\ o = (o \div t) * t  BY <2>1, Multiple
    <2>3. n \div t \in Int /\ o \div t \in Int  OBVIOUS
    <2> QED BY <2>2, <2>3
<1>7. p \in Nat
    <2>1. ~ (p < 0)
        <3> SUFFICES ASSUME p < 0 PROVE FALSE
            OBVIOUS
        <3>1. p * t < 0  OBVIOUS
        <3> QED BY <1>6, <3>1
    <2> QED BY <2>1
<1>8. s * t \in Nat \ {0}  OBVIOUS
<1>9. e = Rows(s * t, q, p)
    <2>1. o * s = q * (s * t) /\ n * s = p * (s * t)
        <3>1. (q * t) * s = q * (s * t) /\ (p * t) * s = p * (s * t)  BY <1>6, <1>7
        <3> QED BY <1>6, <3>1
    <2>2. e = [stride |-> s * t, offset |-> o * s, nelems |-> n * s]
        <3>1. d = Rows(s, o, n)  BY <1>3 DEF IsRows
        <3> QED BY <3>1 DEF e, Rows, Dim
    <2> QED BY <2>1, <2>2 DEF Rows, Dim
<1>10. /\ e \in WholeDims /\ Indices(Extension(e)) = q .. q + p - 1
       /\ \A i \in Int : Shift(e, i) = (i - q) * (s * t)
    <2>1. IsRows(e, s * t, q, p)  BY <1>7, <1>8, <1>9, RowsAre, Zenon
    <2> QED BY <2>1 DEF IsRows
<1> DEFINE f == [i \in Indices(Extension(e)) |-> i * t]
<1>11. ASSUME NEW i \in Indices(Extension(e))
       PROVE  /\ i \in Int /\ i * t \in Indices(Extension(d)) /\ i * t \in Int
              /\ b + Shift(e, i) = b + Shift(d, i * t)
    <2>1. i \in Int /\ q <= i /\ i <= q + p - 1  BY <1>7, <1>10
    <2>2. i * t \in Int /\ (i - q) * t \in Int  BY <2>1
    <2>3. i * t - o = (i - q) * t
        <3>1. (i - q) * t = i * t - q * t  BY <2>1
        <3> QED BY <1>6, <3>1
    <2>4. (i - q) * t >= 0 /\ (i - q) * t <= n - 1
        <3>1. (i - q) * t >= 0  BY <2>1
        <3>2. (p - 1 - (i - q)) * t >= 0  BY <1>7, <2>1
        <3>3. (p - 1 - (i - q)) * t = p * t - t - (i - q) * t  BY <1>7, <2>1
        <3> QED BY <1>6, <2>2, <3>1, <3>2, <3>3
    <2>5. i * t \in o .. o + n - 1  BY <2>2, <2>3, <2>4
    <2>6. Shift(e, i) = (i - q) * (s * t) /\ Shift(d, i * t) = (i * t - o) * s
        BY <1>4, <1>10, <2>1, <2>2
    <2>7. (i - q) * (s * t) = ((i - q) * t) * s  BY <2>1
    <2> QED BY <1>4, <2>1, <2>2, <2>3, <2>5, <2>6, <2>7
<1>12. f \in [Indices(Extension(e)) -> Indices(Extension(d))]  BY <1>11
<1>13. \A i \in Indices(Extension(e)) : i \in Int /\ f[i] \in Int /\ b + Shift(e, i) = b + Shift(d, f[i])
    BY <1>11
<1>14. \A i, j \in Indices(Extension(e)) : f[i] = f[j] => i = j
    <2> SUFFICES ASSUME NEW i \in Indices(Extension(e)), NEW j \in Indices(Extension(e)), f[i] = f[j]
                 PROVE  i = j
        OBVIOUS
    <2>1. i \in Int /\ j \in Int /\ i * t = j * t  BY <1>11
    <2> QED BY <2>1, Cancels
<1>15. Extension(e) = Promise!From(Extension(d)[1] \div t, Count(Extension(d)) \div t)
    <2>1. Extension(e) = Promise!From(q, p)
        <3>1. IsRows(e, s * t, q, p)  BY <1>7, <1>8, <1>9, RowsAre, Zenon
        <3> QED BY <3>1 DEF IsRows
    <2>2. /\ Count(Extension(d)) = n /\ (n > 0 => Extension(d)[1] = o)
          /\ n = 0 => Extension(d) = <<0, 0>>
        BY <1>3, RowsCount
    <2>3. n \div t = p /\ o \div t = q  BY <1>6
    <2>4. CASE n > 0  BY <2>1, <2>2, <2>3, <2>4
    <2>5. CASE n = 0
        <3>1. p = 0  BY <1>6, <1>7, <2>5
        <3>2. Count(Extension(d)) \div t = 0  BY <2>2, <2>3, <3>1
        <3> QED BY <2>1, <3>1, <3>2 DEF Promise!From
    <2> QED BY <2>4, <2>5
<1>16. \A jx \in Names(<<e>> \o R) : f[jx[1]] = jx[1] * t  BY <1>1, <1>10, LeadName
<1> HIDE DEF f
<1>17. Becomes(View(b, <<e>> \o R), View(b, <<d>> \o R), <<Extension(e)>> \o Tail(Extensions(<<d>> \o R)),
               LeadBy(f, <<e>> \o R))
    <2>1. Moves(f, e, b, d, b)  BY <1>12, <1>13, <1>14 DEF Moves
    <2>2. b \in Int /\ d \in WholeDims /\ e \in WholeDims /\ R \in Seq(WholeDims)  BY <1>1, <1>10
    <2> QED BY ONLY <2>1, <2>2, OneRenames
<1>18. LeadBy(f, <<e>> \o R) = [jx \in Names(<<e>> \o R) |-> <<jx[1] * t>> \o Tail(jx)]
    BY <1>16 DEF LeadBy
<1>19. StrideView(v, t).layout = <<e>> \o R /\ v.layout = <<d>> \o R
    <2>1. View(b, <<e>> \o R).layout = <<e>> \o R /\ View(b, <<d>> \o R).layout = <<d>> \o R  BY ONLY ViewParts, ZenonT(30)
    <2> QED BY <1>1, <1>2, <2>1, Zenon
<1>20. Becomes(StrideView(v, t), v,
               <<Promise!From(Extension(d)[1] \div t, Count(Extension(d)) \div t)>> \o Tail(Extensions(v.layout)),
               [jx \in Names(StrideView(v, t).layout) |-> <<jx[1] * t>> \o Tail(jx)])
    BY <1>1, <1>2, <1>15, <1>17, <1>18, <1>19
<1>21. Renames(StrideView(v, t), v)  BY <1>20, BecomesSome
<1> QED BY <1>20, <1>21 DEF d

(* Turning a layout n times brings dimension n + 1 to the front. *)
LEMMA RotateBrings ==
    ASSUME NEW L \in Seq(WholeDims), NEW n \in 0 .. Len(L) - 1
    PROVE  /\ Rotate(L, n) \in Seq(WholeDims)
           /\ Rotate(L, n) # <<>>
           /\ Head(Rotate(L, n)) = L[n + 1]
<1>1. Len(L) \in Nat \ {0} /\ L # <<>> /\ n \in Int /\ n >= 0  OBVIOUS
<1>2. CASE Len(L) < 2
    <2>1. n = 0 /\ Rotate(L, n) = L  BY <1>1, <1>2 DEF Rotate
    <2> QED BY <1>1, <2>1
<1>3. CASE ~(Len(L) < 2)
    <2>1. Rotate(L, n) = Turn(L, n)  BY <1>1, <1>3 DEF Rotate
    <2>2. Turn(L, n) \in Seq(WholeDims) /\ Len(Turn(L, n)) = Len(L)  BY <1>1, TurnKeeps
    <2>3. Turn(L, n)[1] = L[((1 - 1 + n) % Len(L)) + 1]  BY <1>1 DEF Turn
    <2>4. (1 - 1 + n) % Len(L) = n  BY <1>1
    <2>5. Turn(L, n)[1] = L[n + 1]  BY <2>3, <2>4
    <2>6. Turn(L, n) # <<>> /\ Head(Turn(L, n)) = Turn(L, n)[1]  BY <1>1, <2>2
    <2> QED BY <2>1, <2>2, <2>5, <2>6
<1> QED BY <1>2, <1>3

(* Turns add up, and a whole round is none. *)
LEMMA TurnFacts ==
    ASSUME NEW D, NEW s \in Seq(D), Len(s) > 0, NEW a \in Int
    PROVE  /\ Turn(s, a) \in Seq(D) /\ Len(Turn(s, a)) = Len(s)
           /\ \A k \in 1 .. Len(s) : Turn(s, a)[k] = s[((k - 1 + a) % Len(s)) + 1]
<1>1. Len(s) \in Nat \ {0} /\ DOMAIN s = 1 .. Len(s)  OBVIOUS
<1>2. \A k \in 1 .. Len(s) : ((k - 1 + a) % Len(s)) + 1 \in 1 .. Len(s)  BY <1>1
<1>3. Turn(s, a) = [k \in 1 .. Len(s) |-> s[((k - 1 + a) % Len(s)) + 1]]  BY <1>1 DEF Turn
<1>4. \A k \in 1 .. Len(s) : s[((k - 1 + a) % Len(s)) + 1] \in D  BY <1>2
<1> QED BY <1>1, <1>3, <1>4

LEMMA TurnNone ==
    ASSUME NEW D, NEW s \in Seq(D), Len(s) > 0
    PROVE  Turn(s, 0) = s
<1> DEFINE t == Turn(s, 0)
<1>1. t \in Seq(D) /\ Len(t) = Len(s)
      /\ \A k \in 1 .. Len(s) : t[k] = s[((k - 1 + 0) % Len(s)) + 1]
    <2>1. 0 \in Int  OBVIOUS
    <2> QED BY <2>1, TurnFacts
<1>2. \A k \in 1 .. Len(s) : ((k - 1 + 0) % Len(s)) + 1 = k  OBVIOUS
<1> HIDE DEF t
<1>3. Agree(t, s)  BY <1>1, <1>2 DEF Agree
<1>4. t = s  BY <1>1, <1>3, SameSequence
<1> QED BY <1>4 DEF t

LEMMA TurnAgain ==
    ASSUME NEW D, NEW s \in Seq(D), Len(s) > 0, NEW a \in Int, NEW c \in Int
    PROVE  Turn(Turn(s, a), c) = Turn(s, a + c)
<1> DEFINE t == Turn(s, a)
           u == Turn(t, c)
           w == Turn(s, a + c)
           n == Len(s)
<1>1. n \in Nat \ {0} /\ a + c \in Int  OBVIOUS
<1>2. t \in Seq(D) /\ Len(t) = n /\ \A k \in 1 .. n : t[k] = s[((k - 1 + a) % n) + 1]  BY TurnFacts
<1> HIDE DEF t
<1>3. u \in Seq(D) /\ Len(u) = n /\ \A k \in 1 .. n : u[k] = t[((k - 1 + c) % n) + 1]
    BY <1>1, <1>2, TurnFacts
<1>4. w \in Seq(D) /\ Len(w) = n /\ \A k \in 1 .. n : w[k] = s[((k - 1 + (a + c)) % n) + 1]
    BY <1>1, TurnFacts
<1> HIDE DEF u, w, n
<1>5. ASSUME NEW k \in 1 .. n PROVE u[k] = w[k]
    <2> DEFINE j == (k - 1 + c) % n
    <2>1. k - 1 + c \in Int /\ k - 1 + (a + c) = a + (k - 1 + c)  OBVIOUS
    <2>2. j \in 0 .. n - 1  BY <1>1, <2>1, Division
    <2>3. (a + j) % n = (a + (k - 1 + c)) % n  BY <1>1, <2>1, RemainderOfSum
    <2>4. u[k] = t[j + 1]  BY <1>3
    <2> HIDE DEF j
    <2>5. j + 1 \in 1 .. n /\ (j + 1) - 1 + a = a + j  BY <1>1, <2>2
    <2>6. t[j + 1] = s[((a + j) % n) + 1]  BY <1>2, <2>5
    <2>7. w[k] = s[((a + (k - 1 + c)) % n) + 1]  BY <1>4, <2>1
    <2> QED BY <2>3, <2>4, <2>6, <2>7
<1>6. Agree(u, w)  BY <1>3, <1>4, <1>5 DEF Agree
<1>7. u = w  BY <1>3, <1>4, <1>6, SameSequence
<1> QED BY <1>7 DEF t, u, w

LEMMA TurnRound ==
    ASSUME NEW D, NEW s \in Seq(D), Len(s) > 0, NEW a \in Int, NEW q \in Int
    PROVE  Turn(s, a + q * Len(s)) = Turn(s, a)
<1> DEFINE n == Len(s)
           c == a + q * n
           u == Turn(s, c)
           w == Turn(s, a)
<1>1. n \in Nat \ {0}  OBVIOUS
<1>0. q * n \in Int /\ c \in Int  BY <1>1
<1>2. u \in Seq(D) /\ Len(u) = n /\ \A k \in 1 .. n : u[k] = s[((k - 1 + c) % n) + 1]
    BY <1>0, TurnFacts
<1>3. w \in Seq(D) /\ Len(w) = n /\ \A k \in 1 .. n : w[k] = s[((k - 1 + a) % n) + 1]
    BY TurnFacts
<1>4. ASSUME NEW k \in 1 .. n PROVE (k - 1 + c) % n = (k - 1 + a) % n
    <2> DEFINE m == k - 1 + a
               p == m \div n
               r == m % n
    <2>1. m \in Int /\ k - 1 + c = m + q * n  BY <1>0
    <2> HIDE DEF m
    <2>2. m = p * n + r /\ r \in 0 .. n - 1 /\ p \in Int  BY <1>1, <2>1, Division
    <2> HIDE DEF p
    <2>3. k - 1 + c = (p + q) * n + r /\ p + q \in Int
        <3>1. (p + q) * n = p * n + q * n /\ p * n \in Int  BY <1>1, <2>2
        <3> HIDE DEF r, c
        <3> QED BY <1>0, <2>1, <2>2, <3>1
    <2>4. (k - 1 + c) % n = r
        <3> HIDE DEF r, c, n
        <3> QED BY <1>1, <2>2, <2>3, Remainder
    <2> QED BY <2>4 DEF m
<1> HIDE DEF u, w, c
<1>5. \A k \in 1 .. n : u[k] = w[k]  BY <1>2, <1>3, <1>4
<1> HIDE DEF n
<1>6. Agree(u, w)  BY <1>2, <1>3, <1>5 DEF Agree
<1>7. u = w  BY <1>2, <1>3, <1>6, SameSequence
<1> QED BY <1>7 DEF u, w, c, n

(* The extensions turn with the dimensions. *)
LEMMA TurnExtensions ==
    ASSUME NEW L \in Seq(WholeDims), Len(L) > 0, NEW r \in Int
    PROVE  Extensions(Turn(L, r)) = Turn(Extensions(L), r)
<1> DEFINE n == Len(L)
           M == Turn(L, r)
           xs == Extensions(L)
           ys == Extensions(M)
           zs == Turn(xs, r)
           At(k) == ((k - 1 + r) % n) + 1
<1>1. n \in Nat \ {0}  OBVIOUS
<1>2. M \in Seq(WholeDims) /\ Len(M) = n /\ \A k \in 1 .. n : M[k] = L[At(k)]  BY TurnFacts
<1> HIDE DEF M
<1>3. L \in Seq(ArrayDims) /\ M \in Seq(ArrayDims)  BY <1>2, WholeLayouts
<1>4. xs \in Seq(Intervals) /\ Len(xs) = n /\ \A k \in 1 .. n : xs[k] = Extension(L[k])
    BY <1>3, ExtensionsFacts
<1>5. ys \in Seq(Intervals) /\ Len(ys) = n /\ \A k \in 1 .. n : ys[k] = Extension(M[k])
    BY <1>2, <1>3, ExtensionsFacts
<1> HIDE DEF xs, ys
<1>6. zs \in Seq(Intervals) /\ Len(zs) = n /\ \A k \in 1 .. n : zs[k] = xs[At(k)]
    BY <1>1, <1>4, TurnFacts
<1> HIDE DEF zs
<1>7. \A k \in 1 .. n : At(k) \in 1 .. n  BY <1>1
<1> HIDE DEF At, n
<1>8. \A k \in 1 .. n : ys[k] = zs[k]  BY <1>2, <1>4, <1>5, <1>6, <1>7
<1>9. Agree(ys, zs)  BY <1>5, <1>6, <1>8 DEF Agree
<1>10. ys = zs  BY <1>5, <1>6, <1>9, SameSequence
<1> QED BY <1>10 DEF xs, ys, zs, M

(* The name that turns back by r. *)
TurnBy(L, r) == [jx \in Names(L) |-> Turn(jx, r)]

(* Turned by one: the same names, turned. *)
LEMMA OnceRenames ==
    ASSUME NEW L \in Seq(WholeDims), Len(L) > 0, NEW b \in Int
    PROVE  RenamesBy(View(b, Rotate(L, 1)), View(b, L), TurnBy(Rotate(L, 1), -1))
<1> DEFINE R == Rotate(L, 1)
           old == [jx \in Names(R) |-> Back(jx)]
<1>1. L \in Seq(ArrayDims)  BY WholeLayouts
<1>2. ASSUME NEW jx \in Names(R)
      PROVE  /\ Back(jx) \in Names(L) /\ Position(R, jx) = Position(L, Back(jx))
             /\ jx \in Seq(Int) /\ Len(jx) = Len(L)
             /\ Back(jx)[1] = jx[Len(L)]
             /\ \A k \in 1 .. Len(L) - 1 : Back(jx)[k + 1] = jx[k]
    BY <1>1, <1>2, TurnedNames
<1> HIDE DEF R
<1>3. old \in [Names(R) -> Names(L)]  BY <1>2
<1>4. \A jx \in Names(R) : Address(View(b, R), jx) = Address(View(b, L), old[jx])
    BY <1>2 DEF Address, View
<1>5. ASSUME NEW jx \in Names(R), NEW kx \in Names(R), old[jx] = old[kx]
      PROVE  jx = kx
    <2>1. Back(jx) = Back(kx)  BY <1>5
    <2>2. jx[Len(L)] = kx[Len(L)]  BY <1>2, <2>1
    <2>3. \A k \in 1 .. Len(L) - 1 : jx[k] = kx[k]  BY <1>2, <2>1, SMTT(30)
    <2>4. \A k \in 1 .. Len(L) : k = Len(L) \/ k \in 1 .. Len(L) - 1  OBVIOUS
    <2>5. \A k \in 1 .. Len(L) : jx[k] = kx[k]  BY <2>2, <2>3, <2>4
    <2>6. jx \in Seq(Int) /\ Len(jx) = Len(L) /\ kx \in Seq(Int) /\ Len(kx) = Len(L)  BY <1>2
    <2> QED BY ONLY <2>5, <2>6
<1>7. old = TurnBy(R, -1)
    <2> SUFFICES ASSUME NEW jx \in Names(R) PROVE Back(jx) = Turn(jx, -1)
        BY DEF TurnBy
    <2> DEFINE n == Len(L)
               u == Turn(jx, -1)
               w == Back(jx)
    <2>1. jx \in Seq(Int) /\ Len(jx) = n /\ n \in Nat \ {0}  BY <1>2
    <2>2. u \in Seq(Int) /\ Len(u) = n /\ \A k \in 1 .. n : u[k] = jx[((k - 1 + (-1)) % n) + 1]
        BY <2>1, TurnFacts
    <2>3. w \in Seq(Int) /\ Len(w) = n /\ w[1] = jx[n] /\ \A k \in 1 .. n - 1 : w[k + 1] = jx[k]
        <3>1. w \in Seq(Int) /\ Len(w) = n  BY <2>1 DEF Back
        <3> QED BY <1>2, <3>1
    <2> HIDE DEF u, w, n
    <2>4. ASSUME NEW k \in 1 .. n PROVE u[k] = w[k]
        <3>1. CASE k = 1
            <4>1. (k - 1 + (-1)) % n = n - 1
                <5>1. k - 1 + (-1) = (-1) * n + (n - 1) /\ n - 1 \in 0 .. n - 1 /\ -1 \in Int  BY <2>1, <3>1
                <5> QED BY <2>1, <5>1, Remainder
            <4>2. (n - 1) + 1 = n  BY <2>1
            <4> QED BY <2>2, <2>3, <3>1, <4>1, <4>2
        <3>2. CASE k # 1
            <4> DEFINE j == k - 1
            <4>1. j \in 1 .. n - 1 /\ k = j + 1  BY <2>1, <3>2
            <4>2. (k - 1 + (-1)) % n = j - 1
                <5>1. k - 1 + (-1) = 0 * n + (j - 1) /\ j - 1 \in 0 .. n - 1 /\ 0 \in Int  BY <2>1, <4>1
                <5> QED BY <2>1, <5>1, Remainder, ZenonT(30)
            <4> HIDE DEF j
            <4>3. (j - 1) + 1 = j  BY <2>1, <4>1
            <4> QED BY <2>2, <2>3, <4>1, <4>2, <4>3
        <3> QED BY <3>1, <3>2
    <2>5. Agree(w, u)  BY <2>2, <2>3, <2>4 DEF Agree
    <2>6. w = u  BY <2>2, <2>3, <2>5, SameSequence
    <2> QED BY <2>6 DEF u, w
<1> HIDE DEF old
<1>6. View(b, R).layout = R /\ View(b, L).layout = L  BY ViewParts
<1>8. RenamesBy(View(b, R), View(b, L), old)  BY <1>3, <1>4, <1>5, <1>6 DEF RenamesBy
<1> QED BY <1>7, <1>8 DEF R

(* Turned any number of times, either way. *)
LEMMA TurnRenames ==
    ASSUME NEW L \in Seq(WholeDims), Len(L) > 0, NEW b \in Int, NEW r \in Int
    PROVE  Becomes(View(b, Turn(L, r)), View(b, L), Turn(Extensions(L), r), TurnBy(Turn(L, r), -r))
<1> DEFINE Done(n) == RenamesBy(View(b, Turn(L, n)), View(b, L), TurnBy(Turn(L, n), 0 - n))
           S == {n \in Nat : Done(n)}
<1>1. L \in Seq(ArrayDims) /\ L # <<>> /\ Len(L) \in Nat \ {0}  BY WholeLayouts
<1>2. 0 \in S
    <2>1. \A s \in Seq(WholeDims) \cup Seq(Int) : Len(s) > 0 => Turn(s, 0) = s  BY TurnNone
    <2>2. Turn(L, 0) = L  BY <1>1, <2>1
    <2>3. \A jx \in Names(L) : Turn(jx, 0 - 0) = jx
        <3>1. 0 - 0 = 0  OBVIOUS
        <3>2. \A jx \in Names(L) : jx \in Seq(Int) /\ Len(jx) = Len(L)  BY <1>1, NamesAre DEF IsName
        <3> QED BY <1>1, <2>1, <3>1, <3>2
    <2>4. TurnBy(L, 0 - 0) = [jx \in Names(View(b, L).layout) |-> jx]
        <3>1. View(b, L).layout = L  BY ViewParts
        <3> QED BY <2>3, <3>1 DEF TurnBy
    <2>5. RenamesBy(View(b, L), View(b, L), TurnBy(L, 0 - 0))  BY <2>4, RenamesItself
    <2> QED BY <2>2, <2>5
<1>3. \A n \in Nat : n \in S => n + 1 \in S
    <2> SUFFICES ASSUME NEW n \in Nat, n \in S PROVE Done(n + 1)
        OBVIOUS
    <2> DEFINE M == Turn(L, n)
               N == Turn(L, n + 1)
    <2>1. M \in Seq(WholeDims) /\ Len(M) = Len(L)  BY <1>1, TurnKeeps
    <2>2. N = Rotate(M, 1) /\ N \in Seq(WholeDims) /\ Len(N) = Len(L)  BY <1>1, TurnMore, TurnKeeps
    <2>3. RenamesBy(View(b, M), View(b, L), TurnBy(M, 0 - n))  OBVIOUS
    <2> HIDE DEF M, N
    <2>4. RenamesBy(View(b, N), View(b, M), TurnBy(N, -1))  BY <1>1, <2>1, <2>2, OnceRenames
    <2>5. RenamesBy(View(b, N), View(b, L),
                    [jx \in Names(View(b, N).layout) |-> TurnBy(M, 0 - n)[TurnBy(N, -1)[jx]]])
        BY <2>3, <2>4, RenamesByThen
    <2>6. View(b, N).layout = N /\ View(b, M).layout = M  BY ViewParts
    <2>7. ASSUME NEW jx \in Names(N)
          PROVE  TurnBy(M, 0 - n)[TurnBy(N, -1)[jx]] = Turn(jx, 0 - (n + 1))
        <3>1. TurnBy(N, -1)[jx] = Turn(jx, -1)  BY DEF TurnBy
        <3>2. TurnBy(N, -1)[jx] \in Names(M)
            <4>1. TurnBy(N, -1) \in [Names(N) -> Names(M)]  BY <2>4, <2>6 DEF RenamesBy
            <4> QED BY <4>1
        <3>3. TurnBy(M, 0 - n)[TurnBy(N, -1)[jx]] = Turn(TurnBy(N, -1)[jx], 0 - n)  BY <3>2 DEF TurnBy
        <3>4. jx \in Seq(Int) /\ Len(jx) > 0
            <4>1. N \in Seq(ArrayDims)  BY <2>2, WholeLayouts
            <4>2. jx \in Seq(Int) /\ Len(jx) = Len(N)  BY <4>1, NamesAre DEF IsName
            <4> QED BY <2>2, <4>2
        <3>5. -1 \in Int /\ 0 - n \in Int /\ (-1) + (0 - n) = 0 - (n + 1)  OBVIOUS
        <3>6. Turn(Turn(jx, -1), 0 - n) = Turn(jx, (-1) + (0 - n))  BY <3>4, <3>5, TurnAgain
        <3> QED BY <3>1, <3>3, <3>5, <3>6
    <2>8. [jx \in Names(View(b, N).layout) |-> TurnBy(M, 0 - n)[TurnBy(N, -1)[jx]]] = TurnBy(N, 0 - (n + 1))
        BY <2>6, <2>7 DEF TurnBy
    <2>9. RenamesBy(View(b, N), View(b, L), TurnBy(N, 0 - (n + 1)))  BY <2>5, <2>8
    <2> QED BY <2>9 DEF N
<1>4. \A n \in Nat : n \in S
    <2> HIDE DEF S
    <2> QED BY <1>2, <1>3, Induction
<1> DEFINE m == r % Len(L)
           q == r \div Len(L)
<1>5. m \in Nat /\ q \in Int /\ r = q * Len(L) + m
    <2> DEFINE n == Len(L)
    <2>1. n \in Nat \ {0}  BY <1>1
    <2> HIDE DEF n
    <2>2. r = (r \div n) * n + (r % n) /\ r % n \in 0 .. n - 1 /\ r \div n \in Int  BY <2>1, Division
    <2>3. r % n \in Nat  BY <2>1, <2>2
    <2> QED BY <2>2, <2>3 DEF n
<1>6. Turn(L, r) = Turn(L, m)  BY <1>1, TurnMore
<1> HIDE DEF m, q
<1>7. Done(m)  BY <1>4, <1>5
<1>8. Turn(L, m) \in Seq(WholeDims) /\ Len(Turn(L, m)) = Len(L)  BY <1>1, <1>5, TurnKeeps
<1>9. TurnBy(Turn(L, m), 0 - m) = TurnBy(Turn(L, m), -r)
    <2> SUFFICES ASSUME NEW jx \in Names(Turn(L, m)) PROVE Turn(jx, 0 - m) = Turn(jx, -r)
        BY DEF TurnBy
    <2>1. jx \in Seq(Int) /\ Len(jx) = Len(L)
        <3>1. Turn(L, m) \in Seq(ArrayDims)  BY <1>8, WholeLayouts
        <3> QED BY <1>8, <3>1, NamesAre DEF IsName
    <2>2. -r \in Int /\ q \in Int  BY <1>5
    <2>3. 0 - m = -r + q * Len(L)
        <3>1. q * Len(L) \in Int  BY <1>1, <1>5
        <3> QED BY <1>5, <3>1
    <2>4. Turn(jx, -r + q * Len(jx)) = Turn(jx, -r)  BY <1>1, <2>1, <2>2, TurnRound
    <2> QED BY <2>1, <2>3, <2>4
<1>10. RenamesBy(View(b, Turn(L, r)), View(b, L), TurnBy(Turn(L, r), -r))  BY <1>6, <1>7, <1>9
<1>11. Extensions(Turn(L, r)) = Turn(Extensions(L), r)  BY TurnExtensions
<1>12. View(b, Turn(L, r)).layout = Turn(L, r)  BY ViewParts
<1> QED BY <1>10, <1>11, <1>12 DEF Becomes

(* rotate turns, and a single dimension has nowhere to turn to. *)
LEMMA RotateTurns ==
    ASSUME NEW L \in Seq(WholeDims), Len(L) > 0, NEW r \in Int
    PROVE  /\ r >= 0 => Rotate(L, r) = Turn(L, r) /\ Unrotate(L, r) = Turn(L, -r)
           /\ r < 0 => Rotate(L, r) = Turn(L, Len(L) - r) /\ Unrotate(L, r) = Turn(L, -(Len(L) - r))
<1>1. Len(L) \in Nat  OBVIOUS
<1>2. CASE Len(L) < 2
    <2> SUFFICES ASSUME NEW s \in Int PROVE Turn(L, s) = L
        <3>1. -r \in Int /\ Len(L) - r \in Int /\ -(Len(L) - r) \in Int  BY <1>1
        <3> QED BY <1>2, <3>1 DEF Rotate, Unrotate
    <2> DEFINE M == Turn(L, s)
    <2>1. M \in Seq(WholeDims) /\ Len(M) = Len(L)
          /\ \A k \in 1 .. Len(L) : M[k] = L[((k - 1 + s) % Len(L)) + 1]
        BY TurnFacts
    <2>2. Len(L) = 1
        <3> DEFINE n == Len(L)
        <3>1. n \in Nat /\ n > 0 /\ n < 2  BY <1>1, <1>2
        <3> HIDE DEF n
        <3>2. n = 1  BY <3>1
        <3> QED BY <3>2 DEF n
    <2>3. \A k \in 1 .. Len(L) : ((k - 1 + s) % Len(L)) + 1 = k  BY <2>2
    <2> HIDE DEF M
    <2>4. Agree(M, L)  BY <2>1, <2>3 DEF Agree
    <2>5. M = L  BY <2>1, <2>4, SameSequence
    <2> QED BY <2>5 DEF M
<1>3. CASE ~(Len(L) < 2)  BY <1>3 DEF Rotate, Unrotate
<1> QED BY <1>2, <1>3

(* rotated and unrotated turn the view and every name with it. *)
LEMMA RotateBecomes ==
    ASSUME NEW v \in WholeViews, v.layout # <<>>, NEW r \in Nat
    PROVE  /\ Becomes(RotateView(v, r), v, Turn(Extensions(v.layout), r),
                      TurnBy(RotateView(v, r).layout, -r))
           /\ Becomes(UnrotateView(v, r), v, Turn(Extensions(v.layout), -r),
                      TurnBy(UnrotateView(v, r).layout, r))
<1> DEFINE b == v.base
           L == v.layout
<1>1. v = View(b, L) /\ b \in Int /\ L \in Seq(WholeDims)  BY ViewOf
<1>2. RotateView(v, r) = View(b, Rotate(L, r)) /\ UnrotateView(v, r) = View(b, Unrotate(L, r))
    BY DEF RotateView, UnrotateView
<1>3. L # <<>>  OBVIOUS
<1> HIDE DEF b, L
<1>4. Len(L) > 0 /\ r \in Int /\ -r \in Int /\ r >= 0 /\ -(-r) = r  BY <1>1, <1>3
<1>5. Rotate(L, r) = Turn(L, r) /\ Unrotate(L, r) = Turn(L, -r)  BY <1>1, <1>4, RotateTurns
<1>6. /\ Becomes(View(b, Turn(L, r)), View(b, L), Turn(Extensions(L), r), TurnBy(Turn(L, r), -r))
      /\ Becomes(View(b, Turn(L, -r)), View(b, L), Turn(Extensions(L), -r), TurnBy(Turn(L, -r), r))
    BY <1>1, <1>4, TurnRenames
<1>7. View(b, Turn(L, r)).layout = Turn(L, r) /\ View(b, Turn(L, -r)).layout = Turn(L, -r)  BY ViewParts
<1>8. RotateView(v, r) = View(b, Turn(L, r)) /\ UnrotateView(v, r) = View(b, Turn(L, -r))
    BY <1>2, <1>5
<1>9. /\ Becomes(RotateView(v, r), v, Turn(Extensions(L), r), TurnBy(RotateView(v, r).layout, -r))
      /\ Becomes(UnrotateView(v, r), v, Turn(Extensions(L), -r), TurnBy(UnrotateView(v, r).layout, r))
    BY <1>1, <1>6, <1>7, <1>8
<1> QED BY <1>9 DEF L

LEMMA RotateRenames ==
    ASSUME NEW v \in WholeViews, v.layout # <<>>, NEW r \in Int
    PROVE  Renames(RotateView(v, r), v) /\ Renames(UnrotateView(v, r), v)
<1> DEFINE b == v.base
           L == v.layout
<1>1. v = View(b, L) /\ b \in Int /\ L \in Seq(WholeDims)  BY ViewOf
<1>2. RotateView(v, r) = View(b, Rotate(L, r)) /\ UnrotateView(v, r) = View(b, Unrotate(L, r))
    BY DEF RotateView, UnrotateView
<1>3. L # <<>>  OBVIOUS
<1> HIDE DEF b, L
<1>4. Len(L) > 0 /\ Len(L) \in Nat  BY <1>1, <1>3
<1>5. ASSUME NEW s \in Int PROVE Renames(View(b, Turn(L, s)), View(b, L))
    <2>1. Becomes(View(b, Turn(L, s)), View(b, L), Turn(Extensions(L), s), TurnBy(Turn(L, s), -s))
        BY <1>1, <1>4, TurnRenames
    <2> QED BY <2>1, BecomesSome
<1>6. -r \in Int /\ Len(L) - r \in Int /\ -(Len(L) - r) \in Int  BY <1>4
<1>7. /\ Rotate(L, r) = Turn(L, r) \/ Rotate(L, r) = Turn(L, Len(L) - r)
      /\ Unrotate(L, r) = Turn(L, -r) \/ Unrotate(L, r) = Turn(L, -(Len(L) - r))
    <2>1. /\ r >= 0 => Rotate(L, r) = Turn(L, r) /\ Unrotate(L, r) = Turn(L, -r)
          /\ r < 0 => Rotate(L, r) = Turn(L, Len(L) - r) /\ Unrotate(L, r) = Turn(L, -(Len(L) - r))
        BY <1>1, <1>4, RotateTurns
    <2>2. r >= 0 \/ r < 0  OBVIOUS
    <2> QED BY <2>1, <2>2, Zenon
<1>8. Renames(View(b, Rotate(L, r)), View(b, L)) /\ Renames(View(b, Unrotate(L, r)), View(b, L))
    BY <1>5, <1>6, <1>7
<1> QED BY <1>1, <1>2, <1>8

(* Two dimensions exchanged: the two indices are exchanged. *)
LEMMA TransposeRenames ==
    ASSUME NEW v \in WholeViews, Len(v.layout) > 1
    PROVE  /\ Renames(View(v.base, Transpose(v.layout)), v)
           /\ Becomes(View(v.base, Transpose(v.layout)), v, Transpose(Extensions(v.layout)),
                      [jx \in Names(Transpose(v.layout)) |-> Transpose(jx)])
<1> DEFINE b == v.base
           L == v.layout
           d == L[1]
           e == L[2]
           R == SubSeq(L, 3, Len(L))
           F == <<d, e>>
           G == <<e, d>>
           h == [gx \in Names(G) |-> <<gx[2], gx[1]>>]
<1>1. v = View(b, L) /\ b \in Int /\ L \in Seq(WholeDims)  BY ViewOf
<1>2. L = F \o R /\ d \in WholeDims /\ e \in WholeDims /\ R \in Seq(WholeDims)
    BY <1>1, HeadTwo
<1>3. Transpose(L) = G \o R  BY DEF Transpose
<1> HIDE DEF b, L, d, e, R
<1>4. F \in Seq(WholeDims) /\ G \in Seq(WholeDims)  BY <1>2
<1>5. ASSUME NEW gx \in Names(G)
      PROVE  /\ gx = <<gx[1], gx[2]>>
             /\ <<gx[2], gx[1]>> \in Names(F)
             /\ b + Position(G, gx) = b + Position(F, <<gx[2], gx[1]>>)
    <2>1. PICK i \in Indices(Extension(e)), j \in Indices(Extension(d)) : gx = <<i, j>>
        BY <1>2, TwoNames
    <2>2. gx[1] = i /\ gx[2] = j  BY <2>1
    <2>3. <<j, i>> \in Names(F)  BY <1>2, TwoNames
    <2>4. i \in Int /\ j \in Int
        <3>1. Extension(d) \in Intervals /\ Extension(e) \in Intervals
            BY <1>2, WholeDimFacts, ArrayDimFacts DEF ArrayDims, WholeDims
        <3> QED BY <3>1 DEF Indices, Intervals
    <2>5. Position(G, <<i, j>>) = Shift(e, i) + Shift(d, j)
          /\ Position(F, <<j, i>>) = Shift(d, j) + Shift(e, i)
        BY <1>2, <2>4, TwoNames
    <2>6. Shift(d, j) \in Int /\ Shift(e, i) \in Int
        BY <1>2, <2>4, ShiftInt DEF WholeDims
    <2> QED BY <2>1, <2>2, <2>3, <2>5, <2>6
<1>6. h \in [Names(G) -> Names(F)]  BY <1>5
<1>7. \A gx \in Names(G) : b + Position(G, gx) = b + Position(F, h[gx])  BY <1>5
<1>8. \A gx, kx \in Names(G) : h[gx] = h[kx] => gx = kx
    <2> SUFFICES ASSUME NEW gx \in Names(G), NEW kx \in Names(G), h[gx] = h[kx] PROVE gx = kx
        OBVIOUS
    <2>1. <<gx[2], gx[1]>> = <<kx[2], kx[1]>>  OBVIOUS
    <2>2. gx[1] = kx[1] /\ gx[2] = kx[2]  BY <2>1
    <2> QED BY <1>5, <2>2
<1> HIDE DEF F, G, h
<1>9. Becomes(View(b, G \o R), View(b, F \o R), Extensions(G \o R), Carried(h, G, R))
    <2>1. Maps(h, G, F, b, b)  BY <1>6, <1>7, <1>8 DEF Maps
    <2> QED BY <1>1, <1>2, <1>4, <2>1, FrontBecomes
<1>10. Extensions(G \o R) = Transpose(Extensions(F \o R))
    <2>1. Extensions(<<e, d>> \o R) = <<Extension(e), Extension(d)>> \o Extensions(R)
        BY <1>2, TwoExtents
    <2>2. /\ SubSeq(Extensions(<<d, e>> \o R), 3, Len(Extensions(<<d, e>> \o R))) = Extensions(R)
          /\ Extensions(<<d, e>> \o R)[1] = Extension(d)
          /\ Extensions(<<d, e>> \o R)[2] = Extension(e)
        BY <1>2, TwoExtents
    <2> QED BY <2>1, <2>2 DEF F, G, Transpose
<1>11. ASSUME NEW jx \in Names(G \o R)
       PROVE  h[Former(jx, Len(G))] \o Latter(jx, Len(G)) = Transpose(jx)
    <2> DEFINE gx == Former(jx, Len(G))
    <2>1. Len(G) = 2  BY DEF G
    <2>2. gx \in Names(G) /\ gx = <<jx[1], jx[2]>> /\ Latter(jx, Len(G)) = SubSeq(jx, 3, Len(jx))
        <3>1. G \in Seq(WholeDims) /\ R \in Seq(WholeDims) /\ jx \in Names(G \o R)  BY <1>2, <1>4
        <3>2. Former(jx, Len(G)) \in Names(G)  BY ONLY <3>1, CutName
        <3>3. Former(jx, Len(G)) = <<jx[1], jx[2]>>  BY ONLY <2>1, <3>1, CutName
        <3>4. Latter(jx, Len(G)) = SubSeq(jx, 3, Len(jx))
            <4>1. Len(G) + 1 = 3  BY ONLY <2>1
            <4> QED BY <4>1, Zenon DEF Latter
        <3> QED BY ONLY <3>2, <3>3, <3>4
    <2> HIDE DEF gx
    <2>3. h[gx] = <<gx[2], gx[1]>>  BY <2>2 DEF h
    <2>4. gx[1] = jx[1] /\ gx[2] = jx[2]  BY <2>2
    <2>5. h[gx] \o Latter(jx, Len(G)) = Transpose(jx)  BY <2>2, <2>3, <2>4 DEF Transpose
    <2> QED BY <2>5 DEF gx
<1>12. Carried(h, G, R) = [jx \in Names(G \o R) |-> Transpose(jx)]  BY <1>11 DEF Carried
<1>13. Becomes(View(b, Transpose(L)), v, Transpose(Extensions(L)), [jx \in Names(Transpose(L)) |-> Transpose(jx)])
    BY <1>1, <1>2, <1>3, <1>9, <1>10, <1>12
<1>14. Renames(View(b, Transpose(L)), v)  BY <1>13, BecomesSome
<1> QED BY <1>13, <1>14 DEF b, L

(* Parts of p rows each: row j of part i is row i * p + j (partitioned). *)
LEMMA PartitionRenames ==
    ASSUME NEW v \in WholeViews, v.layout # <<>>, NEW t \in Nat \ {0},
           Size(Head(v.layout)) > 0, Size(Head(v.layout)) % t = 0
    PROVE  /\ Renames(PartitionView(v, t), v)
           /\ LET x == Extension(Head(v.layout))
                  part == Count(x) \div t
              IN  Becomes(PartitionView(v, t), v,
                          <<<<0, t>>, Promise!From(x[1], part)>> \o Tail(Extensions(v.layout)),
                          [jx \in Names(PartitionView(v, t).layout) |->
                               <<jx[1] * part + jx[2]>> \o Tail(Tail(jx))])
<1> DEFINE d == Head(v.layout)
           R == Tail(v.layout)
           b == v.base
           new == Dim(Quot(d.nelems, t), 0, d.nelems)
           part == [d EXCEPT !.nelems = Quot(@, t)]
           F == <<d>>
           G == <<new, part>>
<1>1. v = View(b, F \o R) /\ b \in Int /\ d \in WholeDims /\ R \in Seq(WholeDims)
    <2>1. v = View(b, v.layout) /\ b \in Int /\ v.layout \in Seq(WholeDims)  BY ViewOf
    <2>2. v.layout = F \o R /\ d \in WholeDims /\ R \in Seq(WholeDims)  BY <2>1, HeadTail
    <2> QED BY <2>1, <2>2, Zenon
<1>2. PartitionView(v, t) = View(b, G \o R)  BY DEF PartitionView
<1>3. /\ Quot(d.nelems, t) = (Size(d) \div t) * d.stride
      /\ Size(d) \div t \in Nat \ {0}
    BY <1>1, PartitionDim
<1>0. Size(d) > 0 /\ Size(d) % t = 0  OBVIOUS
<1> HIDE DEF d, R, b, new, part, F, G
<1>4. PICK s \in Nat \ {0}, o \in Int, n \in Nat : IsRows(d, s, o, n)  BY <1>1, WholeRows
<1>5. /\ d = Rows(s, o, n) /\ d.stride = s /\ d.nelems = n * s /\ Size(d) = n
      /\ Indices(Extension(d)) = o .. o + n - 1
      /\ \A i \in Int : Shift(d, i) = (i - o) * s
    BY <1>4 DEF IsRows
<1>6. PICK p \in Nat \ {0} : n = p * t /\ Quot(d.nelems, t) = p * s
    <2>1. n % t = 0 /\ n \in Int  BY <1>0, <1>5
    <2>2. n = (n \div t) * t  BY <2>1, Multiple
    <2> QED BY <1>3, <1>5, <2>2
<1>7. p * s \in Nat \ {0}  OBVIOUS
<1>8. IsRows(new, p * s, 0, t)
    <2>1. new = Rows(p * s, 0, t)
        <3>1. 0 * (p * s) = 0  BY <1>7
        <3>2. n * s = t * (p * s)
            <4>1. (p * t) * s = t * (p * s)  OBVIOUS
            <4> QED BY <1>6, <4>1
        <3> QED BY <1>5, <1>6, <3>1, <3>2 DEF new, Rows
    <2>2. t \in Nat /\ 0 \in Int  OBVIOUS
    <2> QED BY <1>7, <2>1, <2>2, RowsAre, Zenon
<1>9. IsRows(part, s, o, p)
    <2>1. d = [stride |-> s, offset |-> o * s, nelems |-> n * s]  BY <1>5 DEF Rows, Dim
    <2>2. part = [d EXCEPT !.nelems = p * s]  BY <1>6 DEF part
    <2>3. part = Rows(s, o, p)  BY <2>1, <2>2 DEF Rows, Dim
    <2>4. p \in Nat  OBVIOUS
    <2> QED BY <2>3, <2>4, RowsAre, Zenon
<1>10. /\ new \in WholeDims /\ part \in WholeDims
       /\ Indices(Extension(new)) = 0 .. 0 + t - 1 /\ Indices(Extension(part)) = o .. o + p - 1
       /\ \A i \in Int : Shift(new, i) = (i - 0) * (p * s)
       /\ \A i \in Int : Shift(part, i) = (i - o) * s
    BY <1>8, <1>9 DEF IsRows
<1> DEFINE h == [gx \in Names(G) |-> <<gx[1] * p + gx[2]>>]
<1>11. F \in Seq(WholeDims) /\ G \in Seq(WholeDims)  BY <1>1, <1>10 DEF F, G
<1>12. ASSUME NEW gx \in Names(G)
       PROVE  /\ gx = <<gx[1], gx[2]>> /\ gx[1] \in Int /\ gx[2] - o \in 0 .. p - 1 /\ gx[2] \in Int
              /\ <<gx[1] * p + gx[2]>> \in Names(F)
              /\ b + Position(G, gx) = b + Position(F, <<gx[1] * p + gx[2]>>)
    <2>1. PICK i \in Indices(Extension(new)), j \in Indices(Extension(part)) : gx = <<i, j>>
        <3>1. new \in WholeDims /\ part \in WholeDims  BY <1>10
        <3>2. gx \in Names(<<new, part>>)  BY DEF G
        <3> QED BY ONLY <3>1, <3>2, TwoNames
    <2>2. i \in 0 .. t - 1 /\ j \in Int /\ j - o \in 0 .. p - 1
        <3>1. i \in 0 .. 0 + t - 1 /\ j \in o .. o + p - 1  BY <1>10, Zenon
        <3> QED BY <3>1
    <2>3. gx[1] = i /\ gx[2] = j  BY <2>1
    <2>4. i * p + (j - o) \in 0 .. t * p - 1
        <3>1. t \in Nat  OBVIOUS
        <3> QED BY <2>2, <3>1, MixedRadixBound
    <2>5. i * p \in Int /\ p * t = t * p /\ t * p \in Int  BY <2>2
    <2>6. i * p + j \in o .. o + n - 1  BY <1>6, <2>2, <2>4, <2>5
    <2>7. <<i * p + j>> \in Names(F)  BY <1>1, <1>5, <2>6, OneName DEF F
    <2>8. Position(G, <<i, j>>) = Shift(new, i) + Shift(part, j)
        <3>1. i \in Int /\ j \in Int  BY <2>2
        <3>2. new \in WholeDims /\ part \in WholeDims  BY <1>10
        <3>3. Position(<<new, part>>, <<i, j>>) = Shift(new, i) + Shift(part, j)
            BY ONLY <3>1, <3>2, TwoNames
        <3> QED BY <3>3 DEF G
    <2>9. Position(F, <<i * p + j>>) = Shift(d, i * p + j)
        <3>1. i * p + j \in Int  BY <2>2, <2>5
        <3> QED BY <1>1, <3>1, OneName DEF F
    <2>10. Shift(new, i) + Shift(part, j) = Shift(d, i * p + j)
        <3>1. Shift(new, i) = (i - 0) * (p * s) /\ Shift(part, j) = (j - o) * s
            BY <1>10, <2>2
        <3>2. Shift(d, i * p + j) = ((i * p + j) - o) * s  BY <1>5, <2>2, <2>5
        <3>3. (i - 0) * (p * s) = (i * p) * s  BY <2>2
        <3>4. (i * p) * s + (j - o) * s = (i * p + (j - o)) * s  BY <2>2, <2>5
        <3>5. (i * p) + (j - o) = (i * p + j) - o  BY <2>2, <2>5
        <3> QED BY <3>1, <3>2, <3>3, <3>4, <3>5
    <2> QED BY <2>1, <2>2, <2>3, <2>7, <2>8, <2>9, <2>10
<1>13. h \in [Names(G) -> Names(F)]  BY <1>12
<1>14. \A gx \in Names(G) : b + Position(G, gx) = b + Position(F, h[gx])  BY <1>12
<1>15. \A gx, kx \in Names(G) : h[gx] = h[kx] => gx = kx
    <2> SUFFICES ASSUME NEW gx \in Names(G), NEW kx \in Names(G), h[gx] = h[kx] PROVE gx = kx
        OBVIOUS
    <2>1. <<gx[1] * p + gx[2]>> = <<kx[1] * p + kx[2]>>  OBVIOUS
    <2>2. /\ gx[1] \in Int /\ gx[2] \in Int /\ gx[2] - o \in 0 .. p - 1
          /\ kx[1] \in Int /\ kx[2] \in Int /\ kx[2] - o \in 0 .. p - 1
        BY <1>12
    <2>3. gx[1] * p + gx[2] = kx[1] * p + kx[2]  BY <2>1
    <2>4. gx[1] * p + (gx[2] - o) = kx[1] * p + (kx[2] - o)
        <3> DEFINE u == gx[1] * p
                   w == kx[1] * p
                   x == gx[2]
                   y == kx[2]
        <3>0. \A z \in Int : z * p \in Int  OBVIOUS
        <3>1. u \in Int /\ w \in Int /\ x \in Int /\ y \in Int  BY <2>2, <3>0, Zenon
        <3>2. u + x = w + y  BY <2>3
        <3> HIDE DEF u, w, x, y
        <3>3. u + (x - o) = w + (y - o)  BY <3>1, <3>2
        <3> QED BY <3>3 DEF u, w, x, y
    <2>5. gx[1] = kx[1] /\ gx[2] - o = kx[2] - o
        <3> DEFINE x == gx[1]
                   y == kx[1]
                   u == gx[2] - o
                   w == kx[2] - o
        <3>1. x \in Int /\ y \in Int /\ u \in 0 .. p - 1 /\ w \in 0 .. p - 1  BY <2>2
        <3>2. x * p + u = y * p + w  BY <2>4
        <3> HIDE DEF u, w, x, y
        <3>3. x = y /\ u = w  BY <3>1, <3>2, MixedRadix
        <3> QED BY <3>3 DEF u, w, x, y
    <2>6. gx[2] = kx[2]  BY <2>2, <2>5
    <2>7. gx = <<gx[1], gx[2]>> /\ kx = <<kx[1], kx[2]>>  BY <1>12
    <2> QED BY <2>5, <2>6, <2>7, Zenon
<1> HIDE DEF h
<1>16. Becomes(View(b, G \o R), View(b, F \o R), Extensions(G \o R), Carried(h, G, R))
    <2>1. Maps(h, G, F, b, b)  BY <1>13, <1>14, <1>15 DEF Maps
    <2> QED BY <1>1, <1>11, <2>1, FrontBecomes
<1> DEFINE x == Extension(d)
<1>17. Count(x) \div t = p /\ x[1] = o
    <2>1. Count(x) = n /\ (n > 0 => x[1] = o)  BY <1>4, RowsCount
    <2>2. n > 0  BY <1>0, <1>5, Zenon
    <2>3. (p * t) \div t = p  OBVIOUS
    <2> HIDE DEF x
    <2> QED BY <1>6, <2>1, <2>2, <2>3
<1> HIDE DEF x
<1>18. Extensions(G \o R) = <<<<0, t>>, Promise!From(x[1], p)>> \o Tail(Extensions(F \o R))
    <2>1. Extensions(<<new, part>> \o R) = <<Extension(new), Extension(part)>> \o Extensions(R)
        <3>1. new \in WholeDims /\ part \in WholeDims /\ R \in Seq(WholeDims)  BY <1>1, <1>10
        <3> QED BY ONLY <3>1, TwoExtents
    <2>2. Tail(Extensions(<<d>> \o R)) = Extensions(R)  BY <1>1, OneExtent
    <2>3. Extension(new) = <<0, 0 + t>> /\ 0 + t = t
        <3>1. t > 0 /\ 0 + t = t  OBVIOUS
        <3> QED BY <1>8, <3>1 DEF IsRows
    <2>4. Extension(part) = Promise!From(x[1], p)  BY <1>9, <1>17 DEF IsRows
    <2> QED BY <2>1, <2>2, <2>3, <2>4 DEF F, G
<1>19. ASSUME NEW jx \in Names(G \o R)
       PROVE  h[Former(jx, Len(G))] \o Latter(jx, Len(G)) = <<jx[1] * p + jx[2]>> \o Tail(Tail(jx))
    <2> DEFINE gx == Former(jx, Len(G))
    <2>1. Len(G) = 2  BY DEF G
    <2>2. gx \in Names(G) /\ gx = <<jx[1], jx[2]>> /\ Latter(jx, Len(G)) = Tail(Tail(jx))
        <3>1. G \in Seq(WholeDims) /\ R \in Seq(WholeDims) /\ jx \in Names(G \o R)  BY <1>1, <1>11
        <3> QED BY ONLY <2>1, <3>1, CutName
    <2> HIDE DEF gx
    <2>3. h[gx] = <<gx[1] * p + gx[2]>>  BY <2>2 DEF h
    <2>4. gx[1] = jx[1] /\ gx[2] = jx[2]  BY <2>2
    <2>5. h[gx] \o Latter(jx, Len(G)) = <<jx[1] * p + jx[2]>> \o Tail(Tail(jx))  BY <2>2, <2>3, <2>4
    <2> QED BY <2>5 DEF gx
<1>20. Carried(h, G, R) = [jx \in Names(G \o R) |-> <<jx[1] * p + jx[2]>> \o Tail(Tail(jx))]
    BY <1>19 DEF Carried
<1>21. PartitionView(v, t).layout = G \o R /\ v.layout = F \o R
    <2>1. View(b, G \o R).layout = G \o R /\ View(b, F \o R).layout = F \o R  BY ONLY ViewParts, ZenonT(30)
    <2> QED BY <1>1, <1>2, <2>1, Zenon
<1>22. Becomes(PartitionView(v, t), v, <<<<0, t>>, Promise!From(x[1], p)>> \o Tail(Extensions(v.layout)),
               [jx \in Names(PartitionView(v, t).layout) |-> <<jx[1] * p + jx[2]>> \o Tail(Tail(jx))])
    BY <1>1, <1>2, <1>16, <1>18, <1>20, <1>21
<1>23. Renames(PartitionView(v, t), v)  BY <1>22, BecomesSome
<1> QED BY <1>17, <1>22, <1>23 DEF x, d

(* Two dimensions as one: index i is row i \div n of the first and i % n of the second (flatted). *)
LEMMA FlatRenames ==
    ASSUME NEW v \in WholeViews, Len(v.layout) > 1, Size(v.layout[2]) > 0,
           v.layout[1].stride = v.layout[2].nelems
    PROVE  /\ Renames(FlatView(v), v)
           /\ LET x1 == Extension(v.layout[1])
                  x2 == Extension(v.layout[2])
              IN  Becomes(FlatView(v), v,
                          <<Promise!From(x2[1], Count(x1) * Count(x2))>> \o Tail(Tail(Extensions(v.layout))),
                          [jx \in Names(FlatView(v).layout) |->
                               <<x1[1] + (jx[1] - x2[1]) \div Count(x2),
                                 x2[1] + ((jx[1] - x2[1]) % Count(x2))>> \o Tail(jx)])
<1> DEFINE b == v.base
           L == v.layout
           d == L[1]
           e == L[2]
           R == SubSeq(L, 3, Len(L))
           flat == [e EXCEPT !.nelems = @ * Size(d)]
           F == <<d, e>>
           G == <<flat>>
<1>1. v = View(b, L) /\ b \in Int /\ L \in Seq(WholeDims)  BY ViewOf
<1>2. L = F \o R /\ d \in WholeDims /\ e \in WholeDims /\ R \in Seq(WholeDims)
    BY <1>1, HeadTwo
<1>3. FlatView(v) = View(b, G \o R)
    <2>1. Head(L) = d  BY <1>1
    <2> QED BY <2>1 DEF FlatView
<1>0. Size(e) > 0 /\ d.stride = e.nelems  OBVIOUS
<1> HIDE DEF b, L, d, e, R, flat, F, G
<1>4. PICK s1 \in Nat \ {0}, o1 \in Int, n1 \in Nat : IsRows(d, s1, o1, n1)  BY <1>2, WholeRows
<1>5. PICK s2 \in Nat \ {0}, o2 \in Int, n2 \in Nat : IsRows(e, s2, o2, n2)  BY <1>2, WholeRows
<1>6. /\ d.stride = s1 /\ Size(d) = n1
      /\ Indices(Extension(d)) = o1 .. o1 + n1 - 1
      /\ \A i \in Int : Shift(d, i) = (i - o1) * s1
    BY <1>4 DEF IsRows
<1>7. /\ e = Rows(s2, o2, n2) /\ e.nelems = n2 * s2 /\ Size(e) = n2
      /\ Indices(Extension(e)) = o2 .. o2 + n2 - 1
      /\ \A i \in Int : Shift(e, i) = (i - o2) * s2
    BY <1>5 DEF IsRows
<1>8. n2 \in Nat \ {0} /\ s1 = n2 * s2
    <2>1. n2 > 0  BY <1>0, <1>7, Zenon
    <2>2. s1 = n2 * s2  BY <1>0, <1>6, <1>7, Zenon
    <2> QED BY <2>1, <2>2
<1>9. n1 * n2 \in Nat  OBVIOUS
<1>10. IsRows(flat, s2, o2, n1 * n2)
    <2>1. e = [stride |-> s2, offset |-> o2 * s2, nelems |-> n2 * s2]  BY <1>7 DEF Rows, Dim
    <2>2. (n2 * s2) * n1 = (n1 * n2) * s2  BY <1>8
    <2>3. flat = [e EXCEPT !.nelems = (n2 * s2) * n1]  BY <1>6, <1>7 DEF flat
    <2>4. flat = [stride |-> s2, offset |-> o2 * s2, nelems |-> (n2 * s2) * n1]  BY <2>1, <2>3
    <2>5. flat = Rows(s2, o2, n1 * n2)  BY <2>2, <2>4 DEF Rows, Dim
    <2> QED BY <1>9, <2>5, RowsAre, Zenon
<1>11. /\ flat \in WholeDims
       /\ Indices(Extension(flat)) = o2 .. o2 + n1 * n2 - 1
       /\ \A i \in Int : Shift(flat, i) = (i - o2) * s2
    BY <1>10 DEF IsRows
<1> DEFINE Row(i) == o1 + ((i - o2) \div n2)
           Column(i) == o2 + ((i - o2) % n2)
           h == [gx \in Names(G) |-> <<Row(gx[1]), Column(gx[1])>>]
<1>12. F \in Seq(WholeDims) /\ G \in Seq(WholeDims)  BY <1>2, <1>11 DEF F, G
<1>13. ASSUME NEW i \in Indices(Extension(flat))
       PROVE  /\ i \in Int /\ Row(i) \in Indices(Extension(d)) /\ Column(i) \in Indices(Extension(e))
              /\ Row(i) \in Int /\ Column(i) \in Int
              /\ i = o2 + (Row(i) - o1) * n2 + (Column(i) - o2)
              /\ Shift(flat, i) = Shift(d, Row(i)) + Shift(e, Column(i))
    <2> DEFINE a == i - o2
               q == a \div n2
               r == a % n2
    <2>1. i \in Int /\ a \in 0 .. n1 * n2 - 1 /\ a \in Int
        <3>1. i \in o2 .. o2 + n1 * n2 - 1  BY <1>11, Zenon
        <3> QED BY <1>9, <3>1
    <2> HIDE DEF a
    <2>2. a = q * n2 + r /\ r \in 0 .. n2 - 1 /\ q \in Int  BY <1>8, <2>1, Division
    <2>3. Row(i) = o1 + q /\ Column(i) = o2 + r  BY DEF a
    <2> HIDE DEF q, r
    <2>4. q >= 0
        <3> SUFFICES ASSUME q < 0 PROVE FALSE
            BY <2>2
        <3>1. q * n2 <= -n2
            <4>1. (-1 - q) * n2 >= 0  BY <1>8, <2>2
            <4>2. (-1 - q) * n2 = -n2 - q * n2 /\ q * n2 \in Int  BY <1>8, <2>2
            <4> QED BY <1>8, <4>1, <4>2
        <3>2. q * n2 \in Int  BY <1>8, <2>2
        <3> QED BY <1>8, <2>1, <2>2, <3>1, <3>2
    <2>5. q < n1
        <3> SUFFICES ASSUME q >= n1 PROVE FALSE
            BY <2>2
        <3>1. (q - n1) * n2 >= 0  BY <1>8, <2>2
        <3>2. (q - n1) * n2 = q * n2 - n1 * n2 /\ q * n2 \in Int  BY <1>8, <2>2
        <3> QED BY <1>9, <2>1, <2>2, <3>1, <3>2
    <2>6. q \in 0 .. n1 - 1  BY <2>2, <2>4, <2>5
    <2>7. o1 + q \in Indices(Extension(d)) /\ o2 + r \in Indices(Extension(e))
        <3>1. o1 + q \in o1 .. o1 + n1 - 1  BY <2>6
        <3>2. o2 + r \in o2 .. o2 + n2 - 1  BY <2>2
        <3> QED BY <1>6, <1>7, <3>1, <3>2
    <2>8. i = o2 + q * n2 + r
        <3>1. q * n2 \in Int  BY <1>8, <2>2
        <3>2. i = o2 + a  BY <2>1 DEF a
        <3> QED BY <2>1, <2>2, <3>1, <3>2
    <2>9. Shift(flat, i) = Shift(d, o1 + q) + Shift(e, o2 + r)
        <3>1. Shift(flat, i) = (i - o2) * s2  BY <1>11, <2>1
        <3>2. Shift(d, o1 + q) = ((o1 + q) - o1) * s1
            <4>1. o1 + q \in Int  BY <2>2
            <4> QED BY <1>6, <4>1, Zenon
        <3>3. Shift(e, o2 + r) = ((o2 + r) - o2) * s2  BY <1>7, <2>2
        <3>4. (o1 + q) - o1 = q /\ (o2 + r) - o2 = r  BY <2>2
        <3>5. i - o2 = q * n2 + r  BY <2>2 DEF a
        <3>6. (q * n2 + r) * s2 = q * (n2 * s2) + r * s2
            <4>1. q * n2 \in Int /\ (q * n2) * s2 = q * (n2 * s2)  BY <1>8, <2>2
            <4>2. (q * n2 + r) * s2 = (q * n2) * s2 + r * s2  BY <2>2, <4>1
            <4> QED BY <4>1, <4>2
        <3> QED BY <1>8, <3>1, <3>2, <3>3, <3>4, <3>5, <3>6
    <2>10. (o1 + q) - o1 = q /\ (o2 + r) - o2 = r /\ o1 + q \in Int /\ o2 + r \in Int  BY <2>2
    <2> HIDE DEF Row, Column
    <2> QED BY <2>1, <2>3, <2>7, <2>8, <2>9, <2>10
<1> HIDE DEF Row, Column
<1>14. ASSUME NEW gx \in Names(G)
       PROVE  /\ gx = <<gx[1]>> /\ gx[1] \in Indices(Extension(flat))
              /\ <<Row(gx[1]), Column(gx[1])>> \in Names(F)
              /\ b + Position(G, gx) = b + Position(F, <<Row(gx[1]), Column(gx[1])>>)
    <2>1. PICK i \in Indices(Extension(flat)) : gx = <<i>>  BY <1>11, OneName DEF G
    <2>2. gx[1] = i  BY <2>1
    <2>3. <<Row(i), Column(i)>> \in Names(F)  BY <1>2, <1>13, TwoNames DEF F
    <2>4. Position(G, <<i>>) = Shift(flat, i)  BY <1>11, <1>13, OneName DEF G
    <2>5. Position(F, <<Row(i), Column(i)>>) = Shift(d, Row(i)) + Shift(e, Column(i))
        BY <1>2, <1>13, TwoNames DEF F
    <2>6. Shift(flat, i) = Shift(d, Row(i)) + Shift(e, Column(i))  BY <1>13
    <2> QED BY <2>1, <2>2, <2>3, <2>4, <2>5, <2>6
<1>15. h \in [Names(G) -> Names(F)]  BY <1>14
<1>16. \A gx \in Names(G) : b + Position(G, gx) = b + Position(F, h[gx])  BY <1>14
<1>17. \A gx, kx \in Names(G) : h[gx] = h[kx] => gx = kx
    <2> SUFFICES ASSUME NEW gx \in Names(G), NEW kx \in Names(G), h[gx] = h[kx] PROVE gx = kx
        OBVIOUS
    <2>1. <<Row(gx[1]), Column(gx[1])>> = <<Row(kx[1]), Column(kx[1])>>  OBVIOUS
    <2>2. Row(gx[1]) = Row(kx[1]) /\ Column(gx[1]) = Column(kx[1])  BY <2>1
    <2>3. gx = <<gx[1]>> /\ gx[1] \in Indices(Extension(flat))
          /\ kx = <<kx[1]>> /\ kx[1] \in Indices(Extension(flat))
        BY <1>14
    <2>4. gx[1] = o2 + (Row(gx[1]) - o1) * n2 + (Column(gx[1]) - o2)  BY <1>13, <2>3
    <2>5. kx[1] = o2 + (Row(kx[1]) - o1) * n2 + (Column(kx[1]) - o2)  BY <1>13, <2>3
    <2>6. gx[1] = kx[1]  BY <2>2, <2>4, <2>5, Zenon
    <2> QED BY <2>3, <2>6, Zenon
<1> HIDE DEF h
<1>18. Becomes(View(b, G \o R), View(b, F \o R), Extensions(G \o R), Carried(h, G, R))
    <2>1. Maps(h, G, F, b, b)  BY <1>15, <1>16, <1>17 DEF Maps
    <2> QED BY <1>1, <1>2, <1>12, <2>1, FrontBecomes
<1> DEFINE x1 == Extension(d)
           x2 == Extension(e)
<1>19. Count(x1) = n1 /\ (n1 > 0 => x1[1] = o1) /\ Count(x2) = n2 /\ x2[1] = o2
    <2>1. Count(x1) = n1 /\ (n1 > 0 => x1[1] = o1)  BY <1>4, RowsCount
    <2>2. Count(x2) = n2 /\ (n2 > 0 => x2[1] = o2)  BY <1>5, RowsCount
    <2>3. n2 > 0  BY <1>8
    <2> QED BY <2>1, <2>2, <2>3
<1> HIDE DEF x1, x2
<1>20. Extensions(G \o R) = <<Promise!From(x2[1], Count(x1) * Count(x2))>> \o Tail(Tail(Extensions(F \o R)))
    <2>1. Extensions(<<flat>> \o R) = <<Extension(flat)>> \o Extensions(R)  BY <1>2, <1>11, OneExtent
    <2>2. Tail(Tail(Extensions(<<d, e>> \o R))) = Extensions(R)  BY <1>2, TwoExtents
    <2>3. Extension(flat) = Promise!From(x2[1], Count(x1) * Count(x2))  BY <1>10, <1>19 DEF IsRows
    <2> QED BY <2>1, <2>2, <2>3 DEF F, G
<1>21. ASSUME NEW jx \in Names(G \o R)
       PROVE  h[Former(jx, Len(G))] \o Latter(jx, Len(G))
                 = <<x1[1] + (jx[1] - x2[1]) \div Count(x2),
                     x2[1] + ((jx[1] - x2[1]) % Count(x2))>> \o Tail(jx)
    <2> DEFINE gx == Former(jx, Len(G))
    <2>1. Len(G) = 1  BY DEF G
    <2>2. gx \in Names(G) /\ gx = <<jx[1]>> /\ Latter(jx, Len(G)) = Tail(jx)
        BY <1>2, <1>12, <1>21, <2>1, CutName
    <2> HIDE DEF gx
    <2>3. h[gx] = <<Row(gx[1]), Column(gx[1])>>  BY <2>2 DEF h
    <2>4. gx[1] = jx[1]  BY <2>2
    <2>5. n1 > 0
        <3>1. jx[1] \in Indices(Extension(flat))  BY <1>14, <2>2, <2>4
        <3>2. jx[1] \in o2 .. o2 + n1 * n2 - 1  BY <1>11, <3>1, Zenon
        <3>3. n1 # 0
            <4> SUFFICES ASSUME n1 = 0 PROVE FALSE
                OBVIOUS
            <4>1. n1 * n2 = 0  BY <1>8
            <4>2. jx[1] \in o2 .. o2 + 0 - 1  BY <3>2, <4>1
            <4> QED BY <4>2
        <3> QED BY <3>3
    <2>6. /\ Row(gx[1]) = x1[1] + (jx[1] - x2[1]) \div Count(x2)
          /\ Column(gx[1]) = x2[1] + ((jx[1] - x2[1]) % Count(x2))
        BY <1>19, <2>4, <2>5 DEF Row, Column
    <2>7. h[gx] \o Latter(jx, Len(G))
             = <<x1[1] + (jx[1] - x2[1]) \div Count(x2),
                 x2[1] + ((jx[1] - x2[1]) % Count(x2))>> \o Tail(jx)
        BY <2>2, <2>3, <2>6, Zenon
    <2> QED BY <2>7 DEF gx
<1>22. Carried(h, G, R) = [jx \in Names(G \o R) |->
                               <<x1[1] + (jx[1] - x2[1]) \div Count(x2),
                                 x2[1] + ((jx[1] - x2[1]) % Count(x2))>> \o Tail(jx)]
    BY <1>21 DEF Carried
<1>23. FlatView(v).layout = G \o R /\ v.layout = F \o R
    <2>1. View(b, G \o R).layout = G \o R  BY ViewParts
    <2>2. v.layout = L  BY DEF L
    <2> QED BY <1>2, <1>3, <2>1, <2>2, Zenon
<1>24. Becomes(FlatView(v), v,
               <<Promise!From(x2[1], Count(x1) * Count(x2))>> \o Tail(Tail(Extensions(v.layout))),
               [jx \in Names(FlatView(v).layout) |->
                    <<x1[1] + (jx[1] - x2[1]) \div Count(x2),
                      x2[1] + ((jx[1] - x2[1]) % Count(x2))>> \o Tail(jx)])
    BY <1>1, <1>2, <1>3, <1>18, <1>20, <1>22, <1>23
<1>25. Renames(FlatView(v), v)  BY <1>24, BecomesSome
<1> QED BY <1>24, <1>25 DEF x1, x2, d, e, L

(* Two slices, with a turn before the second and one back after it (paren). *)
LEMMA ParenIs ==
    ASSUME NEW v \in WholeViews, Len(v.layout) > 1,
           NEW f1 \in Int, NEW l1 \in Int, NEW f2 \in Int, NEW l2 \in Int,
           Within(v.layout[1], f1, l1), Within(v.layout[2], f2, l2)
    PROVE  ParenView(v, f1, l1, f2, l2)
             = View(v.base + Shift(v.layout[1], f1) + Shift(v.layout[2], f2),
                    <<Resize(v.layout[1], l1 - f1), Resize(v.layout[2], l2 - f2)>>
                      \o SubSeq(v.layout, 3, Len(v.layout)))
<1> DEFINE n == Len(v.layout)
           A == Slice(v, f1, l1)
           B == RotateView(A, 1)
           C == Slice(B, f2, l2)
           P == UnrotateView(C, 1)
           e1 == Resize(v.layout[1], l1 - f1)
           e2 == Resize(v.layout[2], l2 - f2)
           R == SubSeq(v.layout, 3, Len(v.layout))
<1>1. v.layout \in Seq(WholeDims) /\ n \in Nat /\ n > 1 /\ v.layout # <<>>
      /\ Head(v.layout) = v.layout[1]
    BY DEF WholeViews
<1>2. Size(v.layout[1]) > 0 /\ f1 <= l1 /\ Size(v.layout[2]) > 0 /\ f2 <= l2  BY DEF Within
<1>3. P = ParenView(v, f1, l1, f2, l2)  BY DEF ParenView
<1>4. /\ P \in WholeViews /\ Len(P.layout) = n
      /\ P.layout[1] = e1 /\ P.layout[2] = e2
      /\ \A k \in 3 .. n : P.layout[k] = v.layout[k]
    <2>1. /\ ParenView(v, f1, l1, f2, l2) \in WholeViews
          /\ Len(ParenView(v, f1, l1, f2, l2).layout) = Len(v.layout)
          /\ ParenView(v, f1, l1, f2, l2).layout[1] = Resize(v.layout[1], l1 - f1)
          /\ ParenView(v, f1, l1, f2, l2).layout[2] = Resize(v.layout[2], l2 - f2)
          /\ \A k \in 3 .. Len(v.layout) : ParenView(v, f1, l1, f2, l2).layout[k] = v.layout[k]
        <3> HIDE DEF P, n, e1, e2
        <3> QED BY <1>2, ParenKeeps
    <2> HIDE DEF P
    <2> QED BY <1>3, <2>1
<1>5. A.base = v.base + Shift(v.layout[1], f1)
    BY <1>1 DEF Slice, View
<1>6. B.base = A.base /\ B.layout = Rotate(A.layout, 1)
    <2> HIDE DEF A
    <2> QED BY DEF RotateView, View
<1>7. A \in WholeViews /\ Len(A.layout) = n /\ \A k \in 2 .. n : A.layout[k] = v.layout[k]
    BY <1>1, <1>2, SliceKeeps
<1>8. A.layout \in Seq(WholeDims) /\ A.layout # <<>>  BY <1>1, <1>7 DEF WholeViews
<1> HIDE DEF A
<1>9. Head(B.layout) = v.layout[2]
    <2>1. 1 \in 0 .. Len(A.layout) - 1 /\ 2 \in 2 .. n  BY <1>1, <1>7
    <2>2. Head(Rotate(A.layout, 1)) = A.layout[1 + 1]  BY <1>8, <2>1, RotateBrings
    <2>3. A.layout[2] = v.layout[2]  BY <1>7, <2>1
    <2> HIDE DEF B
    <2> QED BY <1>6, <2>2, <2>3
<1> HIDE DEF B
<1>10. C.base = B.base + Shift(Head(B.layout), f2)  BY DEF Slice, View
<1> HIDE DEF C
<1>11. P.base = C.base  BY DEF UnrotateView, View
<1>12. P.base = v.base + Shift(v.layout[1], f1) + Shift(v.layout[2], f2)
    <2> HIDE DEF P
    <2> QED BY <1>5, <1>6, <1>9, <1>10, <1>11, Zenon
<1>13. P.layout = <<e1, e2>> \o R
    <2> HIDE DEF P, e1, e2, n
    <2>1. P.layout \in Seq(WholeDims) /\ Len(P.layout) = Len(v.layout) /\ Len(P.layout) > 1
        BY <1>4 DEF WholeViews, n
    <2>2. P.layout = <<P.layout[1], P.layout[2]>> \o SubSeq(P.layout, 3, Len(P.layout))
        BY <2>1, HeadTwo
    <2>3. \A k \in 3 .. Len(v.layout) : P.layout[k] = v.layout[k]  BY <1>4 DEF n
    <2>4. SubSeq(P.layout, 3, Len(P.layout)) = R
        <3> DEFINE M == P.layout
                   L == v.layout
        <3>1. M \in Seq(WholeDims) /\ L \in Seq(WholeDims) /\ Len(L) > 1 /\ Len(M) = Len(L)  BY <1>1, <2>1
        <3>2. \A k \in 3 .. Len(L) : M[k] = L[k]  BY <2>3
        <3> HIDE DEF M, L
        <3>3. SubSeq(M, 3, Len(M)) = SubSeq(L, 3, Len(L))  BY <3>1, <3>2, SameRest
        <3> QED BY <3>3 DEF M, L
    <2> QED BY <1>4, <2>2, <2>4, Zenon
<1> HIDE DEF P, e1, e2, R
<1>14. P = View(P.base, P.layout)  BY <1>4, ViewOf
<1>15. P = View(v.base + Shift(v.layout[1], f1) + Shift(v.layout[2], f2), <<e1, e2>> \o R)
    BY <1>12, <1>13, <1>14, Zenon
<1> QED BY <1>3, <1>15 DEF e1, e2, R

LEMMA ParenRenames ==
    ASSUME NEW v \in WholeViews, Len(v.layout) > 1,
           NEW f1 \in Int, NEW l1 \in Int, NEW f2 \in Int, NEW l2 \in Int,
           Within(v.layout[1], f1, l1), Within(v.layout[2], f2, l2)
    PROVE  /\ Renames(ParenView(v, f1, l1, f2, l2), v)
           /\ LET x1 == Extension(v.layout[1])
                  x2 == Extension(v.layout[2])
              IN  Becomes(ParenView(v, f1, l1, f2, l2), v,
                          <<Promise!From(x1[1], l1 - f1), Promise!From(x2[1], l2 - f2)>>
                            \o Tail(Tail(Extensions(v.layout))),
                          [jx \in Names(ParenView(v, f1, l1, f2, l2).layout) |->
                               <<jx[1] - x1[1] + f1, jx[2] - x2[1] + f2>> \o Tail(Tail(jx))])
<1> DEFINE b == v.base
           L == v.layout
           d1 == L[1]
           d2 == L[2]
           R == SubSeq(L, 3, Len(L))
           e1 == Resize(d1, l1 - f1)
           e2 == Resize(d2, l2 - f2)
           c1 == Shift(d1, f1)
           c2 == Shift(d2, f2)
           g1 == Slid(d1, f1, l1)
           g2 == Slid(d2, f2, l2)
           x1 == Extension(d1)
           x2 == Extension(d2)
           P == ParenView(v, f1, l1, f2, l2)
           xs == <<Promise!From(x1[1], l1 - f1), Promise!From(x2[1], l2 - f2)>> \o Tail(Tail(Extensions(L)))
           old == [jx \in Names(P.layout) |-> <<jx[1] - x1[1] + f1, jx[2] - x2[1] + f2>> \o Tail(Tail(jx))]
<1>1. v = View(b, L) /\ b \in Int /\ L \in Seq(WholeDims)  BY ViewOf
<1>2. L = <<d1, d2>> \o R /\ d1 \in WholeDims /\ d2 \in WholeDims /\ R \in Seq(WholeDims)
    BY <1>1, HeadTwo
<1>3. P = View(b + c1 + c2, <<e1, e2>> \o R)  BY ParenIs
<1>4. Within(d1, f1, l1) /\ Within(d2, f2, l2)  OBVIOUS
<1> HIDE DEF L, d1, d2, R
<1>5. /\ e1 \in WholeDims /\ Extension(e1) = Promise!From(x1[1], l1 - f1)
      /\ c1 \in Int /\ Moves(g1, e1, 0 + c1, d1, 0)
    <2>1. 0 \in Int  OBVIOUS
    <2> QED BY <1>2, <1>4, <2>1, SliceMoves
<1>6. /\ e2 \in WholeDims /\ Extension(e2) = Promise!From(x2[1], l2 - f2)
      /\ c2 \in Int /\ Moves(g2, e2, 0 + c2, d2, 0)
    <2>1. 0 \in Int  OBVIOUS
    <2> QED BY <1>2, <1>4, <2>1, SliceMoves
<1>7. 0 + c1 = c1 /\ 0 + c2 = c2
    <2> HIDE DEF c1, c2
    <2> QED BY <1>5, <1>6
<1>8. \A jx \in Names(<<e1, e2>> \o R) : g1[jx[1]] = jx[1] - x1[1] + f1 /\ g2[jx[2]] = jx[2] - x2[1] + f2
    <2> SUFFICES ASSUME NEW jx \in Names(<<e1, e2>> \o R)
                 PROVE  g1[jx[1]] = jx[1] - x1[1] + f1 /\ g2[jx[2]] = jx[2] - x2[1] + f2
        OBVIOUS
    <2>1. jx[1] \in Indices(Extension(e1)) /\ jx[2] \in Indices(Extension(e2))
        <3> HIDE DEF e1, e2
        <3> QED BY <1>2, <1>5, <1>6, PairName
    <2> QED BY <2>1 DEF Slid
<1> HIDE DEF e1, e2, c1, c2, g1, g2
<1>9. Moves(g1, e1, c1, d1, 0) /\ Moves(g2, e2, c2, d2, 0)
    BY <1>5, <1>6, <1>7, Zenon
<1>10. Becomes(View(b + c1 + c2, <<e1, e2>> \o R), View(b, <<d1, d2>> \o R),
               <<Extension(e1), Extension(e2)>> \o Tail(Tail(Extensions(<<d1, d2>> \o R))),
               PairBy(g1, g2, <<e1, e2>> \o R))
    BY <1>1, <1>2, <1>5, <1>6, <1>9, TwoRenames
<1>11. P.layout = <<e1, e2>> \o R
    <2> HIDE DEF P
    <2>1. View(b + c1 + c2, <<e1, e2>> \o R).layout = <<e1, e2>> \o R  BY ViewParts
    <2> QED BY <1>3, <2>1, Zenon
<1>12. PairBy(g1, g2, <<e1, e2>> \o R) = old
    <2> HIDE DEF P, x1, x2
    <2> QED BY <1>8, <1>11 DEF PairBy
<1> HIDE DEF P, x1, x2, old
<1>13. Becomes(P, v, xs, old)
    BY <1>1, <1>2, <1>3, <1>5, <1>6, <1>10, <1>12, Zenon
<1>14. Renames(P, v)  BY <1>13, BecomesSome
<1> QED BY <1>13, <1>14 DEF old, x1, x2, P, d1, d2, L

(* range(ir, n): a slice between a turn and another. *)
LEMMA RangeRenames ==
    ASSUME NEW v \in WholeViews, NEW n \in 0 .. Len(v.layout) - 1,
           NEW first \in Int, NEW last \in Int, Within(v.layout[n + 1], first, last)
    PROVE  Renames(RotateView(Slice(RotateView(v, n), first, last), -n), v)
<1> DEFINE B == RotateView(v, n)
           C == Slice(B, first, last)
           P == RotateView(C, -n)
<1>1. v.layout \in Seq(WholeDims) /\ v.layout # <<>> /\ n \in Int /\ -n \in Int /\ Len(v.layout) \in Nat \ {0}
    BY DEF WholeViews
<1>2. Renames(B, v) /\ B \in WholeViews /\ Len(B.layout) = Len(v.layout)
    BY <1>1, RotateRenames, RotateKeeps
<1>3. Head(B.layout) = v.layout[n + 1]
    <2>1. B.layout = Rotate(v.layout, n)  BY DEF RotateView, View
    <2> QED BY <1>1, <2>1, RotateBrings
<1> HIDE DEF B
<1>4. B.layout \in Seq(WholeDims) /\ B.layout # <<>>  BY <1>1, <1>2 DEF WholeViews
<1>5. Within(Head(B.layout), first, last)  BY <1>3
<1>6. Renames(C, B) /\ C \in WholeViews /\ Len(C.layout) = Len(v.layout)
    <2>1. Size(Head(B.layout)) > 0 /\ first <= last  BY <1>5 DEF Within
    <2>2. Renames(C, B)  BY <1>2, <1>4, <1>5, SliceRenames
    <2>3. C \in WholeViews /\ Len(C.layout) = Len(B.layout)  BY <1>2, <1>4, <2>1, SliceKeeps
    <2> QED BY <1>2, <2>2, <2>3
<1> HIDE DEF C
<1>7. Renames(P, C)
    <2>1. C.layout # <<>>  BY <1>1, <1>6 DEF WholeViews
    <2> QED BY <1>1, <1>6, <2>1, RotateRenames
<1> HIDE DEF P
<1>8. Renames(C, v)  BY <1>2, <1>6, RenamesThen
<1>9. Renames(P, v)  BY <1>7, <1>8, RenamesThen
<1> QED BY <1>9 DEF P, C, B

(* Along the leading dimension it is a slice, ... *)
LEMMA RangeFirst ==
    ASSUME NEW v \in WholeViews, v.layout # <<>>, NEW n \in Int, n = 0, NEW first \in Int, NEW last \in Int,
           Within(Head(v.layout), first, last)
    PROVE  RotateView(Slice(RotateView(v, n), first, last), -n) = Slice(v, first, last)
<1> DEFINE A == Slice(v, first, last)
<1>0. -n = 0
    <2>1. \A i \in Int : -i = 0 - i  OBVIOUS
    <2>2. 0 - 0 = 0  OBVIOUS
    <2> QED BY <2>1, <2>2, Zenon
<1>1. v.layout \in Seq(WholeDims) /\ v = View(v.base, v.layout)  BY ViewOf
<1>2. A \in WholeViews /\ A = View(A.base, A.layout) /\ A.layout \in Seq(WholeDims) /\ A.layout # <<>>
    <2>1. Size(Head(v.layout)) > 0 /\ first <= last  BY DEF Within
    <2>2. A \in WholeViews /\ Len(A.layout) = Len(v.layout)  BY <2>1, SliceKeeps
    <2> HIDE DEF A
    <2>3. A = View(A.base, A.layout) /\ A.layout \in Seq(WholeDims)  BY <2>2, ViewOf
    <2>4. Len(v.layout) > 0  BY <1>1
    <2> QED BY <2>2, <2>3, <2>4
<1> HIDE DEF A
<1>3. ASSUME NEW L \in Seq(WholeDims), L # <<>> PROVE Rotate(L, 0) = L
    <2>1. Len(L) > 0 /\ 0 \in Int /\ 0 >= 0  BY <1>3
    <2>2. Rotate(L, 0) = Turn(L, 0)  BY <2>1, RotateTurns
    <2>3. Turn(L, 0) = L  BY <2>1, TurnNone
    <2> QED BY <2>2, <2>3
<1>4. RotateView(v, n) = v
    <2>1. Rotate(v.layout, 0) = v.layout  BY <1>1, <1>3
    <2> QED BY <1>1, <2>1 DEF RotateView
<1>5. RotateView(A, -n) = A
    <2>1. Rotate(A.layout, 0) = A.layout  BY <1>2, <1>3
    <2> QED BY <1>0, <1>2, <2>1 DEF RotateView
<1>6. Slice(RotateView(v, n), first, last) = A  BY <1>4 DEF A
<1> QED BY <1>5, <1>6, Zenon DEF A

(* ... and of two dimensions it leaves the first one alone. *)
LEMMA TurnTwo ==
    ASSUME NEW D, NEW a \in D, NEW c \in D
    PROVE  Turn(<<a, c>>, 1) = <<c, a>> /\ Turn(<<a, c>>, 3) = <<c, a>>
<1> DEFINE s == <<a, c>>
           t == <<c, a>>
<1>1. s \in Seq(D) /\ Len(s) = 2 /\ s[1] = a /\ s[2] = c  OBVIOUS
<1>2. t \in Seq(D) /\ Len(t) = 2 /\ t[1] = c /\ t[2] = a  OBVIOUS
<1>3. \A k \in 1 .. 2 : k = 1 \/ k = 2  OBVIOUS
<1>4. /\ (1 - 1 + 1) % 2 = 1 /\ (2 - 1 + 1) % 2 = 0
      /\ (1 - 1 + 3) % 2 = 1 /\ (2 - 1 + 3) % 2 = 0
    OBVIOUS
<1> HIDE DEF s, t
<1>5. ASSUME NEW r \in {1, 3} PROVE Turn(s, r) = t
    <2>1. r \in Int /\ Len(s) > 0 /\ (1 - 1 + r) % 2 = 1 /\ (2 - 1 + r) % 2 = 0  BY <1>1, <1>4
    <2>2. /\ Turn(s, r) \in Seq(D) /\ Len(Turn(s, r)) = Len(s)
          /\ \A k \in 1 .. Len(s) : Turn(s, r)[k] = s[((k - 1 + r) % Len(s)) + 1]
        BY <1>1, <2>1, TurnFacts
    <2>3. Turn(s, r)[1] = s[1 + 1] /\ Turn(s, r)[2] = s[0 + 1]
        <3>1. 1 \in 1 .. Len(s) /\ 2 \in 1 .. Len(s)  BY <1>1
        <3>2. Turn(s, r)[1] = s[((1 - 1 + r) % Len(s)) + 1] /\ Turn(s, r)[2] = s[((2 - 1 + r) % Len(s)) + 1]
            BY ONLY <2>2, <3>1
        <3> QED BY <1>1, <2>1, <3>2, Zenon
    <2>4. Turn(s, r)[1] = t[1] /\ Turn(s, r)[2] = t[2]  BY <1>1, <1>2, <2>3
    <2>5. Agree(Turn(s, r), t)  BY <1>1, <1>2, <1>3, <2>2, <2>4 DEF Agree
    <2> QED BY ONLY <1>2, <2>2, <2>5, SameSequence
<1> QED BY <1>5 DEF s, t

LEMMA RangeSecond ==
    ASSUME NEW v \in WholeViews, Len(v.layout) = 2, NEW n \in Int, n = 1, NEW first \in Int, NEW last \in Int,
           Within(v.layout[2], first, last)
    PROVE  LET x == Extension(v.layout[2])
               P == RotateView(Slice(RotateView(v, n), first, last), -n)
           IN  Becomes(P, v,
                       <<Extension(v.layout[1]), Promise!From(x[1], last - first)>>
                         \o Tail(Tail(Extensions(v.layout))),
                       [jx \in Names(P.layout) |-> <<jx[1], jx[2] - x[1] + first>> \o Tail(Tail(jx))])
<1> DEFINE b == v.base
           L == v.layout
           d1 == L[1]
           d2 == L[2]
           R == <<>>
           B == RotateView(v, n)
           C == Slice(B, first, last)
           P == RotateView(C, -n)
           x == Extension(d2)
           e2 == Resize(d2, last - first)
           c2 == Shift(d2, first)
           f1 == [i \in Indices(Extension(d1)) |-> i]
           f2 == Slid(d2, first, last)
           xs == <<Extension(d1), Promise!From(x[1], last - first)>> \o Tail(Tail(Extensions(L)))
           old == [jx \in Names(P.layout) |-> <<jx[1], jx[2] - x[1] + first>> \o Tail(Tail(jx))]
<1>1. v = View(b, L) /\ b \in Int /\ L \in Seq(WholeDims) /\ Len(L) = 2  BY ViewOf
<1>2. L = <<d1, d2>> /\ d1 \in WholeDims /\ d2 \in WholeDims /\ R \in Seq(WholeDims)  BY <1>1
<1>3. <<d1, d2>> \o R = <<d1, d2>> /\ <<d1, e2>> \o R = <<d1, e2>>
    <2>1. e2 \in WholeDims
        <3>1. Within(d2, first, last) /\ 0 \in Int  OBVIOUS
        <3> HIDE DEF d2
        <3> QED BY <1>2, <3>1, SliceMoves
    <2> HIDE DEF d1, d2, e2, L
    <2> QED BY <1>2, <2>1
<1>4. Within(d2, first, last)  OBVIOUS
<1>5. -n = 0 - 1 /\ n = 1  OBVIOUS
<1> HIDE DEF L, d1, d2, R
<1>6. Rotate(L, n) = <<d2, d1>>
    <2>1. Len(L) > 0 /\ n >= 0 /\ n \in Int  BY <1>1, <1>5
    <2>2. Rotate(L, n) = Turn(L, n)  BY <1>1, <2>1, RotateTurns
    <2>3. Turn(<<d1, d2>>, 1) = <<d2, d1>>  BY <1>2, TurnTwo
    <2> QED BY <1>2, <1>5, <2>2, <2>3
<1>7. B = View(b, <<d2, d1>>)  BY <1>6 DEF RotateView, b, L
<1>8. C = View(b + c2, <<e2, d1>>)
    <2>1. B.base = b /\ B.layout = <<d2, d1>>  BY <1>7, ViewParts
    <2>2. Head(<<d2, d1>>) = d2 /\ Tail(<<d2, d1>>) = <<d1>>  BY <1>2
    <2> HIDE DEF B
    <2>3. C = View(b + c2, <<e2>> \o <<d1>>)  BY <2>1, <2>2 DEF Slice
    <2>4. <<e2>> \o <<d1>> = <<e2, d1>>
        <3>1. e2 \in WholeDims
            <4>1. 0 \in Int  OBVIOUS
            <4> QED BY <1>2, <1>4, <4>1, SliceMoves
        <3> HIDE DEF e2
        <3>2. <<e2, d1>> \in Seq(WholeDims) /\ <<e2>> \o <<d1>> \in Seq(WholeDims)  BY <1>2, <3>1
        <3>3. Agree(<<e2>> \o <<d1>>, <<e2, d1>>)  BY <1>2, <3>1 DEF Agree
        <3> QED BY ONLY <3>2, <3>3, SameSequence
    <2> QED BY <2>3, <2>4
<1>9. /\ e2 \in WholeDims /\ Extension(e2) = Promise!From(x[1], last - first)
      /\ c2 \in Int /\ Moves(f2, e2, 0 + c2, d2, 0)
    <2>1. 0 \in Int  OBVIOUS
    <2> QED BY <1>2, <1>4, <2>1, SliceMoves
<1> HIDE DEF B, C
<1>10. P = View(b + c2, <<d1, e2>>)
    <2> DEFINE M == <<e2, d1>>
    <2> HIDE DEF e2, c2
    <2>1. M \in Seq(WholeDims) /\ Len(M) = 2  BY <1>2, <1>9
    <2>2. C.base = b + c2 /\ C.layout = M  BY <1>8, ViewParts
    <2>3. Turn(M, 3) = <<d1, e2>>  BY <1>2, <1>9, TurnTwo
    <2> HIDE DEF M, C
    <2>4. Rotate(M, -n) = Turn(M, Len(M) - (-n))
        <3>1. -n \in Int /\ -n < 0 /\ Len(M) > 0  BY <1>5, <2>1
        <3> QED BY <2>1, <3>1, RotateTurns
    <2>5. Len(M) - (-n) = 3  BY <1>5, <2>1
    <2>6. Rotate(M, -n) = <<d1, e2>>  BY <2>3, <2>4, <2>5, Zenon
    <2> QED BY <2>2, <2>6 DEF RotateView
<1>11. Moves(f1, d1, 0, d1, 0)
    <2>1. \A i \in Indices(Extension(d1)) : i \in Int
        <3>1. d1 \in ArrayDims  BY <1>2, WholeDimFacts DEF ArrayDims, WholeDims
        <3>2. Extension(d1) \in Intervals  BY <3>1, ArrayDimFacts
        <3> QED BY <3>2 DEF Indices, Intervals
    <2> QED BY <2>1 DEF Moves
<1>12. 0 + c2 = c2 /\ b + 0 + c2 = b + c2
    <2> HIDE DEF c2, b
    <2> QED BY <1>1, <1>9
<1>13. \A jx \in Names(<<d1, e2>> \o R) : f1[jx[1]] = jx[1] /\ f2[jx[2]] = jx[2] - x[1] + first
    <2> SUFFICES ASSUME NEW jx \in Names(<<d1, e2>> \o R)
                 PROVE  f1[jx[1]] = jx[1] /\ f2[jx[2]] = jx[2] - x[1] + first
        OBVIOUS
    <2>1. jx[1] \in Indices(Extension(d1)) /\ jx[2] \in Indices(Extension(e2))
        <3> HIDE DEF e2
        <3> QED BY <1>2, <1>9, PairName
    <2> QED BY <2>1 DEF Slid
<1> HIDE DEF e2, c2, f1, f2
<1>14. Moves(f2, e2, c2, d2, 0)  BY <1>9, <1>12, Zenon
<1>15. Becomes(View(b + 0 + c2, <<d1, e2>> \o R), View(b, <<d1, d2>> \o R),
               <<Extension(d1), Extension(e2)>> \o Tail(Tail(Extensions(<<d1, d2>> \o R))),
               PairBy(f1, f2, <<d1, e2>> \o R))
    <2>1. 0 \in Int  OBVIOUS
    <2> QED BY <1>1, <1>2, <1>9, <1>11, <1>14, <2>1, TwoRenames
<1>16. P.layout = <<d1, e2>>
    <2> HIDE DEF P
    <2>1. View(b + c2, <<d1, e2>>).layout = <<d1, e2>>  BY ViewParts
    <2> QED BY <1>10, <2>1, Zenon
<1>17. PairBy(f1, f2, <<d1, e2>> \o R) = old
    <2> HIDE DEF P, x
    <2> QED BY <1>3, <1>13, <1>16 DEF PairBy
<1> HIDE DEF P, x, old
<1>18. <<d1, d2>> \o R = L /\ <<d1, e2>> \o R = <<d1, e2>>
    BY <1>2, <1>3 DEF e2
<1>19. Becomes(P, v, xs, old)
    BY <1>1, <1>9, <1>10, <1>12, <1>15, <1>17, <1>18, Zenon
<1> QED BY <1>19 DEF old, x, P, C, B, d1, d2, L

(* Down the diagonal: index i is row o1 + i of the first dimension and i of the second. *)
LEMMA DiagonalRenames ==
    ASSUME NEW v \in WholeViews, Len(v.layout) > 1,
           Size(v.layout[1]) > 0, Size(v.layout[2]) > 0, Extension(v.layout[2])[1] = 0
    PROVE  /\ Renames(DiagonalView(v), v)
           /\ LET x1 == Extension(v.layout[1])
                  x2 == Extension(v.layout[2])
                  least == IF Count(x1) < Count(x2) THEN Count(x1) ELSE Count(x2)
              IN  /\ least > 0
                  /\ Becomes(DiagonalView(v), v,
                             <<Promise!From(0, least)>> \o Tail(Tail(Extensions(v.layout))),
                             [jx \in Names(DiagonalView(v).layout) |->
                                  <<x1[1] + jx[1], x2[1] + jx[1]>> \o Tail(jx)])
<1> DEFINE b == v.base
           L == v.layout
           d == L[1]
           e == L[2]
           R == SubSeq(L, 3, Len(L))
           F == <<d, e>>
           s == d.stride + e.stride
<1>1. v = View(b, L) /\ b \in Int /\ L \in Seq(WholeDims)  BY ViewOf
<1>2. L = F \o R /\ d \in WholeDims /\ e \in WholeDims /\ R \in Seq(WholeDims)
    BY <1>1, HeadTwo
<1>3. PICK m \in Nat : /\ m = IF Size(d) < Size(e) THEN Size(d) ELSE Size(e)
                       /\ m <= Size(d) /\ m <= Size(e)
                       /\ DiagonalView(v) = View(b, <<Rows(s, 0, m)>> \o R)
    BY DiagonalIs
<1>0. Size(d) > 0 /\ Size(e) > 0 /\ Extension(e)[1] = 0  OBVIOUS
<1> DEFINE c == Rows(s, 0, m)
           G == <<c>>
<1> HIDE DEF b, L, d, e, R, F, G, s, c
<1>4. PICK s1 \in Nat \ {0}, o1 \in Int, n1 \in Nat : IsRows(d, s1, o1, n1)  BY <1>2, WholeRows
<1>5. PICK s2 \in Nat \ {0}, o2 \in Int, n2 \in Nat : IsRows(e, s2, o2, n2)  BY <1>2, WholeRows
<1>6. /\ d.stride = s1 /\ Size(d) = n1
      /\ Indices(Extension(d)) = o1 .. o1 + n1 - 1
      /\ \A i \in Int : Shift(d, i) = (i - o1) * s1
    BY <1>4 DEF IsRows
<1>7. /\ e.stride = s2 /\ Size(e) = n2
      /\ Indices(Extension(e)) = o2 .. o2 + n2 - 1
      /\ n2 > 0 => Extension(e) = <<o2, o2 + n2>>
      /\ \A i \in Int : Shift(e, i) = (i - o2) * s2
    BY <1>5 DEF IsRows
<1>8. o2 = 0 /\ m <= n1 /\ m <= n2
    <2>1. n2 > 0 /\ m <= n1 /\ m <= n2  BY <1>0, <1>3, <1>6, <1>7, Zenon
    <2>2. Extension(e) = <<o2, o2 + n2>>  BY <1>7, <2>1, Zenon
    <2>3. <<o2, o2 + n2>>[1] = o2  OBVIOUS
    <2> QED BY <1>0, <2>1, <2>2, <2>3, Zenon
<1>9. s = s1 + s2 /\ s \in Nat \ {0}
    <2>1. s = s1 + s2  BY <1>6, <1>7, Zenon DEF s
    <2> QED BY <2>1
<1>10. IsRows(c, s, 0, m)
    <2>1. c = Rows(s, 0, m) /\ 0 \in Int  BY DEF c
    <2> QED BY <1>9, <2>1, RowsAre, Zenon
<1>11. /\ c \in WholeDims
       /\ Indices(Extension(c)) = 0 .. 0 + m - 1
       /\ \A i \in Int : Shift(c, i) = (i - 0) * s
    BY <1>10 DEF IsRows
<1>12. F \in Seq(WholeDims) /\ G \in Seq(WholeDims)  BY <1>2, <1>11 DEF F, G
<1> DEFINE h == [gx \in Names(G) |-> <<o1 + gx[1], gx[1]>>]
<1>13. ASSUME NEW gx \in Names(G)
       PROVE  /\ gx = <<gx[1]>> /\ <<o1 + gx[1], gx[1]>> \in Names(F)
              /\ b + Position(G, gx) = b + Position(F, <<o1 + gx[1], gx[1]>>)
    <2>1. PICK i \in Indices(Extension(c)) : gx = <<i>>  BY <1>11, OneName DEF G
    <2>2. gx[1] = i  BY <2>1
    <2>3. i \in Int /\ 0 <= i /\ i <= m - 1
        <3>1. i \in 0 .. 0 + m - 1  BY <1>11, Zenon
        <3> QED BY <3>1
    <2>4. o1 + i \in Indices(Extension(d)) /\ i \in Indices(Extension(e)) /\ o1 + i \in Int
        <3>1. o1 + i \in o1 .. o1 + n1 - 1 /\ i \in 0 .. 0 + n2 - 1  BY <1>8, <2>3
        <3>2. o1 + i \in Int  BY <2>3
        <3> QED BY <1>6, <1>7, <1>8, <3>1, <3>2, Zenon
    <2>5. <<o1 + i, i>> \in Names(F)  BY <1>2, <2>4, TwoNames DEF F
    <2>6. Position(G, <<i>>) = Shift(c, i)  BY <1>11, <2>3, OneName DEF G
    <2>7. Position(F, <<o1 + i, i>>) = Shift(d, o1 + i) + Shift(e, i)
        BY <1>2, <2>3, <2>4, TwoNames DEF F
    <2>8. Shift(c, i) = Shift(d, o1 + i) + Shift(e, i)
        <3>1. Shift(c, i) = (i - 0) * s /\ Shift(e, i) = (i - o2) * s2  BY <1>7, <1>11, <2>3, Zenon
        <3>2. Shift(d, o1 + i) = ((o1 + i) - o1) * s1  BY <1>6, <2>4, Zenon
        <3>3. i - 0 = i /\ (o1 + i) - o1 = i  BY <2>3
        <3>4. i * (s1 + s2) = i * s1 + i * s2  BY <2>3
        <3> QED BY <1>8, <1>9, <3>1, <3>2, <3>3, <3>4, Zenon
    <2> QED BY <2>1, <2>2, <2>5, <2>6, <2>7, <2>8
<1>14. h \in [Names(G) -> Names(F)]  BY <1>13
<1>15. \A gx \in Names(G) : b + Position(G, gx) = b + Position(F, h[gx])  BY <1>13
<1>16. \A gx, kx \in Names(G) : h[gx] = h[kx] => gx = kx
    <2> SUFFICES ASSUME NEW gx \in Names(G), NEW kx \in Names(G), h[gx] = h[kx] PROVE gx = kx
        OBVIOUS
    <2>1. <<o1 + gx[1], gx[1]>> = <<o1 + kx[1], kx[1]>>  OBVIOUS
    <2>2. gx[1] = kx[1]  BY <2>1
    <2>3. gx = <<gx[1]>> /\ kx = <<kx[1]>>  BY <1>13
    <2> QED BY <2>2, <2>3, Zenon
<1> HIDE DEF h
<1>17. Becomes(View(b, G \o R), View(b, F \o R), Extensions(G \o R), Carried(h, G, R))
    <2>1. Maps(h, G, F, b, b)  BY <1>14, <1>15, <1>16 DEF Maps
    <2> QED BY <1>1, <1>2, <1>12, <2>1, FrontBecomes
<1>18. DiagonalView(v) = View(b, G \o R)  BY <1>3 DEF G, c
<1> DEFINE x1 == Extension(d)
           x2 == Extension(e)
           least == IF Count(x1) < Count(x2) THEN Count(x1) ELSE Count(x2)
<1>19. x1[1] = o1 /\ x2[1] = 0 /\ least = m /\ least > 0
    <2>1. Count(x1) = n1 /\ (n1 > 0 => x1[1] = o1)  BY <1>4, RowsCount
    <2>2. Count(x2) = n2  BY <1>5, RowsCount
    <2>3. n1 > 0 /\ n2 > 0  BY <1>0, <1>6, <1>7, Zenon
    <2>4. m = IF n1 < n2 THEN n1 ELSE n2  BY <1>3, <1>6, <1>7, Zenon
    <2>5. x2[1] = 0  BY <1>0
    <2> HIDE DEF x1, x2
    <2> QED BY <2>1, <2>2, <2>3, <2>4, <2>5
<1> HIDE DEF x1, x2, least
<1>20. Extensions(G \o R) = <<Promise!From(0, least)>> \o Tail(Tail(Extensions(F \o R)))
    <2>1. Extensions(<<c>> \o R) = <<Extension(c)>> \o Extensions(R)  BY <1>2, <1>11, OneExtent
    <2>2. Tail(Tail(Extensions(<<d, e>> \o R))) = Extensions(R)  BY <1>2, TwoExtents
    <2>3. Extension(c) = Promise!From(0, least)  BY <1>10, <1>19 DEF IsRows
    <2> QED BY <2>1, <2>2, <2>3 DEF F, G
<1>21. ASSUME NEW jx \in Names(G \o R)
       PROVE  h[Former(jx, Len(G))] \o Latter(jx, Len(G)) = <<x1[1] + jx[1], x2[1] + jx[1]>> \o Tail(jx)
    <2> DEFINE gx == Former(jx, Len(G))
    <2>1. Len(G) = 1  BY DEF G
    <2>2. gx \in Names(G) /\ gx = <<jx[1]>> /\ Latter(jx, Len(G)) = Tail(jx) /\ jx \in Seq(Int)
        BY <1>2, <1>12, <1>21, <2>1, CutName
    <2>3. h[gx] = <<o1 + gx[1], gx[1]>>  BY <2>2 DEF h
    <2> HIDE DEF gx
    <2>4. gx[1] = jx[1]  BY <2>2
    <2>5. jx[1] \in Int
        <3>1. jx[1] \in Indices(Extension(c))  BY <1>2, <1>11, <1>21, LeadName DEF G
        <3>2. jx[1] \in 0 .. 0 + m - 1  BY <1>11, <3>1, Zenon
        <3> QED BY <3>2
    <2>6. o1 + gx[1] = x1[1] + jx[1] /\ gx[1] = x2[1] + jx[1]
        <3>1. 0 + jx[1] = jx[1]  BY <2>5
        <3> QED BY <1>19, <2>4, <3>1, Zenon
    <2>7. h[gx] \o Latter(jx, Len(G)) = <<x1[1] + jx[1], x2[1] + jx[1]>> \o Tail(jx)
        BY <2>2, <2>3, <2>6, Zenon
    <2> QED BY <2>7 DEF gx
<1>22. Carried(h, G, R) = [jx \in Names(G \o R) |-> <<x1[1] + jx[1], x2[1] + jx[1]>> \o Tail(jx)]
    BY <1>21 DEF Carried
<1>23. DiagonalView(v).layout = G \o R /\ v.layout = F \o R
    <2>1. View(b, G \o R).layout = G \o R  BY ViewParts
    <2>2. v.layout = L  BY DEF L
    <2> QED BY <1>2, <1>18, <2>1, <2>2, Zenon
<1>24. Becomes(DiagonalView(v), v, <<Promise!From(0, least)>> \o Tail(Tail(Extensions(v.layout))),
               [jx \in Names(DiagonalView(v).layout) |-> <<x1[1] + jx[1], x2[1] + jx[1]>> \o Tail(jx)])
    BY <1>1, <1>2, <1>17, <1>18, <1>20, <1>22, <1>23
<1>25. Renames(DiagonalView(v), v)  BY <1>24, BecomesSome
<1> QED BY <1>19, <1>24, <1>25 DEF x1, x2, least, d, e, L

(***************************************************************************)
(* Casts count in parts: f of them make an element.                        *)
(***************************************************************************)
LEMMA ScaleExtents ==
    ASSUME NEW L \in Seq(WholeDims), NEW f \in Nat \ {0}
    PROVE  Extensions(Scale(L, f)) = Extensions(L)
<1> DEFINE M == Scale(L, f)
<1>1. DOMAIN M = DOMAIN L /\ \A k \in DOMAIN L : M[k] = Dim(L[k].stride * f, L[k].offset * f, L[k].nelems * f)
    BY DEF Scale
<1>2. ASSUME NEW k \in DOMAIN L PROVE Extension(M[k]) = Extension(L[k])
    <2> DEFINE d == L[k]
               e == M[k]
    <2>1. d \in WholeDims /\ e = Dim(d.stride * f, d.offset * f, d.nelems * f)  BY <1>1
    <2> HIDE DEF d, e, M
    <2>2. PICK s \in Nat \ {0}, o \in Int, m \in Nat : IsRows(d, s, o, m)  BY <2>1, WholeRows
    <2>3. /\ d.stride = s /\ d.offset = o * s /\ d.nelems = m * s /\ Extension(d) = Promise!From(o, m)
        BY <2>2 DEF IsRows
    <2>4. s * f \in Nat \ {0} /\ (o * s) * f = o * (s * f) /\ (m * s) * f = m * (s * f)  OBVIOUS
    <2>5. e = Rows(s * f, o, m)  BY <2>1, <2>3, <2>4, Zenon DEF Rows
    <2>6. IsRows(e, s * f, o, m)  BY <2>4, <2>5, RowsAre, Zenon
    <2>7. Extension(e) = Promise!From(o, m)  BY <2>6 DEF IsRows
    <2> QED BY <2>3, <2>7 DEF d, e
<1> HIDE DEF M
<1>3. Extensions(M) = Extensions(L)  BY <1>1, <1>2 DEF Extensions
<1> QED BY <1>3 DEF M

LEMMA ScaleNames ==
    ASSUME NEW L \in Seq(WholeDims), NEW f \in Nat \ {0}, NEW ix \in Names(Scale(L, f))
    PROVE  ix \in Names(L) /\ Position(Scale(L, f), ix) = Position(L, ix) * f /\ Position(L, ix) \in Int
<1> DEFINE M == Scale(L, f)
           n == Len(L)
<1>1. L \in Seq(ArrayDims) /\ L \in Seq(Dims) /\ n \in Nat  BY WholeLayouts
<1>2. M \in Seq(WholeDims) /\ Len(M) = n /\ DOMAIN M = 1 .. n
    <2>1. M \in Seq(WholeDims)  BY ScaleKeeps
    <2>2. M = [k \in 1 .. n |-> Dim(L[k].stride * f, L[k].offset * f, L[k].nelems * f)]
        BY <1>1 DEF Scale
    <2>3. DOMAIN M = 1 .. n  BY <2>2
    <2> HIDE DEF M, n
    <2>4. Len(M) = n  BY <1>1, <2>1, <2>3
    <2> QED BY <2>1, <2>3, <2>4
<1>3. M \in Seq(ArrayDims) /\ M \in Seq(Dims)  BY <1>2, WholeLayouts
<1>4. ASSUME NEW k \in 1 .. n
      PROVE  /\ Indices(Extension(M[k])) = Indices(Extension(L[k]))
             /\ \A i \in Int : Shift(M[k], i) = Shift(L[k], i) * f /\ Shift(L[k], i) \in Int
    <2> DEFINE d == L[k]
               e == M[k]
    <2>1. d \in WholeDims /\ e = Dim(d.stride * f, d.offset * f, d.nelems * f)
        BY <1>1 DEF Scale
    <2> HIDE DEF d, e
    <2>2. PICK s \in Nat \ {0}, o \in Int, m \in Nat : IsRows(d, s, o, m)  BY <2>1, WholeRows
    <2>3. /\ d.stride = s /\ d.offset = o * s /\ d.nelems = m * s
          /\ Indices(Extension(d)) = o .. o + m - 1
          /\ \A i \in Int : Shift(d, i) = (i - o) * s
        BY <2>2 DEF IsRows
    <2>4. s * f \in Nat \ {0} /\ (o * s) * f = o * (s * f) /\ (m * s) * f = m * (s * f)  OBVIOUS
    <2>5. e = Rows(s * f, o, m)  BY <2>1, <2>3, <2>4, Zenon DEF Rows
    <2>6. IsRows(e, s * f, o, m)  BY <2>4, <2>5, RowsAre, Zenon
    <2>7. /\ Indices(Extension(e)) = o .. o + m - 1
          /\ \A i \in Int : Shift(e, i) = (i - o) * (s * f)
        BY <2>6 DEF IsRows
    <2>8. ASSUME NEW i \in Int PROVE Shift(e, i) = Shift(d, i) * f /\ Shift(d, i) \in Int
        <3>1. Shift(e, i) = (i - o) * (s * f) /\ Shift(d, i) = (i - o) * s  BY <2>3, <2>7
        <3>2. (i - o) * (s * f) = ((i - o) * s) * f /\ (i - o) * s \in Int  OBVIOUS
        <3> QED BY <3>1, <3>2, Zenon
    <2> QED BY <2>3, <2>7, <2>8 DEF d, e
<1> HIDE DEF M
<1>5. ix \in Seq(Int) /\ Len(ix) = n /\ \A k \in 1 .. n : ix[k] \in Indices(Extension(M[k]))
    BY <1>2, <1>3, NamesAre DEF IsName, M
<1>6. ix \in Names(L)
    <2>1. \A k \in 1 .. Len(L) : ix[k] \in Indices(Extension(L[k]))  BY <1>4, <1>5
    <2> QED BY <1>1, <1>5, <2>1, NamesAre DEF IsName
<1>7. Len(ix) <= Len(L) /\ Len(ix) <= Len(M)  BY <1>1, <1>2, <1>5
<1>8. PICK w : Walk(L, ix, w) /\ Position(L, ix) = w[Len(ix)]  BY <1>1, <1>5, <1>7, PositionWalk
<1>9. PICK u : Walk(M, ix, u) /\ Position(M, ix) = u[Len(ix)]  BY <1>3, <1>5, <1>7, PositionWalk
<1>10. /\ w \in [0 .. n -> Int] /\ w[0] = 0
       /\ \A k \in 1 .. n : w[k] = w[k - 1] + Shift(L[k], ix[k])
    BY <1>5, <1>8 DEF Walk
<1>11. /\ u \in [0 .. n -> Int] /\ u[0] = 0
       /\ \A k \in 1 .. n : u[k] = u[k - 1] + Shift(M[k], ix[k])
    BY <1>5, <1>9 DEF Walk
<1> DEFINE S == {k \in 0 .. n : u[k] = w[k] * f}
<1>12. \A k \in 0 .. n : k \in S
    <2>1. 0 \in S
        <3>1. 0 * f = 0 /\ 0 \in 0 .. n  BY <1>1
        <3> QED BY <1>10, <1>11, <3>1
    <2>2. \A k \in 0 .. n - 1 : k \in S => k + 1 \in S
        <3> SUFFICES ASSUME NEW k \in 0 .. n - 1, k \in S PROVE k + 1 \in S
            OBVIOUS
        <3>1. k + 1 \in 1 .. n /\ k \in 0 .. n /\ k + 1 \in 0 .. n /\ (k + 1) - 1 = k  BY <1>1
        <3>2. u[k] = w[k] * f  OBVIOUS
        <3>3. w[k + 1] = w[k] + Shift(L[k + 1], ix[k + 1])  BY <1>10, <3>1
        <3>4. u[k + 1] = u[k] + Shift(M[k + 1], ix[k + 1])  BY <1>11, <3>1
        <3>5. ix[k + 1] \in Int  BY <1>5, <3>1
        <3>6. Shift(M[k + 1], ix[k + 1]) = Shift(L[k + 1], ix[k + 1]) * f
              /\ Shift(L[k + 1], ix[k + 1]) \in Int
            BY <1>4, <3>1, <3>5
        <3>7. w[k] \in Int  BY <1>10, <3>1
        <3> DEFINE x == w[k]
                   y == Shift(L[k + 1], ix[k + 1])
        <3>8. x \in Int /\ y \in Int  BY <3>6, <3>7
        <3>9. u[k + 1] = x * f + y * f /\ w[k + 1] = x + y  BY <3>2, <3>3, <3>4, <3>6, Zenon
        <3> HIDE DEF x, y
        <3>10. (x + y) * f = x * f + y * f  BY <3>8
        <3>11. u[k + 1] = w[k + 1] * f  BY <3>9, <3>10, Zenon
        <3> QED BY <3>1, <3>11
    <2> HIDE DEF S
    <2> QED BY <1>1, <2>1, <2>2, InductionTo
<1>13. n \in 0 .. n  BY <1>1
<1>14. u[n] = w[n] * f /\ w[n] \in Int  BY <1>10, <1>12, <1>13
<1> QED BY <1>5, <1>6, <1>8, <1>9, <1>14 DEF M

(* The same part of every element (member_cast), ... *)
LEMMA MemberCells ==
    ASSUME NEW v \in WholeViews, NEW f \in Nat \ {0}, NEW part \in Int
    PROVE  /\ Extensions(MemberView(v, f, part).layout) = Extensions(v.layout)
           /\ \A ix \in Names(MemberView(v, f, part).layout) :
                 ix \in Names(v.layout) /\ Address(MemberView(v, f, part), ix) = Address(v, ix) * f + part
<1> DEFINE w == MemberView(v, f, part)
<1>1. v.layout \in Seq(WholeDims) /\ v.base \in Int  BY DEF WholeViews
<1>2. w.layout = Scale(v.layout, f) /\ w.base = v.base * f + part  BY DEF MemberView, View
<1> HIDE DEF w
<1>3. ASSUME NEW ix \in Names(w.layout)
      PROVE  ix \in Names(v.layout) /\ Address(w, ix) = Address(v, ix) * f + part
    <2>1. /\ ix \in Names(v.layout) /\ Position(w.layout, ix) = Position(v.layout, ix) * f
          /\ Position(v.layout, ix) \in Int
        BY <1>1, <1>2, ScaleNames
    <2> DEFINE a == Address(v, ix)
               b == v.base
               p == Position(v.layout, ix)
    <2>2. Address(w, ix) = (b * f + part) + p * f /\ a = b + p  BY <1>2, <2>1 DEF Address
    <2>3. b \in Int /\ p \in Int  BY <1>1, <2>1
    <2> HIDE DEF a, b, p
    <2>4. (b * f + part) + p * f = (b + p) * f + part
        <3>1. b * f \in Int /\ p * f \in Int /\ (b + p) * f = b * f + p * f  BY <2>3
        <3> QED BY <3>1
    <2> QED BY <2>1, <2>2, <2>4, Zenon DEF a
<1>4. Extensions(w.layout) = Extensions(v.layout)  BY <1>1, <1>2, ScaleExtents
<1> QED BY <1>3, <1>4 DEF w

(* ... of a root of f times as many parts. *)
LEMMA MemberFaithful ==
    ASSUME NEW v \in WholeViews, NEW f \in Nat \ {0}, NEW part \in 0 .. f - 1,
           NEW m \in Nat, Faithful(v, m)
    PROVE  Faithful(MemberView(v, f, part), m * f)
<1> DEFINE w == MemberView(v, f, part)
           a(ix) == Address(v, ix)
<1>3. ASSUME NEW ix \in Names(w.layout)
      PROVE  ix \in Names(v.layout) /\ a(ix) \in 0 .. m - 1 /\ Address(w, ix) = a(ix) * f + part
    <2>1. ix \in Names(v.layout) /\ Address(w, ix) = a(ix) * f + part
        <3>1. part \in Int  OBVIOUS
        <3> QED BY <3>1, MemberCells
    <2>2. a(ix) \in 0 .. m - 1  BY <2>1 DEF Faithful
    <2> QED BY <2>1, <2>2
<1> HIDE DEF w, a
<1>4. \A ix \in Names(w.layout) : Address(w, ix) \in 0 .. m * f - 1
    BY <1>3, MixedRadixBound
<1>5. ASSUME NEW ix \in Names(w.layout), NEW jx \in Names(w.layout), Address(w, ix) = Address(w, jx)
      PROVE  ix = jx
    <2>1. a(ix) * f + part = a(jx) * f + part  BY <1>3, <1>5
    <2>2. a(ix) \in Int /\ a(jx) \in Int  BY <1>3
    <2>3. a(ix) = a(jx)  BY <2>1, <2>2, MixedRadix
    <2>4. Address(v, ix) = Address(v, jx)  BY <2>3 DEF a
    <2> QED BY <1>3, <2>4 DEF Faithful
<1> QED BY <1>4, <1>5 DEF Faithful, w

(* All the parts of every element, before it is turned into the last dimension. *)
PartsFirst(v, f) == View(v.base * f, <<Dim(1, 0, f)>> \o Scale(v.layout, f))

LEMMA PartsCells ==
    ASSUME NEW v \in WholeViews, NEW f \in Nat \ {0}
    PROVE  /\ PartsFirst(v, f).layout \in Seq(WholeDims) /\ Len(PartsFirst(v, f).layout) = Len(v.layout) + 1
           /\ Extensions(PartsFirst(v, f).layout) = <<<<0, f>>>> \o Extensions(v.layout)
           /\ \A jx \in Names(PartsFirst(v, f).layout) :
                 /\ jx = <<jx[1]>> \o Tail(jx)
                 /\ jx[1] \in 0 .. f - 1 /\ Tail(jx) \in Names(v.layout)
                 /\ Address(PartsFirst(v, f), jx) = Address(v, Tail(jx)) * f + jx[1]
<1> DEFINE M == Scale(v.layout, f)
           d == Dim(1, 0, f)
           G == <<d>>
           b == v.base
           w == View(b * f, G \o M)
           a(ix) == Address(v, ix)
<1>1. v.layout \in Seq(WholeDims) /\ b \in Int  BY DEF WholeViews
<1>2. M \in Seq(WholeDims) /\ Len(M) = Len(v.layout)
    <2>1. M \in Seq(WholeDims)  BY <1>1, ScaleKeeps
    <2>2. DOMAIN M = DOMAIN v.layout  BY DEF Scale
    <2> HIDE DEF M
    <2> DEFINE n == Len(v.layout)
    <2>3. DOMAIN M = 1 .. n /\ n \in Nat  BY <1>1, <2>2
    <2> HIDE DEF n
    <2>4. Len(M) = n  BY <2>1, <2>3
    <2> QED BY <2>1, <2>4 DEF n
<1>3. IsRows(d, 1, 0, f)
    <2>1. d = Rows(1, 0, f)
        <3>1. 0 * 1 = 0 /\ f * 1 = f  OBVIOUS
        <3> QED BY <3>1 DEF Rows
    <2>2. 1 \in Nat \ {0} /\ 0 \in Int /\ f \in Nat  OBVIOUS
    <2> QED BY <2>1, <2>2, RowsAre, Zenon
<1>4. PartsFirst(v, f) = w  BY DEF PartsFirst
<1>10. Extensions(M) = Extensions(v.layout)  BY <1>1, ScaleExtents
<1> HIDE DEF M, d, b, G
<1>5. /\ d \in WholeDims /\ Indices(Extension(d)) = 0 .. 0 + f - 1
      /\ \A i \in Int : Shift(d, i) = (i - 0) * 1
      /\ Extension(d) = <<0, 0 + f>>
    BY <1>3 DEF IsRows
<1>6. G \in Seq(WholeDims) /\ Len(G) = 1  BY <1>5 DEF G
<1>7. /\ M \in Seq(ArrayDims) /\ M \in Seq(Dims) /\ G \in Seq(ArrayDims) /\ G \in Seq(Dims)
    BY <1>2, <1>6, WholeLayouts
<1> HIDE DEF a
<1>9. ASSUME NEW jx \in Names(G \o M)
      PROVE  /\ jx = <<jx[1]>> \o Tail(jx) /\ jx[1] \in 0 .. f - 1
             /\ Tail(jx) \in Names(v.layout)
             /\ Address(w, jx) = a(Tail(jx)) * f + jx[1]
    <2> DEFINE gx == Former(jx, Len(G))
               rx == Tail(jx)
               i == jx[1]
    <2>1. gx \in Names(G) /\ rx \in Names(M) /\ gx = <<i>> /\ jx \in Seq(Int) /\ Len(jx) = 1 + Len(M)
        <3>1. /\ Former(jx, Len(G)) \in Names(G) /\ Latter(jx, Len(G)) \in Names(M)
              /\ jx \in Seq(Int) /\ Len(jx) = Len(G) + Len(M)
              /\ Former(jx, Len(G)) = <<jx[1]>> /\ Latter(jx, Len(G)) = Tail(jx)
            BY <1>2, <1>6, <1>9, CutName
        <3> QED BY <1>6, <3>1
    <2>0. jx = gx \o rx
        <3>1. Len(jx) > 0  BY <1>2, <2>1
        <3>2. jx = <<i>> \o rx  BY <2>1, <3>1, FirstThen
        <3> QED BY <2>1, <3>2, Zenon
    <2> HIDE DEF gx, rx, i
    <2>2. i \in 0 .. f - 1
        <3>1. PICK j \in Indices(Extension(d)) : gx = <<j>>  BY <1>5, <2>1, OneName DEF G
        <3>2. i = j  BY <2>1, <3>1
        <3>3. j \in 0 .. 0 + f - 1  BY <1>5, Zenon
        <3>4. j \in 0 .. f - 1  BY <3>3
        <3> QED BY <3>2, <3>4, Zenon
    <2>3. Position(G, gx) = i
        <3>1. i \in Int  BY <2>2
        <3>2. Position(G, <<i>>) = Shift(d, i)  BY <1>5, <3>1, OneName DEF G
        <3>3. Shift(d, i) = (i - 0) * 1  BY <1>5, <3>1
        <3>4. (i - 0) * 1 = i  BY <3>1
        <3> QED BY <2>1, <3>2, <3>3, <3>4, Zenon
    <2>4. rx \in Names(v.layout) /\ Position(M, rx) = Position(v.layout, rx) * f
          /\ Position(v.layout, rx) \in Int
        BY <1>1, <2>1, ScaleNames DEF M
    <2>5. Position(G \o M, jx) = Position(G, gx) + Position(M, rx)
        <3>1. gx \in Seq(Int) /\ Len(gx) = Len(G)  BY <1>7, <2>1, NamesAre DEF IsName
        <3>2. rx \in Seq(Int) /\ Len(rx) = Len(M)  BY <1>7, <2>1, NamesAre DEF IsName
        <3>3. \A n \in Nat : \A L \in Seq(Dims) : \A ix \in Seq(Int) :
                 Len(L) = n /\ Len(ix) = n => Position(L \o M, ix \o rx) = Position(L, ix) + Position(M, rx)
            BY <1>7, <3>2, PositionJoin
        <3>4. Len(G) \in Nat  BY <1>6
        <3>5. Position(G \o M, gx \o rx) = Position(G, gx) + Position(M, rx)
            BY <1>7, <3>1, <3>3, <3>4
        <3> QED BY <2>0, <3>5, Zenon
    <2> DEFINE p == Position(v.layout, rx)
    <2>7. Address(w, jx) = b * f + (i + p * f) /\ a(rx) = b + p
        <3>1. Address(w, jx) = b * f + Position(G \o M, jx)  BY DEF Address, View
        <3>2. a(rx) = b + p  BY DEF Address, a, b
        <3> HIDE DEF w, p
        <3> QED BY <2>3, <2>4, <2>5, <3>1, <3>2, Zenon DEF p
    <2>8. b \in Int /\ p \in Int /\ i \in Int  BY <1>1, <2>2, <2>4
    <2> HIDE DEF p, w
    <2>9. b * f + (i + p * f) = (b + p) * f + i
        <3>1. b * f \in Int /\ p * f \in Int /\ (b + p) * f = b * f + p * f  BY <2>8
        <3> QED BY <2>8, <3>1
    <2> QED BY <2>0, <2>1, <2>2, <2>4, <2>7, <2>9, Zenon DEF i, rx
<1>11. w.layout = G \o M  BY ViewParts
<1> HIDE DEF w
<1>12. Extensions(w.layout) = <<<<0, f>>>> \o Extensions(v.layout)
    <2>1. Extensions(<<d>> \o M) = <<Extension(d)>> \o Extensions(M)  BY <1>2, <1>5, OneExtent
    <2>2. 0 + f = f  OBVIOUS
    <2> QED BY <1>5, <1>10, <1>11, <2>1, <2>2, Zenon DEF G
<1>13. w.layout \in Seq(WholeDims) /\ Len(w.layout) = Len(v.layout) + 1
    <2>1. G \o M \in Seq(WholeDims) /\ Len(G \o M) = Len(G) + Len(M)  BY ONLY <1>2, <1>6, JoinFacts
    <2>2. Len(v.layout) \in Nat  BY <1>1
    <2> QED BY <1>2, <1>6, <1>11, <2>1, <2>2
<1>14. \A jx \in Names(w.layout) :
          /\ jx = <<jx[1]>> \o Tail(jx)
          /\ jx[1] \in 0 .. f - 1 /\ Tail(jx) \in Names(v.layout)
          /\ Address(w, jx) = Address(v, Tail(jx)) * f + jx[1]
    BY <1>9, <1>11 DEF a
<1> QED BY <1>4, <1>12, <1>13, <1>14

LEMMA PartsFaithful ==
    ASSUME NEW v \in WholeViews, NEW f \in Nat \ {0}, NEW m \in Nat, Faithful(v, m)
    PROVE  Faithful(PartsView(v, f, f), m * f)
<1> DEFINE w == PartsFirst(v, f)
           N == w.layout
           b == v.base * f
<1>1. N \in Seq(WholeDims) /\ Len(N) > 0 /\ b \in Int
    <2>1. v.layout \in Seq(WholeDims) /\ v.base \in Int  BY ViewOf
    <2>2. N \in Seq(WholeDims) /\ Len(N) = Len(v.layout) + 1
        <3> HIDE DEF PartsFirst
        <3> QED BY PartsCells
    <2> HIDE DEF N, b
    <2>3. Len(v.layout) \in Nat  BY <2>1
    <2>4. Len(N) > 0  BY <2>2, <2>3
    <2>5. b \in Int  BY <2>1 DEF b
    <2> QED BY <2>2, <2>4, <2>5
<1>2. w = View(b, N) /\ PartsView(v, f, f) = View(b, Rotate(N, 1))  BY DEF PartsFirst, PartsView, View
<1>3. ASSUME NEW jx \in Names(w.layout)
      PROVE  /\ jx = <<jx[1]>> \o Tail(jx) /\ jx[1] \in 0 .. f - 1 /\ Tail(jx) \in Names(v.layout)
             /\ Address(v, Tail(jx)) \in 0 .. m - 1
             /\ Address(w, jx) = Address(v, Tail(jx)) * f + jx[1]
    <2>1. /\ jx = <<jx[1]>> \o Tail(jx) /\ jx[1] \in 0 .. f - 1 /\ Tail(jx) \in Names(v.layout)
          /\ Address(w, jx) = Address(v, Tail(jx)) * f + jx[1]
        BY PartsCells
    <2>2. Address(v, Tail(jx)) \in 0 .. m - 1  BY <2>1 DEF Faithful
    <2> QED BY <2>1, <2>2
<1> HIDE DEF w, N, b
<1>4. ASSUME NEW jx \in Names(w.layout) PROVE Address(w, jx) \in 0 .. m * f - 1
    <2> DEFINE x == Address(v, Tail(jx))
               p == jx[1]
    <2>1. x \in 0 .. m - 1 /\ p \in 0 .. f - 1 /\ Address(w, jx) = x * f + p  BY <1>3
    <2> HIDE DEF x, p
    <2> QED BY <2>1, MixedRadixBound
<1>5. ASSUME NEW jx \in Names(w.layout), NEW kx \in Names(w.layout), Address(w, jx) = Address(w, kx)
      PROVE  jx = kx
    <2> DEFINE x == Address(v, Tail(jx))
               y == Address(v, Tail(kx))
               p == jx[1]
               q == kx[1]
    <2>1. x * f + p = y * f + q  BY <1>3, <1>5
    <2>2. x \in Int /\ y \in Int /\ p \in 0 .. f - 1 /\ q \in 0 .. f - 1
        <3>1. x \in 0 .. m - 1 /\ p \in 0 .. f - 1  BY <1>3
        <3>2. y \in 0 .. m - 1 /\ q \in 0 .. f - 1  BY <1>3
        <3> HIDE DEF x, y, p, q
        <3> QED BY <3>1, <3>2
    <2> HIDE DEF x, y, p, q
    <2>3. x = y /\ p = q  BY <2>1, <2>2, MixedRadix
    <2>4. Address(v, Tail(jx)) = Address(v, Tail(kx))  BY <2>3 DEF x, y
    <2>5. Tail(jx) = Tail(kx)  BY <1>3, <2>4 DEF Faithful
    <2>6. jx = <<p>> \o Tail(jx) /\ kx = <<q>> \o Tail(kx)  BY <1>3 DEF p, q
    <2> QED BY <2>3, <2>5, <2>6, Zenon
<1>6. Faithful(w, m * f)  BY <1>4, <1>5 DEF Faithful
<1>7. Renames(PartsView(v, f, f), w)
    <2>1. Renames(View(b, Rotate(N, 1)), View(b, N))  BY <1>1, OnceRenames, RenamesSome
    <2> QED BY <1>2, <2>1
<1> QED BY <1>6, <1>7, RenamesFaithful

(* Turned once, the first becomes the last. *)
LEMMA TurnOnce ==
    ASSUME NEW D, NEW a \in D, NEW s \in Seq(D)
    PROVE  Turn(<<a>> \o s, 1) = Append(s, a)
<1> DEFINE t == <<a>> \o s
           u == Append(s, a)
           n == Len(s)
           w == Turn(t, 1)
<1>1. t \in Seq(D) /\ Len(t) = n + 1 /\ t[1] = a /\ \A k \in 1 .. n : t[k + 1] = s[k]  OBVIOUS
<1>2. u \in Seq(D) /\ Len(u) = n + 1 /\ u[n + 1] = a /\ \A k \in 1 .. n : u[k] = s[k]  OBVIOUS
<1>3. n \in Nat  OBVIOUS
<1> HIDE DEF t, u, n
<1>4. w \in Seq(D) /\ Len(w) = n + 1 /\ \A k \in 1 .. n + 1 : w[k] = t[((k - 1 + 1) % (n + 1)) + 1]
    <2>1. 1 \in Int /\ Len(t) > 0  BY <1>1, <1>3
    <2> QED BY <1>1, <2>1, TurnFacts
<1> HIDE DEF w
<1>5. ASSUME NEW k \in 1 .. n + 1 PROVE w[k] = u[k]
    <2>1. CASE k = n + 1
        <3>1. (k - 1 + 1) % (n + 1) = 0
            <4>1. k - 1 + 1 = 1 * (n + 1) + 0 /\ 0 \in 0 .. (n + 1) - 1 /\ 1 \in Int /\ n + 1 \in Nat \ {0}
                BY <1>3, <2>1
            <4> QED BY <4>1, Remainder
        <3> QED BY <1>1, <1>2, <1>4, <2>1, <3>1
    <2>2. CASE k \in 1 .. n
        <3>1. (k - 1 + 1) % (n + 1) = k
            <4>1. k - 1 + 1 = 0 * (n + 1) + k /\ k \in 0 .. (n + 1) - 1 /\ 0 \in Int /\ n + 1 \in Nat \ {0}
                BY <1>3, <2>2
            <4> QED BY <4>1, Remainder
        <3> QED BY <1>1, <1>2, <1>4, <2>2, <3>1
    <2>3. k = n + 1 \/ k \in 1 .. n  BY <1>3
    <2> QED BY <2>1, <2>2, <2>3
<1>6. Agree(w, u)  BY <1>2, <1>4, <1>5 DEF Agree
<1>7. w = u  BY ONLY <1>2, <1>4, <1>6, SameSequence
<1> QED BY <1>7 DEF w, t, u

LEMMA PartsLast ==
    ASSUME NEW v \in WholeViews, NEW f \in Nat \ {0}
    PROVE  /\ Extensions(PartsView(v, f, f).layout) = Append(Extensions(v.layout), <<0, f>>)
           /\ \A jx \in Names(PartsView(v, f, f).layout) :
                 /\ Front(jx) \in Names(v.layout)
                 /\ Address(PartsView(v, f, f), jx) = Address(v, Front(jx)) * f + Last(jx)
<1> DEFINE w == PartsFirst(v, f)
           N == w.layout
           b == v.base * f
           P == PartsView(v, f, f)
           n == Len(N)
<1>1. /\ N \in Seq(WholeDims) /\ n > 0 /\ n \in Nat /\ b \in Int
      /\ Extensions(N) = <<<<0, f>>>> \o Extensions(v.layout)
      /\ v.layout \in Seq(WholeDims)
    <2>1. v.layout \in Seq(WholeDims) /\ v.base \in Int  BY ViewOf
    <2>2. N \in Seq(WholeDims) /\ n = Len(v.layout) + 1 /\ Extensions(N) = <<<<0, f>>>> \o Extensions(v.layout)
        <3> HIDE DEF PartsFirst
        <3> QED BY PartsCells
    <2> HIDE DEF N, n, b
    <2>3. Len(v.layout) \in Nat  BY <2>1
    <2>4. n > 0 /\ n \in Nat  BY <2>2, <2>3
    <2>5. b \in Int  BY <2>1 DEF b
    <2> QED BY <2>1, <2>2, <2>4, <2>5
<1>2. w = View(b, N) /\ P = View(b, Rotate(N, 1))  BY DEF PartsFirst, PartsView, View
<1>3. ASSUME NEW jx \in Names(w.layout)
      PROVE  Tail(jx) \in Names(v.layout) /\ Address(w, jx) = Address(v, Tail(jx)) * f + jx[1]
    BY PartsCells
<1>0. N = w.layout  OBVIOUS
<1> HIDE DEF w, N, b, P, n
<1>4. P.layout = Rotate(N, 1) /\ P.base = b /\ w.base = b
    <2>1. View(b, Rotate(N, 1)).layout = Rotate(N, 1) /\ View(b, Rotate(N, 1)).base = b  BY ViewParts
    <2>2. View(b, N).base = b  BY ViewParts
    <2> QED BY <1>2, <2>1, <2>2, Zenon
<1>5. Extensions(P.layout) = Append(Extensions(v.layout), <<0, f>>)
    <2>1. Rotate(N, 1) = Turn(N, 1)
        <3>1. 1 \in Int /\ 1 >= 0 /\ Len(N) > 0  BY <1>1 DEF n
        <3> QED BY <1>1, <3>1, RotateTurns
    <2>2. Extensions(Turn(N, 1)) = Turn(Extensions(N), 1)
        <3>1. 1 \in Int /\ Len(N) > 0  BY <1>1 DEF n
        <3> QED BY <1>1, <3>1, TurnExtensions
    <2>3. Turn(<<<<0, f>>>> \o Extensions(v.layout), 1) = Append(Extensions(v.layout), <<0, f>>)
        <3>1. <<0, f>> \in Intervals  BY DEF Intervals
        <3>2. v.layout \in Seq(ArrayDims)  BY <1>1, WholeLayouts
        <3>3. Extensions(v.layout) \in Seq(Intervals)  BY <3>2, ExtensionsFacts
        <3> QED BY <3>1, <3>3, TurnOnce
    <2> QED BY <1>1, <1>4, <2>1, <2>2, <2>3, Zenon
<1>6. ASSUME NEW jx \in Names(P.layout)
      PROVE  Front(jx) \in Names(v.layout) /\ Address(P, jx) = Address(v, Front(jx)) * f + Last(jx)
    <2> DEFINE kx == Back(jx)
               u == Tail(kx)
               t == Front(jx)
    <2>1. /\ kx \in Names(N) /\ Position(Rotate(N, 1), jx) = Position(N, kx)
          /\ jx \in Seq(Int) /\ Len(jx) = n /\ kx[1] = jx[n]
          /\ \A k \in 1 .. n - 1 : kx[k + 1] = jx[k]
        <3>1. N \in Seq(ArrayDims) /\ Len(N) > 0  BY <1>1, WholeLayouts DEF n
        <3>2. jx \in Names(Rotate(N, 1))  BY <1>4
        <3> QED BY <3>1, <3>2, TurnedNames DEF n
    <2>2. Address(P, jx) = Address(w, kx)  BY <1>0, <1>4, <2>1 DEF Address
    <2>3. u \in Names(v.layout) /\ Address(w, kx) = Address(v, u) * f + kx[1]  BY <1>0, <1>3, <2>1
    <2>4. u = t
        <3>1. kx \in Seq(Int) /\ Len(kx) = n
            <4>1. N \in Seq(ArrayDims)  BY <1>1, WholeLayouts
            <4> QED BY <2>1, <4>1, NamesAre DEF IsName, n
        <3> HIDE DEF kx
        <3>2. kx # <<>>  BY <1>1, <3>1
        <3>3. u \in Seq(Int) /\ Len(u) = n - 1 /\ \A k \in 1 .. n - 1 : u[k] = kx[k + 1]
            BY <1>1, <3>1, <3>2
        <3>4. t \in Seq(Int) /\ Len(t) = n - 1 /\ \A k \in 1 .. n - 1 : t[k] = jx[k]
            BY <1>1, <2>1 DEF Front
        <3> HIDE DEF t, u
        <3>5. Agree(u, t)  BY <2>1, <3>3, <3>4 DEF Agree
        <3> QED BY ONLY <3>3, <3>4, <3>5, SameSequence
    <2>5. kx[1] = Last(jx)  BY <2>1 DEF Last
    <2> HIDE DEF kx, u, t
    <2>6. t \in Names(v.layout) /\ Address(P, jx) = Address(v, t) * f + Last(jx)
        BY <2>2, <2>3, <2>4, <2>5, Zenon
    <2> QED BY <2>6 DEF t
<1> QED BY <1>5, <1>6 DEF P

(***************************************************************************)
(* The invariant: the view is a whole view, and it is faithful: a tuple of *)
(* its indices names an element of the root, two tuples two elements.  It  *)
(* is inductive, because every guard asks of the dimension it divides what *)
(* it needs, and because what an operation makes renames what it is made   *)
(* of, or counts it in parts.                                              *)
(***************************************************************************)
Inv == /\ This \in WholeViews
       /\ room \in Nat
       /\ Faithful(This, room)

(* Roots of which no extension but the leading one is empty: their strides are not 0. *)
RootsWhole == \A xs \in Shapes : \A k \in 2 .. Len(xs) : Count(xs[k]) > 0

LEMMA ShapesTyped == \A xs \in Shapes : xs \in Seq(Intervals)
<1> SUFFICES ASSUME NEW xs \in Shapes PROVE xs \in Seq(Intervals)
    OBVIOUS
<1>1. xs \in Seq(Int \X Int) /\ \A k \in 1 .. Len(xs) : xs[k][1] <= xs[k][2]
    BY ShapesAssumption
<1>2. ASSUME NEW k \in 1 .. Len(xs) PROVE xs[k] \in Intervals
    <2>1. xs[k] \in Int \X Int  BY ONLY <1>1
    <2> QED BY ONLY <1>1, <2>1 DEF Intervals
<1>3. Len(xs) \in Nat /\ xs = [k \in 1 .. Len(xs) |-> xs[k]]  BY ONLY <1>1
<1> QED BY ONLY <1>2, <1>3

LEMMA InvView == Inv => /\ base \in Int /\ layout \in Seq(WholeDims)
                        /\ This.layout = layout /\ Len(layout) \in Nat
                        /\ \A k \in 1 .. Len(layout) : layout[k] \in WholeDims
                        /\ Len(layout) > 0 => /\ layout # <<>>
                                              /\ Head(layout) = layout[1]
                                              /\ Head(layout) \in WholeDims
BY DEF Inv, This, View, WholeViews

LEMMA BecomeInv ==
    ASSUME NEW op, NEW v \in WholeViews, Renames(v, This), Become(op, v), Inv
    PROVE  Inv'
<1>1. Faithful(v, room) /\ room \in Nat  BY RenamesFaithful DEF Inv
<1>2. This' = v /\ room' = room
    <2>1. This' = View(v.base, v.layout) /\ room' = room  BY DEF Become, This, View
    <2>2. v = View(v.base, v.layout)  BY ViewOf
    <2> QED BY <2>1, <2>2, Zenon
<1>3. (Faithful(This, room))'
    <2>1. Faithful(This', room')  BY <1>1, <1>2, Zenon
    <2> QED BY <2>1 DEF Faithful, Address
<1> QED BY <1>1, <1>2, <1>3 DEF Inv

LEMMA RecastInv ==
    ASSUME NEW op, NEW v \in WholeViews, NEW f \in Nat \ {0}, Faithful(v, room * f),
           Recast(op, v, f), Inv
    PROVE  Inv'
<1>1. room * f \in Nat  BY DEF Inv
<1>2. This' = v /\ room' = room * f
    <2>1. This' = View(v.base, v.layout) /\ room' = room * f  BY DEF Recast, This, View
    <2>2. v = View(v.base, v.layout)  BY ViewOf
    <2> QED BY <2>1, <2>2, Zenon
<1>3. (Faithful(This, room))'
    <2>1. Faithful(This', room')  BY <1>2, Zenon
    <2> QED BY <2>1 DEF Faithful, Address
<1> QED BY <1>1, <1>2, <1>3 DEF Inv

LEMMA Whole2Int ==
    ASSUME NEW d \in WholeDims
    PROVE  Extension(d)[1] \in Int /\ Extension(d)[2] \in Int
<1>1. /\ d \in Dims /\ d.stride \in Nat \ {0} /\ Size(d) \in Nat
      /\ d.nelems = Size(d) * d.stride
      /\ Quot(d.offset, d.stride) \in Int
      /\ Size(d) > 0 => Extension(d) = <<Quot(d.offset, d.stride),
                                        Quot(d.offset, d.stride) + Size(d)>>
    BY WholeDimFacts
<1>2. CASE Size(d) > 0  BY <1>1, <1>2
<1>3. CASE Size(d) = 0
    <2>1. d.nelems = 0  BY <1>1, <1>3
    <2> QED BY <2>1 DEF Extension
<1> QED BY <1>1, <1>2, <1>3

(* A range inside a dimension that has a size has whole bounds. *)
LEMMA WithinInts ==
    ASSUME NEW d \in WholeDims, NEW first, NEW last,
           first \in Extension(d)[1] .. Extension(d)[2],
           last \in Extension(d)[1] .. Extension(d)[2],
           Within(d, first, last)
    PROVE  first \in Int /\ last \in Int /\ first <= last /\ Size(d) > 0
BY Whole2Int DEF Within

(* Views are whole and stay so, whatever operations a careful caller chains: every *)
(* dimension is an exact number of strides and starts at an exact stride.          *)
LEMMA InvStep ==
    ASSUME Unchecked = {}, Inv, Next
    PROVE  Inv'
<1> DEFINE v == This
<1>1. v \in WholeViews /\ v.layout = layout /\ v.base = base  BY DEF Inv, This, View
<1>2. \A op : Careful(op)  BY DEF Careful
<1>3. \A op : \A w \in WholeViews : Renames(w, v) /\ Become(op, w) => Inv'  BY BecomeInv
<1> HIDE DEF v
<1>4. Rank \in Nat /\ Rank = Len(layout) /\ layout \in Seq(WholeDims) /\ base \in Int
      /\ (Rank > 0 => layout # <<>> /\ Head(layout) = layout[1] /\ layout[1] \in WholeDims)
      /\ (Rank > 1 => layout[2] \in WholeDims)
    BY InvView DEF Rank
<1>5. This = v  BY DEF v
<1>6. ASSUME NEW k \in Nat, Rank >= k, k > 0
      PROVE  Ends(k) = Extension(layout[k])[1] .. Extension(layout[k])[2]
    BY <1>4, <1>6 DEF Ends
<1>7. Rank > 0 => Ends(1) = Extension(layout[1])[1] .. Extension(layout[1])[2]
    BY <1>4, <1>6
<1>8. Rank > 1 => Ends(2) = Extension(layout[2])[1] .. Extension(layout[2])[2]
    BY <1>4, <1>6
<1>9. \A i \in Ends(1) : Index(i) => Inv'
    <2> SUFFICES ASSUME NEW i \in Ends(1), Index(i) PROVE Inv'  OBVIOUS
    <2>1. Rank > 0 /\ Become("[]", At1(v, i))  BY <1>5 DEF Index
    <2>2. i \in Int  BY <1>4, <1>6, <2>1, Whole2Int
    <2>3. At1(v, i) \in WholeViews  BY <1>1, <1>4, <2>1, <2>2, IndexKeeps
    <2>4. Renames(At1(v, i), v)
        <3>1. i \in Indices(Extension(Head(v.layout)))  BY <1>1 DEF Index, Leading
        <3> QED BY <1>1, <1>4, <2>1, <3>1, IndexRenames
    <2> QED BY <1>3, <2>1, <2>3, <2>4
<1>10. \A r \in 0 .. Rank : Rotated(r) \/ Unrotated(r) => Inv'
    <2> SUFFICES ASSUME NEW r \in 0 .. Rank, Rotated(r) \/ Unrotated(r) PROVE Inv'  OBVIOUS
    <2>1. r \in Int /\ Rank > 0  BY <1>4 DEF Rotated, Unrotated
    <2>2. RotateView(v, r) \in WholeViews /\ UnrotateView(v, r) \in WholeViews
        BY <1>1, <1>4, <2>1, RotateKeeps
    <2>3. Renames(RotateView(v, r), v) /\ Renames(UnrotateView(v, r), v)
        BY <1>1, <1>4, <2>1, RotateRenames
    <2> QED BY <1>3, <1>5, <2>2, <2>3 DEF Rotated, Unrotated
<1>11. Transposed => Inv'
    <2> SUFFICES ASSUME Transposed PROVE Inv'  OBVIOUS
    <2>1. View(v.base, Transpose(v.layout)) \in WholeViews
        BY <1>1, <1>4, TransposeKeeps DEF Transposed
    <2>2. Renames(View(v.base, Transpose(v.layout)), v)
        BY <1>1, <1>4, TransposeRenames DEF Transposed
    <2> QED BY <1>1, <1>3, <2>1, <2>2 DEF Transposed
<1>12. \A first \in Firsts : Reindexed(first) => Inv'
    <2> SUFFICES ASSUME NEW first \in Firsts, Reindexed(first) PROVE Inv'  OBVIOUS
    <2>1. first \in Int  BY FirstsAssumption
    <2>2. ReindexView(v, first) \in WholeViews  BY <1>1, <1>4, <2>1, ReindexKeeps DEF Reindexed
    <2>3. Renames(ReindexView(v, first), v)
        BY <1>1, <1>4, <2>1, ReindexRenames DEF Reindexed
    <2> QED BY <1>3, <1>5, <2>2, <2>3 DEF Reindexed
<1>13. \A first, last \in Ends(1) : Sliced(first, last) \/ Blocked(first, last) => Inv'
    <2> SUFFICES ASSUME NEW first \in Ends(1), NEW last \in Ends(1),
                        Sliced(first, last) \/ Blocked(first, last)
                 PROVE  Inv'
        OBVIOUS
    <2>1. Rank > 0 /\ Within(layout[1], first, last)
        BY <1>4 DEF Sliced, Blocked, Leading
    <2>2. first \in Int /\ last \in Int /\ first <= last /\ Size(layout[1]) > 0
        <3>1. /\ first \in Extension(layout[1])[1] .. Extension(layout[1])[2]
              /\ last \in Extension(layout[1])[1] .. Extension(layout[1])[2]
            BY <1>7, <2>1
        <3> QED BY <1>4, <2>1, <3>1, WithinInts
    <2>3. /\ Slice(v, first, last) \in WholeViews
          /\ Len(Slice(v, first, last).layout) = Len(v.layout)
        BY <1>1, <1>4, <2>1, <2>2, SliceKeeps
    <2>4. Slice(v, first, last).layout # <<>>
        BY <1>1, <1>4, <2>1, <2>3 DEF WholeViews
    <2>5. ReindexView(Slice(v, first, last), first) \in WholeViews
        BY <2>2, <2>3, <2>4, ReindexKeeps
    <2>6. Renames(Slice(v, first, last), v)
        <3>1. Within(Head(v.layout), first, last)  BY <1>1, <1>4, <2>1
        <3> QED BY <1>1, <1>4, <2>1, <2>2, <3>1, SliceRenames
    <2>7. Renames(ReindexView(Slice(v, first, last), first), Slice(v, first, last))
        BY <2>2, <2>3, <2>4, ReindexRenames
    <2>8. Renames(ReindexView(Slice(v, first, last), first), v)  BY <2>6, <2>7, RenamesThen
    <2> QED BY <1>3, <1>5, <2>3, <2>5, <2>6, <2>8 DEF Sliced, Blocked
<1>14. \A n \in 0 .. Rank - 1 : \A first, last \in Ends(n + 1) : Ranged(first, last, n) => Inv'
    <2> SUFFICES ASSUME NEW n \in 0 .. Rank - 1,
                        NEW first \in Ends(n + 1), NEW last \in Ends(n + 1),
                        Ranged(first, last, n)
                 PROVE  Inv'
        OBVIOUS
    <2> DEFINE B == RotateView(v, n)
               C == Slice(B, first, last)
    <2>1. /\ Rank > 1 /\ n \in Nat /\ n < Rank /\ Within(layout[n + 1], first, last)
          /\ Become("range", RotateView(C, -n))
        BY <1>4, <1>5 DEF Ranged
    <2>2. layout[n + 1] \in WholeDims  BY <1>4, <2>1
    <2>3. first \in Int /\ last \in Int /\ first <= last /\ Size(layout[n + 1]) > 0
        <3>1. n + 1 \in Nat /\ Rank >= n + 1 /\ n + 1 > 0  BY <1>4, <2>1
        <3> QED BY <1>6, <2>1, <2>2, <3>1, WithinInts
    <2>4. B \in WholeViews /\ Len(B.layout) = Len(v.layout)
        BY <1>1, <1>4, <2>1, RotateKeeps
    <2>5. B.layout = Turn(layout, n)
        BY <1>1, <1>4, <2>1 DEF RotateView, Rotate, View
    <2>6. Head(B.layout) = layout[n + 1]
        <3>1. B.layout \in Seq(WholeDims) /\ B.layout # <<>> /\ Head(B.layout) = B.layout[1]
            BY <1>1, <1>4, <2>1, <2>4 DEF WholeViews
        <3>2. DOMAIN layout = 1 .. Rank /\ 1 \in 1 .. Rank  BY <1>4, <2>1
        <3>3. B.layout[1] = layout[((1 - 1 + n) % Len(layout)) + 1]
            BY <2>5, <3>2 DEF Turn
        <3>4. (1 - 1 + n) % Len(layout) = n  BY <1>4, <2>1
        <3> QED BY <3>1, <3>3, <3>4
    <2> HIDE DEF B
    <2>7. B.layout # <<>>  BY <1>1, <1>4, <2>1, <2>4 DEF WholeViews
    <2>8. C \in WholeViews /\ Len(C.layout) = Len(B.layout)
        BY <2>3, <2>4, <2>6, <2>7, SliceKeeps
    <2>9. C.layout # <<>>  BY <1>1, <1>4, <2>1, <2>4, <2>8 DEF WholeViews
    <2>10. RotateView(C, -n) \in WholeViews
        <3>1. -n \in Int  BY <2>1
        <3> HIDE DEF C
        <3> QED BY <2>8, <2>9, <3>1, RotateKeeps
    <2>11. Renames(RotateView(C, -n), v)
        <3>1. n \in 0 .. Len(v.layout) - 1 /\ Within(v.layout[n + 1], first, last)
            BY <1>1, <1>4, <2>1
        <3> HIDE DEF C
        <3>2. Renames(RotateView(Slice(RotateView(v, n), first, last), -n), v)
            BY <1>1, <2>3, <3>1, RangeRenames
        <3> QED BY <3>2 DEF B, C
    <2> QED BY <1>3, <2>1, <2>10, <2>11
<1>15. \A f1, l1 \in Ends(1), f2, l2 \in Ends(2) : Paren(f1, l1, f2, l2) => Inv'
    <2> SUFFICES ASSUME NEW f1 \in Ends(1), NEW l1 \in Ends(1),
                        NEW f2 \in Ends(2), NEW l2 \in Ends(2), Paren(f1, l1, f2, l2)
                 PROVE  Inv'
        OBVIOUS
    <2>1. Rank > 1 /\ Within(layout[1], f1, l1) /\ Within(layout[2], f2, l2)
        BY DEF Paren
    <2>2. layout[1] \in WholeDims /\ layout[2] \in WholeDims  BY <1>4, <2>1
    <2>3. f1 \in Int /\ l1 \in Int /\ f1 <= l1 /\ Size(layout[1]) > 0
        <3>1. Rank > 0  BY <1>4, <2>1
        <3>2. Ends(1) = Extension(layout[1])[1] .. Extension(layout[1])[2]  BY <1>7, <3>1
        <3> QED BY <2>1, <2>2, <3>2, WithinInts
    <2>4. f2 \in Int /\ l2 \in Int /\ f2 <= l2 /\ Size(layout[2]) > 0
        BY <1>4, <1>8, <2>1, <2>2, WithinInts
    <2>5. ParenView(v, f1, l1, f2, l2) \in WholeViews
        BY <1>1, <1>4, <2>1, <2>3, <2>4, ParenKeeps
    <2>6. Renames(ParenView(v, f1, l1, f2, l2), v)
        BY <1>1, <1>4, <2>1, <2>3, <2>4, ParenRenames
    <2> QED BY <1>3, <1>5, <2>5, <2>6 DEF Paren
<1>16. \A s \in Steps : Strided(s) \/ Partitioned(s) => Inv'
    <2> SUFFICES ASSUME NEW s \in Steps PROVE Strided(s) \/ Partitioned(s) => Inv'  OBVIOUS
    <2>1. s \in Nat \ {0}  BY StepsAssumption
    <2>2. Strided(s) => StrideView(v, s) \in WholeViews
        BY <1>1, <1>2, <1>4, <2>1, StrideKeeps DEF Strided, Leading
    <2>3. Partitioned(s) => PartitionView(v, s) \in WholeViews
        BY <1>1, <1>2, <1>4, <2>1, PartitionKeeps DEF Partitioned, Leading
    <2>4. Strided(s) => Renames(StrideView(v, s), v)
        BY <1>1, <1>2, <1>4, <2>1, StrideRenames DEF Strided, Leading
    <2>5. Partitioned(s) => Renames(PartitionView(v, s), v)
        <3> SUFFICES ASSUME Partitioned(s) PROVE Renames(PartitionView(v, s), v)
            OBVIOUS
        <3>1. /\ v.layout # <<>>
              /\ Size(Head(v.layout)) > 0 /\ Size(Head(v.layout)) % s = 0
            BY <1>1, <1>2, <1>4 DEF Partitioned, Leading
        <3> QED BY ONLY <1>1, <2>1, <3>1, PartitionRenames
    <2> QED BY <1>3, <1>5, <2>2, <2>3, <2>4, <2>5 DEF Strided, Partitioned
<1>17. Flatted => Inv'
    BY <1>1, <1>3, <1>4, <1>5, FlatKeeps, FlatRenames DEF Flatted
<1>18. Diagonal => Inv'
    BY <1>1, <1>2, <1>3, <1>4, <1>5, DiagonalKeeps, DiagonalRenames DEF Diagonal
<1>19. \A f \in Ratios : (\E n \in 1 .. f + 1 : Parts(f, n)) \/ (\E part \in 0 .. f - 1 : Member(f, part)) => Inv'
    <2> SUFFICES ASSUME NEW f \in Ratios,
                        (\E n \in 1 .. f + 1 : Parts(f, n)) \/ \E part \in 0 .. f - 1 : Member(f, part)
                 PROVE  Inv'
        OBVIOUS
    <2>1. f \in Nat \ {0}  BY RatiosAssumption
    <2>2. \A op : \A w \in WholeViews : Faithful(w, room * f) /\ Recast(op, w, f) => Inv'
        BY <2>1, RecastInv
    <2>0. room \in Nat /\ Faithful(v, room)  BY <1>5 DEF Inv
    <2>3. ASSUME NEW n \in 1 .. f + 1, Parts(f, n)
          PROVE  Inv'
        <3>1. n = f /\ Recast("reinterpret_array_cast", PartsView(v, f, n), f)
            BY <1>2, <1>5, <2>3 DEF Parts
        <3>2. PartsView(v, f, f) \in WholeViews
            <4>1. 0 \in Int  OBVIOUS
            <4> QED BY <1>1, <2>1, <4>1, CastKeeps
        <3>3. Faithful(PartsView(v, f, f), room * f)  BY <1>1, <2>0, <2>1, PartsFaithful
        <3> QED BY <2>2, <3>1, <3>2, <3>3
    <2>4. ASSUME NEW part \in 0 .. f - 1, Member(f, part)
          PROVE  Inv'
        <3>1. part \in Int  BY <2>1
        <3>2. MemberView(v, f, part) \in WholeViews  BY <1>1, <2>1, <3>1, CastKeeps
        <3>3. Faithful(MemberView(v, f, part), room * f)  BY <1>1, <2>0, <2>1, MemberFaithful
        <3>4. Recast("member_cast", MemberView(v, f, part), f)  BY <1>5, <2>4 DEF Member
        <3> QED BY <2>2, <3>2, <3>3, <3>4
    <2> QED BY <2>3, <2>4
<1> QED BY <1>9, <1>10, <1>11, <1>12, <1>13, <1>14, <1>15, <1>16, <1>17, <1>18, <1>19 DEF Next

(* The invariant holds in every reachable state of a careful caller. *)
LEMMA InvHolds ==
    ASSUME Unchecked = {}, RootsWhole
    PROVE  Spec => []Inv
<1>1. Init => Inv
    <2> SUFFICES ASSUME NEW xs \in Shapes, base = 0, layout = LayoutOf(xs),
                        room = NumElements(LayoutOf(xs)), call = "array"
                 PROVE  Inv
        BY DEF Init
    <2> DEFINE L == LayoutOf(xs)
    <2>1. xs \in Seq(Intervals)  BY ShapesTyped
    <2>2. L \in ArrayLayouts  BY <2>1, LayoutOfExtensions
    <2>3. L \in Seq(WholeDims)  BY <2>1, WholeLayout DEF RootsWhole
    <2> HIDE DEF L
    <2>4. NumElements(L) \in Nat  BY <2>2, SizesFacts DEF ArrayLayouts
    <2>5. This = View(0, L) /\ room = NumElements(L)  BY DEF This, L
    <2>6. Faithful(View(0, L), NumElements(L))
        <3>1. View(0, L).layout = L  BY DEF View
        <3>2. ASSUME NEW ix \in Names(L)
              PROVE  Address(View(0, L), ix) = Position(L, ix) /\ Position(L, ix) \in 0 .. NumElements(L) - 1
            <4>1. Position(L, ix) \in 0 .. NumElements(L) - 1  BY <2>2, DenseInBlock DEF Names
            <4>2. Address(View(0, L), ix) = 0 + Position(L, ix)  BY DEF Address, View
            <4> QED BY <4>1, <4>2
        <3>3. ASSUME NEW ix \in Names(L), NEW jx \in Names(L), Position(L, ix) = Position(L, jx)
              PROVE  ix = jx
            BY <2>2, <3>3, DenseApart DEF Names
        <3> QED BY <3>1, <3>2, <3>3 DEF Faithful
    <2>7. View(0, L) \in WholeViews  BY <2>3 DEF View, WholeViews
    <2> QED BY <2>4, <2>5, <2>6, <2>7, Zenon DEF Inv
<1>2. Inv /\ [Next]_vars => Inv'
    <2> SUFFICES ASSUME Inv, [Next]_vars PROVE Inv'  OBVIOUS
    <2>1. CASE Next  BY <2>1, InvStep
    <2>2. CASE UNCHANGED vars
        <3>1. This' = This /\ room' = room  BY <2>2 DEF vars, This, View
        <3>2. Faithful(This', room')  BY <3>1 DEF Inv
        <3> QED BY <3>1, <3>2 DEF Inv, Faithful, Address
    <2> QED BY <2>1, <2>2
<1> QED BY <1>1, <1>2, PTL DEF Spec

(* Views are whole and stay so, whatever operations a careful caller chains and on    *)
(* whatever shapes: every division the code does on a layout is exact.                *)
THEOREM ViewsWhole ==
    ASSUME Unchecked = {}, RootsWhole
    PROVE  Spec => []Whole
<1>1. Inv => Whole
    <2> SUFFICES ASSUME Inv PROVE Whole  OBVIOUS
    <2>1. layout \in Seq(WholeDims)  BY InvView
    <2>2. \A k \in DOMAIN layout : layout[k] \in WholeDims  BY <2>1
    <2> QED BY <2>2 DEF Whole, WholeDims
<1> QED BY <1>1, InvHolds, PTL

(* The type invariant: no operation makes a negative count of elements. *)
THEOREM ViewsTypeCorrect ==
    ASSUME Unchecked = {}, RootsWhole
    PROVE  Spec => []ViewsTypeOK
<1>1. Inv => ViewsTypeOK
    <2> SUFFICES ASSUME Inv PROVE ViewsTypeOK  OBVIOUS
    <2>1. base \in Int /\ layout \in Seq(WholeDims)  BY InvView
    <2>2. layout \in Seq(Dims)
        <3>1. \A k \in 1 .. Len(layout) : layout[k] \in Dims  BY <2>1 DEF WholeDims
        <3> QED BY <2>1, <3>1
    <2> QED BY <2>1, <2>2 DEF Inv, ViewsTypeOK
<1> QED BY <1>1, InvHolds, PTL

(* Whatever rearranged the view, the iterator i steps from begin() and the i-th index   *)
(* agree on the sub-array, and size() steps lead to end(): the divisions that take an   *)
(* index from an offset, and a distance from a pointer difference, are exact.           *)
THEOREM ViewsTraverse ==
    ASSUME Unchecked = {}, RootsWhole
    PROVE  Spec => []TraversalMatchesIndices
<1>1. Inv => TraversalMatchesIndices
    <2> SUFFICES ASSUME Inv, Rank > 0
                 PROVE  /\ \A i \in 0 .. Size(Leading) - 1 :
                              Pointee(Advanced(Begin(This), i))
                                = At1(This, Extension(Leading)[1] + i)
                        /\ Advanced(Begin(This), Size(Leading)) = End(This)
                        /\ Distance(Begin(This), End(This)) = Size(Leading)
        BY DEF TraversalMatchesIndices
    <2> DEFINE d == Leading
               first == Quot(d.offset, d.stride)
    <2>1. base \in Int /\ d \in WholeDims /\ This.base = base /\ This.layout = layout
        BY InvView DEF Rank, Leading, This, View
    <2>2. /\ d \in Dims /\ d.stride \in Nat \ {0} /\ Size(d) \in Nat
          /\ d.nelems = Size(d) * d.stride
          /\ first \in Int
          /\ d.offset = first * d.stride
          /\ Size(d) > 0 => Extension(d) = <<first, first + Size(d)>>
        BY <2>1, WholeDimFacts
    <2>3. ASSUME NEW n \in Int
          PROVE  Advanced(Begin(This), n) = Iterator(base + n * d.stride, Others, d.stride)
        <3>1. Begin(This) = Iterator(base, Others, d.stride)
            BY <2>1 DEF Begin, Leading, Others
        <3>2. Advanced(Iterator(base, Others, d.stride), n)
                = Iterator(base + n * d.stride, Others, d.stride)
            BY DEF Advanced, Iterator
        <3> QED BY <3>1, <3>2
    <2>4. ASSUME NEW i \in 0 .. Size(d) - 1
          PROVE  Pointee(Advanced(Begin(This), i)) = At1(This, Extension(d)[1] + i)
        <3>1. i \in Int /\ Size(d) > 0  BY <2>2
        <3>2. Extension(d)[1] = first  BY <2>2, <3>1
        <3>3. Shift(d, first + i) = (first + i) * d.stride - d.offset  BY DEF Shift
        <3>4. (first + i) * d.stride = first * d.stride + i * d.stride  BY <2>2, <3>1
        <3>5. i * d.stride \in Int /\ first * d.stride \in Int  BY <2>2, <3>1
        <3>6. Shift(d, first + i) = i * d.stride  BY <2>2, <3>3, <3>4, <3>5
        <3>7. Pointee(Advanced(Begin(This), i)) = View(base + i * d.stride, Others)
            BY <2>3, <3>1 DEF Pointee, Iterator
        <3> QED BY <2>1, <3>2, <3>6, <3>7 DEF At1, Leading, Others
    <2>5. End(This) = Iterator(base + Size(d) * d.stride, Others, d.stride)
        BY <2>1, <2>2 DEF End, Leading, Others
    <2>6. Advanced(Begin(This), Size(d)) = End(This)
        BY <2>2, <2>3, <2>5
    <2>7. Distance(Begin(This), End(This)) = Size(d)
        <3>1. Distance(Begin(This), End(This)) = Quot((base + d.nelems) - base, d.stride)
            BY <2>1 DEF Distance, Begin, End, Iterator, Leading
        <3>2. (base + d.nelems) - base = Size(d) * d.stride
            BY <2>1, <2>2 DEF Dims
        <3>3. Quot(Size(d) * d.stride, d.stride) = Size(d)
            BY <2>2, QuotExact
        <3> QED BY <3>1, <3>2, <3>3
    <2> QED BY <2>4, <2>6, <2>7
<1> QED BY <1>1, InvHolds, PTL

(* What an iterator becomes after n steps, and what it stands on. *)
LEMMA IteratorFacts ==
    ASSUME NEW b, NEW sub, NEW s, NEW n
    PROVE  /\ Advanced(Iterator(b, sub, s), n) = Iterator(b + n * s, sub, s)
           /\ Pointee(Iterator(b, sub, s)) = View(b, sub)
BY DEF Advanced, Iterator, Pointee

(* begin(n) to end(n) walk over the first index of rotated(n), for every dimension whose *)
(* indices start at 0.                                                                   *)
THEOREM ViewsTraverseAnyDimension ==
    ASSUME Unchecked = {}, RootsWhole
    PROVE  Spec => []TraversalOfAnyDimension
<1>1. Inv => TraversalOfAnyDimension
    <2> SUFFICES ASSUME Inv, NEW n \in 0 .. Rank - 1, layout[n + 1].offset = 0
                 PROVE  TraversalAlong(n)
        BY DEF TraversalOfAnyDimension
    <2> DEFINE R == Rotate(layout, n)
               d == layout[n + 1]
               view == RotateView(This, n)
    <2>1. /\ base \in Int /\ layout \in Seq(WholeDims) /\ This.base = base /\ This.layout = layout
          /\ Len(layout) \in Nat /\ n + 1 \in 1 .. Len(layout) /\ d \in WholeDims
        BY InvView DEF Rank, This, View
    <2>2. R \in Seq(WholeDims) /\ Head(R) = d
        BY <2>1, RotateBrings DEF Rank
    <2>3. d.stride \in Nat \ {0} /\ Size(d) \in Nat /\ d.offset = 0
        BY <2>1, WholeDimFacts
    <2>4. view.base = base /\ view.layout = R
        BY <2>1 DEF RotateView, View
    <2>5. ASSUME NEW i \in Nat
          PROVE  Shift(d, i) = i * d.stride
        <3>1. i * d.stride \in Int  BY <2>3
        <3> QED BY <2>3, <3>1 DEF Shift
    <2>6. BeginAlong(This, n) = Iterator(base, Tail(R), d.stride)
        <3>1. Shift(d, 0) = 0  BY <2>3, <2>5
        <3>2. base + Shift(d, 0) = base  BY <2>1, <3>1
        <3> QED BY <2>1, <2>2, <3>2 DEF BeginAlong
    <2>7. EndAlong(This, n) = Iterator(base + Size(d) * d.stride, Tail(R), d.stride)
        BY <2>1, <2>2, <2>3, <2>5 DEF EndAlong
    <2>8. ASSUME NEW i \in Nat
          PROVE  Advanced(BeginAlong(This, n), i) = Iterator(base + i * d.stride, Tail(R), d.stride)
        <3> HIDE DEF R, d
        <3> QED BY <2>6, IteratorFacts
    <2>9. ASSUME NEW i \in Nat
          PROVE  Pointee(Advanced(BeginAlong(This, n), i)) = At1(view, i)
        <3>1. Pointee(Advanced(BeginAlong(This, n), i)) = View(base + i * d.stride, Tail(R))
            <4> HIDE DEF R, d
            <4> QED BY <2>8, IteratorFacts
        <3>2. At1(view, i) = View(base + i * d.stride, Tail(R))
            BY <2>2, <2>4, <2>5 DEF At1
        <3> QED BY <3>1, <3>2
    <2>10. Size(Head(view.layout)) = Size(d)  BY <2>2, <2>4
    <2>11. \A i \in 0 .. Size(d) - 1 : i \in Nat  BY <2>3
    <2> HIDE DEF d, R, view
    <2> QED BY <2>3, <2>7, <2>8, <2>9, <2>10, <2>11 DEF TraversalAlong, view
<1> QED BY <1>1, InvHolds, PTL

(***************************************************************************)
(* Views stay in the root array and name each of its elements once.        *)
(***************************************************************************)
(* Whatever operations are chained, an index that passes the assertion of operator[] in *)
(* every dimension reaches an element of the root array (array_ref.hpp, at_aux_).       *)
THEOREM ViewsInBounds ==
    ASSUME Unchecked = {}, RootsWhole
    PROVE  Spec => []InBounds
<1>1. Inv => InBounds
    <2> SUFFICES ASSUME Inv, NEW ix \in Tuples PROVE Address(This, ix) \in 0 .. room - 1
        BY DEF InBounds, Cells
    <2>1. ix \in Names(This.layout)  BY DEF Tuples, Names, This, View
    <2> QED BY <2>1 DEF Inv, Faithful
<1> QED BY <1>1, InvHolds, PTL

(* No chain of operations makes two tuples of indices name the same element: rotations,  *)
(* slices, strides, partitions, flattenings, diagonals and casts do not fold a view onto *)
(* itself.                                                                               *)
THEOREM ViewsNoAlias ==
    ASSUME Unchecked = {}, RootsWhole
    PROVE  Spec => []NoAlias
<1>1. Inv => NoAlias
    <2> SUFFICES ASSUME Inv PROVE NoAlias
        OBVIOUS
    <2> DEFINE T == Tuples
               C == Cells
               f == [ix \in T |-> Address(This, ix)]
    <2>1. T = Names(This.layout)  BY DEF Tuples, Names, This, View
    <2>2. C = {Address(This, ix) : ix \in T}  BY DEF Cells
    <2>3. IsFiniteSet(C)
        <3>1. C \subseteq 0 .. room - 1  BY <2>1, <2>2 DEF Inv, Faithful
        <3>2. 0 \in Int /\ room - 1 \in Int  BY DEF Inv
        <3>3. IsFiniteSet(0 .. room - 1)  BY <3>2, FS_Interval
        <3> HIDE DEF C
        <3> QED BY <3>1, <3>3, FS_Subset
    <2>4. \A ix, jx \in T : Address(This, ix) = Address(This, jx) => ix = jx
        BY <2>1 DEF Inv, Faithful
    <2> HIDE DEF T, C
    <2>5. f \in Surjection(T, C)  BY <2>2 DEF Surjection
    <2>6. f \in Injection(T, C)  BY <2>2, <2>4 DEF Injection, IsInjective
    <2> HIDE DEF f
    <2>7. Cardinality(T) = Cardinality(C)  BY <2>3, <2>5, <2>6, FS_Injection
    <2> QED BY <2>7 DEF NoAlias, T, C
<1> QED BY <1>1, InvHolds, PTL

(***************************************************************************)
(* Views implements Grid.  The extensions of the layout and the addresses  *)
(* of its indices are the promise's variables; an operation that becomes a *)
(* view (Becomes) changes them as the promise says, and its guard gives    *)
(* the promise's.  A root is shown row by row, from element 0 on.          *)
(***************************************************************************)
(* An extension without indices is (0, 0), as extensions() gives it back. *)
EmptyAtZero == \A xs \in Shapes : \A k \in 1 .. Len(xs) : Count(xs[k]) = 0 => xs[k] = <<0, 0>>

LEMMA PromisedBox ==
    ASSUME NEW L \in Seq(WholeDims)
    PROVE  Promise!Box(Extensions(L)) = Names(L)
<1> DEFINE xs == Extensions(L)
           n == Len(L)
<1>1. L \in Seq(ArrayDims) /\ n \in Nat  BY WholeLayouts
<1>2. xs \in Seq(Intervals) /\ Len(xs) = n /\ \A k \in 1 .. n : xs[k] = Extension(L[k])
    BY <1>1, ExtensionsFacts
<1>3. \A x : Promise!Indices(x) = Indices(x)  BY DEF Promise!Indices, Indices
<1> HIDE DEF xs
<1>4. ASSUME NEW k \in 1 .. n PROVE Indices(xs[k]) \subseteq Int
    BY <1>2 DEF Indices, Intervals
<1>5. ASSUME NEW ix PROVE ix \in Promise!Box(xs) <=> IsName(L, ix)
    <2> DEFINE U == UNION {Indices(xs[k]) : k \in 1 .. n}
    <2>1. ix \in Promise!Box(xs) <=> ix \in [1 .. n -> U] /\ \A k \in 1 .. n : ix[k] \in Indices(xs[k])
        BY <1>2, <1>3 DEF Promise!Box
    <2>2. U \subseteq Int  BY <1>4
    <2>3. ASSUME NEW k \in 1 .. n PROVE Indices(xs[k]) \subseteq U  OBVIOUS
    <2> HIDE DEF U, n
    <2>4. ASSUME ix \in [1 .. n -> U], \A k \in 1 .. n : ix[k] \in Indices(xs[k])
          PROVE  ix \in Seq(Int) /\ Len(ix) = n
        <3>1. ix \in [1 .. n -> Int]  BY <2>2, <2>4
        <3> QED BY <1>1, <3>1
    <2>5. ASSUME ix \in Seq(Int), Len(ix) = n, \A k \in 1 .. n : ix[k] \in Indices(xs[k])
          PROVE  ix \in [1 .. n -> U]
        <3>1. ix \in [1 .. n -> Int]  BY <2>5
        <3> QED BY <2>3, <2>5, <3>1
    <2>6. IsName(L, ix) <=> ix \in Seq(Int) /\ Len(ix) = n /\ \A k \in 1 .. n : ix[k] \in Indices(xs[k])
        BY <1>2 DEF IsName, n
    <2> QED BY <2>1, <2>4, <2>5, <2>6
<1>6. \A ix : ix \in Names(L) <=> IsName(L, ix)  BY <1>1, NamesAre
<1>7. Promise!Box(xs) = Names(L)  BY <1>5, <1>6
<1> QED BY <1>7 DEF xs

(* The promise's variables, after a step to a view whose extensions are xs. *)
Shows(xs, old) ==
    /\ Extensions(layout)' = xs
    /\ [ix \in Tuples |-> Address(This, ix)]'
         = [ix \in Promise!Box(xs) |-> [jx \in Tuples |-> Address(This, jx)][old[ix]]]

LEMMA BecomesShows ==
    ASSUME NEW op, NEW v \in WholeViews, NEW xs, NEW old, Becomes(v, This, xs, old), Become(op, v)
    PROVE  Shows(xs, old) /\ call' = op /\ Promise!Box(xs) = Names(v.layout)
<1>1. base' = v.base /\ layout' = v.layout /\ call' = op  BY DEF Become
<1>2. v.layout \in Seq(WholeDims) /\ This' = v
    <2>1. v = View(v.base, v.layout) /\ v.layout \in Seq(WholeDims)  BY ViewOf
    <2>2. This' = View(base', layout')  BY DEF This, View
    <2> QED BY <1>1, <2>1, <2>2
<1>3. Extensions(layout') = xs /\ RenamesBy(v, This, old)  BY <1>1 DEF Becomes
<1>4. Promise!Box(xs) = Names(v.layout)  BY <1>1, <1>2, <1>3, PromisedBox
<1>5. Tuples' = Names(v.layout)  BY <1>1 DEF Tuples, Names
<1>6. [ix \in Tuples |-> Address(This, ix)]' = [ix \in Names(v.layout) |-> Address(v, ix)]
    BY <1>2, <1>5 DEF Address
<1>7. This.layout = layout /\ Names(layout) = Tuples  BY DEF This, View, Tuples, Names
<1>8. ASSUME NEW ix \in Names(v.layout)
      PROVE  Address(v, ix) = [jx \in Tuples |-> Address(This, jx)][old[ix]]
    <2>1. old[ix] \in Tuples /\ Address(v, ix) = Address(This, old[ix])
        BY <1>3, <1>7 DEF RenamesBy
    <2> QED BY <2>1
<1>9. [ix \in Names(v.layout) |-> Address(v, ix)]
        = [ix \in Names(v.layout) |-> [jx \in Tuples |-> Address(This, jx)][old[ix]]]
    BY <1>8
<1> QED BY <1>1, <1>3, <1>4, <1>6, <1>9 DEF Shows

(* The promise reads the extensions where the code reads the layout. *)
LEMMA PromisedExtents ==
    ASSUME Inv
    PROVE  /\ Promise!Rank = Rank
           /\ Rank > 0 => /\ Promise!Leading = Extension(Leading) /\ Promise!Others = Tail(Extensions(layout))
                          /\ Extensions(layout)[1] = Extension(layout[1]) /\ Leading = layout[1]
           /\ \A k \in 1 .. Rank : Extensions(layout)[k] = Extension(layout[k])
           /\ \A k \in Nat \ {0} : Promise!Ends(k) = Ends(k)
<1>1. layout \in Seq(WholeDims) /\ Len(layout) \in Nat  BY InvView
<1>2. /\ Extensions(layout) \in Seq(Intervals) /\ Len(Extensions(layout)) = Len(layout)
      /\ \A k \in 1 .. Len(layout) : Extensions(layout)[k] = Extension(layout[k])
    <2>1. layout \in Seq(ArrayDims)  BY <1>1, WholeLayouts
    <2> QED BY <2>1, ExtensionsFacts
<1>3. Promise!Rank = Rank  BY <1>2 DEF Promise!Rank, Rank
<1>4. ASSUME Rank > 0
      PROVE  /\ Promise!Leading = Extension(Leading) /\ Promise!Others = Tail(Extensions(layout))
             /\ Extensions(layout)[1] = Extension(layout[1]) /\ Leading = layout[1]
    <2> DEFINE xs == Extensions(layout)
    <2>1. 1 \in 1 .. Len(layout) /\ Leading = layout[1] /\ xs[1] = Extension(layout[1])
        BY <1>1, <1>2, <1>4 DEF Rank, Leading
    <2>2. xs \in Seq(Intervals) /\ Len(xs) > 0  BY <1>2, <1>4 DEF Rank
    <2> HIDE DEF xs
    <2>3. Head(xs) = xs[1]  BY <2>2
    <2>4. Promise!Leading = Head(xs) /\ Promise!Others = Tail(xs)  BY DEF Promise!Leading, Promise!Others, xs
    <2> QED BY <2>1, <2>3, <2>4 DEF xs
<1>5. ASSUME NEW k \in Nat \ {0} PROVE Promise!Ends(k) = Ends(k)
    <2>1. CASE k > Rank  BY <1>3, <2>1 DEF Promise!Ends, Ends
    <2>2. CASE ~ (k > Rank)
        <3>1. k \in 1 .. Len(layout)  BY <1>1, <2>2 DEF Rank
        <3> QED BY <1>2, <1>3, <2>2, <3>1 DEF Promise!Ends, Ends
    <2> QED BY <2>1, <2>2
<1> QED BY <1>2, <1>3, <1>4, <1>5 DEF Rank

(* What an invariant view gives the lemmas on operations. *)
LEMMA InvThis ==
    ASSUME Inv
    PROVE  /\ This \in WholeViews /\ This.layout = layout /\ This.base = base
           /\ layout \in Seq(WholeDims) /\ Rank = Len(layout)
           /\ Rank > 0 => /\ layout # <<>> /\ Leading = Head(layout) /\ Leading \in WholeDims
                          /\ Leading = layout[1]
           /\ Rank > 1 => layout[1] \in WholeDims /\ layout[2] \in WholeDims
<1>1. This \in WholeViews /\ This.layout = layout /\ This.base = base  BY DEF Inv, This, View
<1> QED BY <1>1, InvView DEF Rank, Leading

LEMMA ExtentFacts ==
    ASSUME NEW d \in WholeDims
    PROVE  /\ Extension(d) \in Intervals /\ Extension(d)[1] \in Int /\ Extension(d)[2] \in Int
           /\ Count(Extension(d)) = Size(d) /\ Size(d) \in Nat
           /\ Size(d) > 0 => Extension(d)[1] = Quot(d.offset, d.stride)
           /\ Size(d) = 0 => Extension(d)[1] = 0
<1>1. PICK s \in Nat \ {0}, o \in Int, n \in Nat : IsRows(d, s, o, n)  BY WholeRows
<1>2. Size(d) = n /\ Quot(d.offset, d.stride) = o  BY <1>1 DEF IsRows
<1>3. /\ Count(Extension(d)) = n /\ (n > 0 => Extension(d)[1] = o)
      /\ n = 0 => Extension(d) = <<0, 0>>
    BY <1>1, RowsCount
<1>4. Extension(d) \in Intervals
    BY WholeDimFacts, ArrayDimFacts DEF ArrayDims, WholeDims
<1>5. Extension(d)[1] \in Int /\ Extension(d)[2] \in Int  BY <1>4 DEF Intervals
<1>6. n = 0 => Extension(d)[1] = 0  BY <1>3
<1> QED BY <1>2, <1>3, <1>4, <1>5, <1>6

LEMMA PromisesIndex ==
    ASSUME Inv, NEW i, Index(i)
    PROVE  Promise!Index(i)
<1> DEFINE v == At1(This, i)
           old == [jx \in Names(v.layout) |-> <<i>> \o jx]
<1>1. Rank > 0 /\ i \in Indices(Extension(Leading)) /\ Become("[]", v)  BY DEF Index
<1>2. This \in WholeViews /\ This.layout = layout /\ layout # <<>> /\ Leading = Head(This.layout)
    BY <1>1, InvThis
<1>3. i \in Int
    <2>1. Extension(Leading) \in Intervals  BY <1>1, InvThis, ExtentFacts
    <2> QED BY <1>1, <2>1 DEF Indices, Intervals
<1>4. v \in WholeViews /\ Becomes(v, This, Tail(Extensions(layout)), old)
    <2>1. v \in WholeViews  BY <1>2, <1>3, IndexKeeps
    <2>2. i \in Indices(Extension(Head(This.layout)))  BY <1>1, <1>2
    <2>3. Becomes(v, This, Tail(Extensions(This.layout)), old)  BY <1>2, <2>2, IndexRenames
    <2> QED BY <1>2, <2>1, <2>3
<1> HIDE DEF v
<1>5. Shows(Tail(Extensions(layout)), old) /\ call' = "[]" /\ Promise!Box(Tail(Extensions(layout))) = Names(v.layout)
    <2> HIDE DEF old
    <2> QED BY <1>1, <1>4, BecomesShows
<1>6. Promise!Rank > 0 /\ i \in Promise!Indices(Promise!Leading) /\ Promise!Others = Tail(Extensions(layout))
    BY <1>1, PromisedExtents DEF Promise!Indices, Indices
<1> QED BY <1>5, <1>6 DEF Promise!Index, Promise!Become, Shows

LEMMA PromisesRotated ==
    ASSUME Inv, NEW r \in Nat, Rotated(r)
    PROVE  Promise!Rotated(r)
<1> DEFINE v == RotateView(This, r)
           xs == Turn(Extensions(layout), r)
           old == TurnBy(v.layout, -r)
<1>1. Rank > 0 /\ Become("rotated", v)  BY DEF Rotated
<1>2. This \in WholeViews /\ This.layout = layout /\ This.layout # <<>> /\ r \in Int  BY <1>1, InvThis
<1>3. v \in WholeViews  BY <1>2, RotateKeeps
<1>4. Becomes(v, This, xs, old)  BY <1>2, RotateBecomes
<1> HIDE DEF v
<1>5. Shows(xs, old) /\ call' = "rotated" /\ Promise!Box(xs) = Names(v.layout)
    <2> HIDE DEF old, xs
    <2> QED BY <1>1, <1>3, <1>4, BecomesShows
<1>6. Promise!Rank > 0  BY <1>1, PromisedExtents
<1>7. \A s, q : Promise!Turned(s, q) = Turn(s, q)  BY DEF Promise!Turned, Turn
<1> QED BY <1>5, <1>6, <1>7 DEF Promise!Rotated, Promise!Become, Shows, TurnBy

LEMMA PromisesUnrotated ==
    ASSUME Inv, NEW r \in Nat, Unrotated(r)
    PROVE  Promise!Unrotated(r)
<1> DEFINE v == UnrotateView(This, r)
           xs == Turn(Extensions(layout), -r)
           old == TurnBy(v.layout, r)
<1>1. Rank > 0 /\ Become("unrotated", v)  BY DEF Unrotated
<1>2. This \in WholeViews /\ This.layout = layout /\ This.layout # <<>> /\ r \in Int  BY <1>1, InvThis
<1>3. v \in WholeViews  BY <1>2, RotateKeeps
<1>4. Becomes(v, This, xs, old)  BY <1>2, RotateBecomes
<1> HIDE DEF v
<1>5. Shows(xs, old) /\ call' = "unrotated" /\ Promise!Box(xs) = Names(v.layout)
    <2> HIDE DEF old, xs
    <2> QED BY <1>1, <1>3, <1>4, BecomesShows
<1>6. Promise!Rank > 0  BY <1>1, PromisedExtents
<1>7. \A s, q : Promise!Turned(s, q) = Turn(s, q)  BY DEF Promise!Turned, Turn
<1> QED BY <1>5, <1>6, <1>7 DEF Promise!Unrotated, Promise!Become, Shows, TurnBy

LEMMA PromisesTransposed ==
    ASSUME Inv, Transposed
    PROVE  Promise!Transposed
<1> DEFINE v == View(base, Transpose(layout))
           xs == Transpose(Extensions(layout))
           old == [jx \in Names(v.layout) |-> Transpose(jx)]
<1>1. Rank > 1 /\ Become("transposed", v)  BY DEF Transposed
<1>2. This \in WholeViews /\ This.layout = layout /\ This.base = base /\ Len(This.layout) > 1  BY <1>1, InvThis
<1>3. v \in WholeViews  BY <1>2, TransposeKeeps
<1>4. Becomes(v, This, xs, old)
    <2>1. v.layout = Transpose(layout)  BY ViewParts
    <2>2. Becomes(View(This.base, Transpose(This.layout)), This, Transpose(Extensions(This.layout)),
                  [jx \in Names(Transpose(This.layout)) |-> Transpose(jx)])
        BY <1>2, TransposeRenames
    <2> QED BY <1>2, <2>1, <2>2
<1> HIDE DEF v
<1>5. Shows(xs, old) /\ call' = "transposed" /\ Promise!Box(xs) = Names(v.layout)
    <2> HIDE DEF old, xs
    <2> QED BY <1>1, <1>3, <1>4, BecomesShows
<1>6. Promise!Rank > 1  BY <1>1, PromisedExtents
<1> QED BY <1>5, <1>6 DEF Promise!Transposed, Promise!Become, Shows, Transpose

LEMMA PromisesReindexed ==
    ASSUME Inv, NEW first \in Int, Reindexed(first)
    PROVE  Promise!Reindexed(first)
<1> DEFINE v == ReindexView(This, first)
           x == Extension(Leading)
           xs == <<Promise!From(first, Count(x))>> \o Tail(Extensions(layout))
           old == [jx \in Names(v.layout) |-> <<jx[1] - first + x[1]>> \o Tail(jx)]
<1>1. Rank > 0 /\ Become("reindexed", v)  BY DEF Reindexed
<1>2. /\ This \in WholeViews /\ This.layout = layout /\ This.layout # <<>>
      /\ Leading = Head(This.layout)
    BY <1>1, InvThis
<1>3. v \in WholeViews  BY <1>2, ReindexKeeps
<1>4. Becomes(v, This, xs, old)
    <2>1. Becomes(ReindexView(This, first), This,
                  <<Promise!From(first, Count(Extension(Head(This.layout))))>> \o Tail(Extensions(This.layout)),
                  [jx \in Names(ReindexView(This, first).layout) |->
                       <<jx[1] - first + Extension(Head(This.layout))[1]>> \o Tail(jx)])
        BY <1>2, ReindexRenames
    <2> QED BY <1>2, <2>1
<1> HIDE DEF v
<1>5. Shows(xs, old) /\ call' = "reindexed" /\ Promise!Box(xs) = Names(v.layout)
    <2> HIDE DEF old, xs
    <2> QED BY <1>1, <1>3, <1>4, BecomesShows
<1>6. Promise!Rank > 0 /\ Promise!Leading = x /\ Promise!Others = Tail(Extensions(layout))
    BY <1>1, PromisedExtents
<1>7. Promise!Count(Promise!Leading) = Count(x)  BY <1>6 DEF Promise!Count, Count
<1> HIDE DEF x
<1>8. <<Promise!From(first, Promise!Count(Promise!Leading))>> \o Promise!Others = xs  BY <1>6, <1>7, Zenon
<1> HIDE DEF xs
<1>9. \A ix \in Promise!Box(xs) : old[ix] = Promise!Lead(ix[1] - first + Promise!Leading[1], ix)
    BY <1>5, <1>6 DEF Promise!Lead
<1> HIDE DEF old
<1> QED BY <1>5, <1>6, <1>8, <1>9 DEF Promise!Reindexed, Promise!Become, Shows

LEMMA PromisesSliced ==
    ASSUME Inv, NEW first \in Int, NEW last \in Int, Sliced(first, last)
    PROVE  Promise!Sliced(first, last)
<1> DEFINE v == Slice(This, first, last)
           x == Extension(Leading)
           xs == <<Promise!From(x[1], last - first)>> \o Tail(Extensions(layout))
           old == [jx \in Names(v.layout) |-> <<jx[1] - x[1] + first>> \o Tail(jx)]
<1>1. Rank > 0 /\ Within(Leading, first, last) /\ Become("sliced", v)  BY DEF Sliced
<1>2. /\ This \in WholeViews /\ This.layout = layout /\ This.layout # <<>>
      /\ Leading = Head(This.layout)
    BY <1>1, InvThis
<1>0. Size(Leading) > 0 /\ x[1] <= first /\ first <= last /\ last <= x[2]  BY <1>1 DEF Within
<1>3. v \in WholeViews  BY <1>0, <1>2, SliceKeeps
<1>4. Becomes(v, This, xs, old)
    <2>1. Within(Head(This.layout), first, last)  BY <1>1, <1>2
    <2>2. Becomes(Slice(This, first, last), This,
                  <<Promise!From(Extension(Head(This.layout))[1], last - first)>> \o Tail(Extensions(This.layout)),
                  [jx \in Names(Slice(This, first, last).layout) |->
                       <<jx[1] - Extension(Head(This.layout))[1] + first>> \o Tail(jx)])
        BY <1>2, <2>1, SliceRenames
    <2> QED BY <1>2, <2>2
<1> HIDE DEF v
<1>5. Shows(xs, old) /\ call' = "sliced" /\ Promise!Box(xs) = Names(v.layout)
    <2> HIDE DEF old, xs
    <2> QED BY <1>1, <1>3, <1>4, BecomesShows
<1>6. Promise!Rank > 0 /\ Promise!Leading = x /\ Promise!Others = Tail(Extensions(layout))
    BY <1>1, PromisedExtents
<1> HIDE DEF x
<1> QED BY <1>0, <1>5, <1>6 DEF Promise!Sliced, Promise!Become, Promise!Lead, Shows

LEMMA PromisesBlocked ==
    ASSUME Inv, NEW first \in Int, NEW last \in Int, Blocked(first, last)
    PROVE  Promise!Blocked(first, last)
<1> DEFINE v == ReindexView(Slice(This, first, last), first)
           x == Extension(Leading)
           xs == <<Promise!From(first, last - first)>> \o Tail(Extensions(layout))
           old == [jx \in Names(v.layout) |-> jx]
<1>1. Rank > 0 /\ Within(Leading, first, last) /\ first < last /\ Become("blocked", v)  BY DEF Blocked
<1>2. /\ This \in WholeViews /\ This.layout = layout /\ This.layout # <<>>
      /\ Leading = Head(This.layout)
    BY <1>1, InvThis
<1>0. Size(Leading) > 0 /\ x[1] <= first /\ first < last /\ last <= x[2]  BY <1>1 DEF Within
<1>3. v \in WholeViews
    <2> DEFINE A == Slice(This, first, last)
    <2>1. A \in WholeViews /\ Len(A.layout) = Len(This.layout)  BY <1>0, <1>2, SliceKeeps
    <2> HIDE DEF A
    <2>2. A.layout \in Seq(WholeDims) /\ This.layout \in Seq(WholeDims)  BY <1>2, <2>1, ViewOf
    <2>3. A.layout # <<>>  BY <1>2, <2>1, <2>2
    <2>4. ReindexView(A, first) \in WholeViews  BY <2>1, <2>3, ReindexKeeps
    <2> QED BY <2>4 DEF A
<1>4. Becomes(v, This, xs, old)
    <2>1. Within(Head(This.layout), first, last)  BY <1>1, <1>2
    <2>2. Becomes(ReindexView(Slice(This, first, last), first), This,
                  <<Promise!From(first, last - first)>> \o Tail(Extensions(This.layout)),
                  [jx \in Names(ReindexView(Slice(This, first, last), first).layout) |-> jx])
        BY <1>1, <1>2, <2>1, BlockRenames
    <2> QED BY <1>2, <2>2
<1> HIDE DEF v
<1>5. Shows(xs, old) /\ call' = "blocked" /\ Promise!Box(xs) = Names(v.layout)
    <2> HIDE DEF old, xs
    <2> QED BY <1>1, <1>3, <1>4, BecomesShows
<1>6. Promise!Rank > 0 /\ Promise!Leading = x /\ Promise!Others = Tail(Extensions(layout))
    BY <1>1, PromisedExtents
<1> HIDE DEF x
<1> QED BY <1>0, <1>5, <1>6 DEF Promise!Blocked, Promise!Become, Shows

(* A range of the leading dimension, and one of the second of two. *)
LEMMA NameLength ==
    ASSUME NEW v \in WholeViews, NEW xs, Extensions(v.layout) = xs, NEW ix \in Names(v.layout)
    PROVE  ix \in Seq(Int) /\ Len(ix) = Len(xs) /\ xs \in Seq(Intervals)
<1>1. v.layout \in Seq(ArrayDims)  BY ViewOf, WholeLayouts
<1>2. Len(xs) = Len(v.layout) /\ xs \in Seq(Intervals)  BY <1>1, ExtensionsFacts
<1>3. ix \in Seq(Int) /\ Len(ix) = Len(v.layout)  BY <1>1, NamesAre DEF IsName
<1> QED BY <1>2, <1>3

LEMMA FromInterval ==
    ASSUME NEW o \in Int, NEW n \in Nat
    PROVE  Promise!From(o, n) \in Intervals
BY DEF Promise!From, Intervals

LEMMA PromisesRangedFirst ==
    ASSUME Inv, NEW n \in Int, n = 0, NEW first \in Int, NEW last \in Int, Ranged(first, last, n)
    PROVE  Promise!Ranged(first, last, n)
<1> DEFINE v == Slice(This, first, last)
           es == Extensions(layout)
           x == Extension(Leading)
           m == last - first
           a == Promise!From(x[1], m)
           xs == <<a>> \o Tail(es)
           old == [jx \in Names(v.layout) |-> <<jx[1] - x[1] + first>> \o Tail(jx)]
<1>1. /\ Rank > 1 /\ n < Rank /\ Within(layout[n + 1], first, last) /\ first < last
      /\ Become("range", RotateView(Slice(RotateView(This, n), first, last), -n))
    BY DEF Ranged
<1>2. /\ This \in WholeViews /\ This.layout = layout /\ This.layout # <<>> /\ Leading = layout[1]
      /\ Leading = Head(This.layout) /\ Leading \in WholeDims /\ Rank > 0
      /\ layout \in Seq(WholeDims) /\ Rank = Len(layout)
    BY <1>1, InvThis
<1>3. n + 1 = 1 /\ Within(Head(This.layout), first, last)  BY <1>1, <1>2
<1>0. Size(Leading) > 0 /\ x[1] <= first /\ first < last /\ last <= x[2]  BY <1>1, <1>2, <1>3 DEF Within
<1>4. v \in WholeViews /\ Becomes(v, This, xs, old) /\ Become("range", v)
    <2>1. v \in WholeViews
        <3>1. Size(Head(This.layout)) > 0 /\ first <= last  BY <1>0, <1>2
        <3> QED BY <1>2, <3>1, SliceKeeps
    <2>2. Becomes(Slice(This, first, last), This,
                  <<Promise!From(Extension(Head(This.layout))[1], last - first)>> \o Tail(Extensions(This.layout)),
                  [jx \in Names(Slice(This, first, last).layout) |->
                       <<jx[1] - Extension(Head(This.layout))[1] + first>> \o Tail(jx)])
        BY <1>2, <1>3, SliceRenames
    <2>3. RotateView(Slice(RotateView(This, n), first, last), -n) = v  BY <1>2, <1>3, RangeFirst
    <2> QED BY <1>1, <1>2, <2>1, <2>2, <2>3
<1> HIDE DEF v
<1>5. Shows(xs, old) /\ call' = "range" /\ Promise!Box(xs) = Names(v.layout)
    <2> HIDE DEF old, xs
    <2> QED BY <1>4, BecomesShows
<1>6. Promise!Rank = Rank /\ es[1] = x  BY <1>2, PromisedExtents
<1>7. x[1] \in Int  BY <1>2, ExtentFacts
<1>8. es \in Seq(Intervals) /\ Len(es) = Rank
    <2>1. layout \in Seq(ArrayDims)  BY <1>2, WholeLayouts
    <2> QED BY <1>2, <2>1, ExtensionsFacts
<1> HIDE DEF es, x
<1>9. [es EXCEPT ![1] = a] = xs
    <2>1. m \in Nat  BY <1>1
    <2>2. a \in Intervals
        <3> HIDE DEF m
        <3> QED BY <1>7, <2>1, FromInterval
    <2> HIDE DEF a
    <2> QED BY <1>2, <1>8, <2>2, ExceptFirst
<1>10. ASSUME NEW ix \in Promise!Box(xs)
       PROVE  old[ix] = [ix EXCEPT ![1] = ix[1] - x[1] + first]
    <2>1. ix \in Names(v.layout)  BY <1>5
    <2>2. ix \in Seq(Int) /\ Len(ix) = Rank
        <3>1. Len(xs) = Len(es)
            <4> HIDE DEF a
            <4> QED BY <1>2, <1>8, <1>9
        <3> HIDE DEF xs, old
        <3>2. Extensions(v.layout) = xs  BY <1>4 DEF Becomes
        <3> QED BY <1>4, <1>8, <2>1, <3>1, <3>2, NameLength
    <2>3. ix[1] \in Int /\ Len(ix) > 0  BY <1>2, <2>2
    <2> DEFINE i == ix[1] - x[1] + first
    <2>4. i \in Int  BY <1>7, <2>3
    <2>5. old[ix] = <<i>> \o Tail(ix)  BY <2>1
    <2> HIDE DEF i, old
    <2>6. [ix EXCEPT ![1] = i] = <<i>> \o Tail(ix)  BY <2>2, <2>3, <2>4, ExceptFirst
    <2> QED BY <2>5, <2>6 DEF i
<1> HIDE DEF xs, old
<1>11. n < Promise!Rank  BY <1>1, <1>6
<1>12. es[n + 1] = x /\ [es EXCEPT ![n + 1] = Promise!From(es[n + 1][1], last - first)] = xs
    <2>1. es[n + 1] = x  BY <1>3, <1>6, Zenon
    <2>2. [es EXCEPT ![n + 1] = a] = xs  BY <1>3, <1>9, Zenon
    <2> QED BY <2>1, <2>2, Zenon DEF a, m
<1>13. \A ix \in Promise!Box(xs) : old[ix] = [ix EXCEPT ![n + 1] = @ - es[n + 1][1] + first]
    <2>1. ASSUME NEW ix \in Promise!Box(xs)
          PROVE  old[ix] = [ix EXCEPT ![n + 1] = @ - es[n + 1][1] + first]
        <3>1. old[ix] = [ix EXCEPT ![1] = ix[1] - x[1] + first]  BY <1>10
        <3> QED BY <1>3, <1>12, <3>1, Zenon
    <2> QED BY <2>1
<1>14. es[n + 1][1] <= first /\ first < last /\ last <= es[n + 1][2]  BY <1>0, <1>12, Zenon
<1> QED BY <1>5, <1>11, <1>12, <1>13, <1>14 DEF Promise!Ranged, Promise!Become, Shows, es

LEMMA PromisesRangedSecond ==
    ASSUME Inv, NEW n \in Int, n = 1, Rank = 2, NEW first \in Int, NEW last \in Int, Ranged(first, last, n)
    PROVE  Promise!Ranged(first, last, n)
<1> DEFINE v == RotateView(Slice(RotateView(This, n), first, last), -n)
           es == Extensions(layout)
           x == Extension(layout[2])
           m == last - first
           a == Promise!From(x[1], m)
           xs == <<Extension(layout[1]), a>> \o Tail(Tail(es))
           old == [jx \in Names(v.layout) |-> <<jx[1], jx[2] - x[1] + first>> \o Tail(Tail(jx))]
<1>1. Rank > 1 /\ n < Rank /\ Within(layout[n + 1], first, last) /\ first < last /\ Become("range", v)
    BY DEF Ranged
<1>2. /\ This \in WholeViews /\ This.layout = layout /\ layout \in Seq(WholeDims) /\ Rank = Len(layout)
      /\ layout[1] \in WholeDims /\ layout[2] \in WholeDims /\ layout # <<>>
    BY <1>1, InvThis
<1>3. n + 1 = 2 /\ Within(layout[2], first, last)  BY <1>1
<1>0. Size(layout[2]) > 0 /\ x[1] <= first /\ first < last /\ last <= x[2]  BY <1>1, <1>3 DEF Within
<1>4. Becomes(v, This, xs, old)
    <2>1. Len(This.layout) = 2 /\ Within(This.layout[2], first, last)  BY <1>2, <1>3
    <2>2. LET y == Extension(This.layout[2])
              P == RotateView(Slice(RotateView(This, n), first, last), -n)
          IN  Becomes(P, This,
                      <<Extension(This.layout[1]), Promise!From(y[1], last - first)>>
                        \o Tail(Tail(Extensions(This.layout))),
                      [jx \in Names(P.layout) |-> <<jx[1], jx[2] - y[1] + first>> \o Tail(Tail(jx))])
        BY <1>2, <2>1, RangeSecond
    <2> QED BY <1>2, <2>2
<1>12. v \in WholeViews
    <2> DEFINE B == RotateView(This, n)
               C == Slice(B, first, last)
    <2>1. B \in WholeViews /\ Len(B.layout) = Len(layout)  BY <1>2, RotateKeeps
    <2>2. Head(B.layout) = layout[2]
        <3>1. B.layout = Rotate(layout, n)  BY <1>2 DEF RotateView, View
        <3>2. n \in 0 .. Len(layout) - 1
            <4>1. Len(layout) = 2  BY <1>2
            <4> QED BY <4>1
        <3> QED BY <1>2, <1>3, <3>1, <3>2, RotateBrings
    <2> HIDE DEF B
    <2>3. B.layout # <<>>  BY <1>2, <2>1, ViewOf
    <2>4. C \in WholeViews /\ Len(C.layout) = Len(B.layout)  BY <1>0, <2>1, <2>2, <2>3, SliceKeeps
    <2> HIDE DEF C
    <2>5. C.layout # <<>>
        <3>1. C.layout \in Seq(WholeDims) /\ Len(C.layout) = 2  BY <1>2, <2>1, <2>4, ViewOf
        <3> QED BY <3>1
    <2>6. -n \in Int  OBVIOUS
    <2>7. RotateView(C, -n) \in WholeViews  BY <2>4, <2>5, <2>6, RotateKeeps
    <2> QED BY <2>7 DEF B, C
<1> HIDE DEF v
<1>5. Shows(xs, old) /\ call' = "range" /\ Promise!Box(xs) = Names(v.layout)
    <2> HIDE DEF old, xs
    <2> QED BY <1>1, <1>4, <1>12, BecomesShows
<1>6. Promise!Rank = Rank /\ es[1] = Extension(layout[1]) /\ es[2] = x
    <2>1. 1 \in 1 .. Rank /\ 2 \in 1 .. Rank  BY <1>1
    <2> QED BY <2>1, PromisedExtents
<1>7. x[1] \in Int  BY <1>2, ExtentFacts
<1>8. es \in Seq(Intervals) /\ Len(es) = 2
    <2>1. layout \in Seq(ArrayDims)  BY <1>2, WholeLayouts
    <2> QED BY <1>2, <2>1, ExtensionsFacts
<1> HIDE DEF es, x
<1>9. [es EXCEPT ![2] = a] = xs
    <2>1. m \in Nat  BY <1>1
    <2>2. a \in Intervals
        <3> HIDE DEF m
        <3> QED BY <1>7, <2>1, FromInterval
    <2> HIDE DEF a
    <2> QED BY <1>6, <1>8, <2>2, ExceptLast
<1>10. ASSUME NEW ix \in Promise!Box(xs)
       PROVE  old[ix] = [ix EXCEPT ![2] = ix[2] - x[1] + first]
    <2>1. ix \in Names(v.layout)  BY <1>5
    <2>2. ix \in Seq(Int) /\ Len(ix) = 2
        <3>1. Len(xs) = 2
            <4>1. Len([es EXCEPT ![2] = a]) = 2
                <5> HIDE DEF a
                <5> QED BY <1>8
            <4> HIDE DEF xs
            <4> QED BY <1>9, <4>1
        <3> HIDE DEF xs, old
        <3>2. Extensions(v.layout) = xs  BY <1>4 DEF Becomes
        <3> QED BY <1>12, <2>1, <3>1, <3>2, NameLength
    <2>3. ix[1] \in Int /\ ix[2] \in Int
        <3>1. \A k \in 1 .. Len(ix) : ix[k] \in Int
            <4>1. ix \in Seq(Int)  BY <2>2
            <4> QED BY ONLY <4>1
        <3>2. 1 \in 1 .. Len(ix) /\ 2 \in 1 .. Len(ix)  BY <2>2
        <3> QED BY ONLY <3>1, <3>2
    <2> DEFINE i == ix[2] - x[1] + first
    <2>4. i \in Int  BY <1>7, <2>3
    <2>5. old[ix] = <<ix[1], i>> \o Tail(Tail(ix))  BY <2>1
    <2> HIDE DEF i, old
    <2>6. [ix EXCEPT ![2] = i] = <<ix[1], i>> \o Tail(Tail(ix))  BY <2>2, <2>4, ExceptLast
    <2> QED BY <2>5, <2>6 DEF i
<1> HIDE DEF xs, old
<1>11. n < Promise!Rank  BY <1>1, <1>6
<1>13. es[n + 1] = x /\ [es EXCEPT ![n + 1] = Promise!From(es[n + 1][1], last - first)] = xs
    <2>1. es[n + 1] = x  BY <1>3, <1>6, Zenon
    <2>2. [es EXCEPT ![n + 1] = a] = xs  BY <1>3, <1>9, Zenon
    <2> QED BY <2>1, <2>2, Zenon DEF a, m
<1>14. \A ix \in Promise!Box(xs) : old[ix] = [ix EXCEPT ![n + 1] = @ - es[n + 1][1] + first]
    <2>1. ASSUME NEW ix \in Promise!Box(xs)
          PROVE  old[ix] = [ix EXCEPT ![n + 1] = @ - es[n + 1][1] + first]
        <3>1. old[ix] = [ix EXCEPT ![2] = ix[2] - x[1] + first]  BY <1>10
        <3> QED BY <1>3, <1>13, <3>1, Zenon
    <2> QED BY <2>1
<1>15. es[n + 1][1] <= first /\ first < last /\ last <= es[n + 1][2]  BY <1>0, <1>13, Zenon
<1> QED BY <1>5, <1>11, <1>13, <1>14, <1>15 DEF Promise!Ranged, Promise!Become, Shows, es

(* The leading two extensions of a promise. *)
LEMMA PromisedTwo ==
    ASSUME Inv, Rank > 1
    PROVE  /\ Promise!Rank = Rank /\ Promise!Rank > 1
           /\ Extensions(layout) \in Seq(Intervals) /\ Len(Extensions(layout)) = Rank
           /\ Extensions(layout)[1] = Extension(layout[1]) /\ Extensions(layout)[2] = Extension(layout[2])
           /\ Promise!Others = Tail(Extensions(layout))
           /\ \A y : Promise!Count(y) = Count(y)
<1>1. layout \in Seq(WholeDims) /\ Rank = Len(layout)  BY InvThis
<1>2. layout \in Seq(ArrayDims)  BY <1>1, WholeLayouts
<1>3. Extensions(layout) \in Seq(Intervals) /\ Len(Extensions(layout)) = Rank
    BY <1>1, <1>2, ExtensionsFacts
<1>4. 1 \in 1 .. Rank /\ 2 \in 1 .. Rank /\ Rank > 0  BY <1>1
<1>5. \A y : Promise!Count(y) = Count(y)  BY DEF Promise!Count, Count
<1> QED BY <1>3, <1>4, <1>5, PromisedExtents

LEMMA PromisesParen ==
    ASSUME Inv, NEW f1 \in Int, NEW l1 \in Int, NEW f2 \in Int, NEW l2 \in Int, Paren(f1, l1, f2, l2)
    PROVE  Promise!Paren(f1, l1, f2, l2)
<1> DEFINE v == ParenView(This, f1, l1, f2, l2)
           es == Extensions(layout)
           x1 == Extension(layout[1])
           x2 == Extension(layout[2])
           m1 == l1 - f1
           m2 == l2 - f2
           a1 == Promise!From(x1[1], m1)
           a2 == Promise!From(x2[1], m2)
           xs == <<a1, a2>> \o Tail(Tail(es))
           old == [jx \in Names(v.layout) |-> <<jx[1] - x1[1] + f1, jx[2] - x2[1] + f2>> \o Tail(Tail(jx))]
<1>1. /\ Rank > 1 /\ Within(layout[1], f1, l1) /\ f1 < l1 /\ Within(layout[2], f2, l2) /\ f2 < l2
      /\ Become("()", v)
    BY DEF Paren
<1>2. /\ This \in WholeViews /\ This.layout = layout /\ layout \in Seq(WholeDims) /\ Rank = Len(layout)
      /\ layout[1] \in WholeDims /\ layout[2] \in WholeDims
    BY <1>1, InvThis
<1>0. /\ Size(layout[1]) > 0 /\ x1[1] <= f1 /\ f1 < l1 /\ l1 <= x1[2]
      /\ Size(layout[2]) > 0 /\ x2[1] <= f2 /\ f2 < l2 /\ l2 <= x2[2]
    BY <1>1 DEF Within
<1>3. v \in WholeViews
    <2>1. Len(This.layout) > 1 /\ f1 <= l1 /\ f2 <= l2  BY <1>0, <1>1, <1>2
    <2> QED BY <1>0, <1>2, <2>1, ParenKeeps
<1>4. Becomes(v, This, xs, old)
    <2>1. Len(This.layout) > 1 /\ Within(This.layout[1], f1, l1) /\ Within(This.layout[2], f2, l2)
        BY <1>1, <1>2
    <2>2. LET y1 == Extension(This.layout[1])
              y2 == Extension(This.layout[2])
          IN  Becomes(ParenView(This, f1, l1, f2, l2), This,
                      <<Promise!From(y1[1], l1 - f1), Promise!From(y2[1], l2 - f2)>>
                        \o Tail(Tail(Extensions(This.layout))),
                      [jx \in Names(ParenView(This, f1, l1, f2, l2).layout) |->
                           <<jx[1] - y1[1] + f1, jx[2] - y2[1] + f2>> \o Tail(Tail(jx))])
        BY <1>2, <2>1, ParenRenames
    <2> QED BY <1>2, <2>2
<1> HIDE DEF v
<1>5. Shows(xs, old) /\ call' = "()" /\ Promise!Box(xs) = Names(v.layout)
    <2> HIDE DEF old, xs
    <2> QED BY <1>1, <1>3, <1>4, BecomesShows
<1>6. /\ Promise!Rank > 1 /\ es \in Seq(Intervals) /\ Len(es) = Rank /\ es[1] = x1 /\ es[2] = x2
    BY <1>1, PromisedTwo
<1>7. x1[1] \in Int /\ x2[1] \in Int  BY <1>2, ExtentFacts
<1> HIDE DEF es, x1, x2
<1>8. [es EXCEPT ![1] = a1, ![2] = a2] = xs
    <2>1. m1 \in Nat /\ m2 \in Nat  BY <1>0
    <2>2. a1 \in Intervals /\ a2 \in Intervals
        <3> HIDE DEF m1, m2
        <3> QED BY <1>7, <2>1, FromInterval
    <2>3. Len(es) > 1  BY <1>1, <1>6
    <2> HIDE DEF a1, a2
    <2>4. BothSet(es, a1, a2) = xs  BY <1>6, <2>2, <2>3, ExceptTwo
    <2> QED BY <2>4, Zenon DEF BothSet
<1>9. ASSUME NEW ix \in Promise!Box(xs)
      PROVE  old[ix] = [ix EXCEPT ![1] = ix[1] - x1[1] + f1, ![2] = ix[2] - x2[1] + f2]
    <2>1. ix \in Names(v.layout)  BY <1>5
    <2>2. ix \in Seq(Int) /\ Len(ix) > 1
        <3>1. Len(xs) = Rank
            <4>1. Len([es EXCEPT ![1] = a1, ![2] = a2]) = Rank
                <5> HIDE DEF a1, a2
                <5> QED BY <1>2, <1>6
            <4> HIDE DEF xs
            <4> QED BY <1>8, <4>1
        <3> HIDE DEF xs, old
        <3>2. Extensions(v.layout) = xs  BY <1>4 DEF Becomes
        <3> QED BY <1>1, <1>3, <2>1, <3>1, <3>2, NameLength
    <2>3. ix[1] \in Int /\ ix[2] \in Int
        <3>1. \A k \in 1 .. Len(ix) : ix[k] \in Int
            <4>1. ix \in Seq(Int)  BY <2>2
            <4> QED BY ONLY <4>1
        <3>2. 1 \in 1 .. Len(ix) /\ 2 \in 1 .. Len(ix)  BY <2>2
        <3> QED BY ONLY <3>1, <3>2
    <2> DEFINE i == ix[1] - x1[1] + f1
               j == ix[2] - x2[1] + f2
    <2>4. i \in Int /\ j \in Int  BY <1>7, <2>3
    <2>5. old[ix] = <<i, j>> \o Tail(Tail(ix))  BY <2>1
    <2> HIDE DEF i, j, old
    <2>6. BothSet(ix, i, j) = <<i, j>> \o Tail(Tail(ix))  BY <2>2, <2>4, ExceptTwo
    <2> QED BY <2>5, <2>6, Zenon DEF i, j, BothSet
<1> HIDE DEF xs, old
<1>10. [es EXCEPT ![1] = Promise!From(es[1][1], l1 - f1), ![2] = Promise!From(es[2][1], l2 - f2)] = xs
    BY <1>6, <1>8, Zenon DEF a1, a2, m1, m2
<1>11. \A ix \in Promise!Box(xs) :
          old[ix] = [ix EXCEPT ![1] = @ - es[1][1] + f1, ![2] = @ - es[2][1] + f2]
    BY <1>6, <1>9, Zenon
<1>12. /\ es[1][1] <= f1 /\ f1 < l1 /\ l1 <= es[1][2]
       /\ es[2][1] <= f2 /\ f2 < l2 /\ l2 <= es[2][2]
    BY <1>0, <1>6, Zenon
<1> QED BY <1>5, <1>6, <1>10, <1>11, <1>12 DEF Promise!Paren, Promise!Become, Shows, es

LEMMA ZeroModulo ==
    ASSUME NEW s \in Nat \ {0}
    PROVE  0 % s = 0
OBVIOUS

LEMMA PromisesStrided ==
    ASSUME Inv, NEW s \in Nat \ {0}, Careful("strided"), Strided(s)
    PROVE  Promise!Strided(s)
<1> DEFINE v == StrideView(This, s)
           x == Extension(Leading)
           xs == <<Promise!From(x[1] \div s, Count(x) \div s)>> \o Tail(Extensions(layout))
           old == [jx \in Names(v.layout) |-> <<jx[1] * s>> \o Tail(jx)]
<1>1. /\ Rank > 0 /\ Size(Leading) % s = 0 /\ Quot(Leading.offset, Leading.stride) % s = 0
      /\ Become("strided", v)
    BY DEF Strided
<1>2. /\ This \in WholeViews /\ This.layout = layout /\ This.layout # <<>>
      /\ Leading = Head(This.layout) /\ Leading \in WholeDims
    BY <1>1, InvThis
<1>0. Size(Head(This.layout)) % s = 0 /\ Quot(Head(This.layout).offset, Head(This.layout).stride) % s = 0
    BY <1>1, <1>2
<1>3. v \in WholeViews  BY <1>0, <1>2, StrideKeeps
<1>4. Becomes(v, This, xs, old)
    <2>1. Becomes(StrideView(This, s), This,
                  <<Promise!From(Extension(Head(This.layout))[1] \div s,
                                 Count(Extension(Head(This.layout))) \div s)>> \o Tail(Extensions(This.layout)),
                  [jx \in Names(StrideView(This, s).layout) |-> <<jx[1] * s>> \o Tail(jx)])
        BY <1>0, <1>2, StrideRenames
    <2> QED BY <1>2, <2>1
<1> HIDE DEF v
<1>5. Shows(xs, old) /\ call' = "strided" /\ Promise!Box(xs) = Names(v.layout)
    <2> HIDE DEF old, xs
    <2> QED BY <1>1, <1>3, <1>4, BecomesShows
<1>6. Promise!Rank > 0 /\ Promise!Leading = x /\ Promise!Others = Tail(Extensions(layout))
    BY <1>1, PromisedExtents
<1>7. Promise!Count(Promise!Leading) = Count(x)  BY <1>6 DEF Promise!Count, Count
<1>8. Count(x) % s = 0 /\ x[1] % s = 0
    <2>1. Count(x) % s = 0  BY <1>1, <1>2, ExtentFacts
    <2>2. x[1] % s = 0
        <3>1. Size(Leading) \in Nat  BY <1>2, ExtentFacts
        <3>2. CASE Size(Leading) = 0
            <4>1. x[1] = 0  BY <1>2, <3>2, ExtentFacts
            <4> QED BY <4>1, ZeroModulo
        <3>3. CASE Size(Leading) > 0
            <4>1. x[1] = Quot(Leading.offset, Leading.stride)  BY <1>2, <3>3, ExtentFacts
            <4> QED BY <1>1, <4>1
        <3> QED BY <3>1, <3>2, <3>3
    <2> QED BY <2>1, <2>2
<1> HIDE DEF x
<1>9. <<Promise!From(Promise!Leading[1] \div s, Promise!Count(Promise!Leading) \div s)>> \o Promise!Others = xs
    BY <1>6, <1>7, Zenon
<1> HIDE DEF xs
<1>10. \A ix \in Promise!Box(xs) : old[ix] = Promise!Lead(ix[1] * s, ix)
    BY <1>5 DEF Promise!Lead
<1>11. Promise!Count(Promise!Leading) % s = 0 /\ Promise!Leading[1] % s = 0  BY <1>6, <1>7, <1>8, Zenon
<1> HIDE DEF old
<1> QED BY <1>5, <1>6, <1>9, <1>10, <1>11 DEF Promise!Strided, Promise!Become, Shows

LEMMA PromisesPartitioned ==
    ASSUME Inv, NEW s \in Nat \ {0}, Careful("partitioned"), Partitioned(s)
    PROVE  Promise!Partitioned(s)
<1> DEFINE v == PartitionView(This, s)
           x == Extension(Leading)
           part == Count(x) \div s
           xs == <<<<0, s>>, Promise!From(x[1], part)>> \o Tail(Extensions(layout))
           old == [jx \in Names(v.layout) |-> <<jx[1] * part + jx[2]>> \o Tail(Tail(jx))]
<1>1. /\ Rank > 0 /\ Size(Leading) > 0 /\ Size(Leading) % s = 0 /\ Become("partitioned", v)
    <2>1. Rank \in 1 .. MaxRank - 1 /\ MaxRank \in Nat  BY BoundsAssumption DEF Partitioned
    <2> QED BY <2>1 DEF Partitioned
<1>2. /\ This \in WholeViews /\ This.layout = layout /\ This.layout # <<>>
      /\ Leading = Head(This.layout) /\ Leading \in WholeDims
    BY <1>1, InvThis
<1>0. Size(Head(This.layout)) > 0 /\ Size(Head(This.layout)) % s = 0  BY <1>1, <1>2
<1>3. v \in WholeViews  BY <1>0, <1>2, PartitionKeeps
<1>4. Becomes(v, This, xs, old)
    <2>1. LET y == Extension(Head(This.layout))
              p == Count(y) \div s
          IN  Becomes(PartitionView(This, s), This,
                      <<<<0, s>>, Promise!From(y[1], p)>> \o Tail(Extensions(This.layout)),
                      [jx \in Names(PartitionView(This, s).layout) |->
                           <<jx[1] * p + jx[2]>> \o Tail(Tail(jx))])
        BY <1>0, <1>2, PartitionRenames
    <2> QED BY <1>2, <2>1
<1> HIDE DEF v
<1>5. Shows(xs, old) /\ call' = "partitioned" /\ Promise!Box(xs) = Names(v.layout)
    <2> HIDE DEF old, xs
    <2> QED BY <1>1, <1>3, <1>4, BecomesShows
<1>6. Promise!Rank > 0 /\ Promise!Leading = x /\ Promise!Others = Tail(Extensions(layout))
    BY <1>1, PromisedExtents
<1>7. Promise!Count(Promise!Leading) = Count(x)  BY <1>6 DEF Promise!Count, Count
<1>8. Count(x) > 0 /\ Count(x) % s = 0  BY <1>1, <1>2, ExtentFacts
<1> HIDE DEF x
<1>9. <<<<0, s>>, Promise!From(Promise!Leading[1], Promise!Count(Promise!Leading) \div s)>> \o Promise!Others = xs
    BY <1>6, <1>7, Zenon
<1> HIDE DEF xs
<1>10. \A ix \in Promise!Box(xs) :
          old[ix] = Promise!Lead(ix[1] * (Promise!Count(Promise!Leading) \div s) + ix[2], Tail(ix))
    <2>1. part = Promise!Count(Promise!Leading) \div s  BY <1>7, Zenon
    <2> HIDE DEF part
    <2> QED BY <1>5, <2>1 DEF Promise!Lead
<1>11. Promise!Count(Promise!Leading) > 0 /\ Promise!Count(Promise!Leading) % s = 0  BY <1>7, <1>8, Zenon
<1> HIDE DEF old
<1> QED BY <1>5, <1>6, <1>9, <1>10, <1>11, ZenonT(30) DEF Promise!Partitioned, Promise!Become, Shows

LEMMA PromisesFlatted ==
    ASSUME Inv, Flatted
    PROVE  Promise!Flatted
<1> DEFINE v == FlatView(This)
           es == Extensions(layout)
           x1 == Extension(layout[1])
           x2 == Extension(layout[2])
           xs == <<Promise!From(x2[1], Count(x1) * Count(x2))>> \o Tail(Tail(es))
           old == [jx \in Names(v.layout) |->
                       <<x1[1] + (jx[1] - x2[1]) \div Count(x2), x2[1] + ((jx[1] - x2[1]) % Count(x2))>>
                         \o Tail(jx)]
<1>1. Rank > 1 /\ Size(layout[2]) > 0 /\ layout[1].stride = layout[2].nelems /\ Become("flatted", v)
    BY DEF Flatted
<1>2. /\ This \in WholeViews /\ This.layout = layout /\ Rank = Len(layout)
      /\ layout[2] \in WholeDims
    BY <1>1, InvThis
<1>0. Len(This.layout) > 1 /\ Size(This.layout[2]) > 0 /\ This.layout[1].stride = This.layout[2].nelems
    BY <1>1, <1>2
<1>3. v \in WholeViews  BY <1>0, <1>2, FlatKeeps
<1>4. Becomes(v, This, xs, old)
    <2>1. LET y1 == Extension(This.layout[1])
              y2 == Extension(This.layout[2])
          IN  Becomes(FlatView(This), This,
                      <<Promise!From(y2[1], Count(y1) * Count(y2))>> \o Tail(Tail(Extensions(This.layout))),
                      [jx \in Names(FlatView(This).layout) |->
                           <<y1[1] + (jx[1] - y2[1]) \div Count(y2),
                             y2[1] + ((jx[1] - y2[1]) % Count(y2))>> \o Tail(jx)])
        BY <1>0, <1>2, FlatRenames
    <2> QED BY <1>2, <2>1
<1> HIDE DEF v
<1>5. Shows(xs, old) /\ call' = "flatted" /\ Promise!Box(xs) = Names(v.layout)
    <2> HIDE DEF old, xs
    <2> QED BY <1>1, <1>3, <1>4, BecomesShows
<1>6. /\ Promise!Rank > 1 /\ es[1] = x1 /\ es[2] = x2 /\ Promise!Others = Tail(es)
    BY <1>1, PromisedTwo
<1>7. Promise!Count(es[1]) = Count(x1) /\ Promise!Count(es[2]) = Count(x2)  BY <1>1, <1>6, PromisedTwo, Zenon
<1>8. Count(x2) > 0  BY <1>1, <1>2, ExtentFacts
<1> HIDE DEF x1, x2, es
<1>9. <<Promise!From(es[2][1], Promise!Count(es[1]) * Promise!Count(es[2]))>> \o Tail(Promise!Others) = xs
    BY <1>6, <1>7, Zenon
<1> HIDE DEF xs
<1>10. \A ix \in Promise!Box(xs) :
          old[ix] = <<es[1][1] + (ix[1] - es[2][1]) \div Promise!Count(es[2]),
                      es[2][1] + ((ix[1] - es[2][1]) % Promise!Count(es[2]))>> \o Tail(ix)
    <2>1. ASSUME NEW ix \in Promise!Box(xs)
          PROVE  old[ix] = <<es[1][1] + (ix[1] - es[2][1]) \div Promise!Count(es[2]),
                             es[2][1] + ((ix[1] - es[2][1]) % Promise!Count(es[2]))>> \o Tail(ix)
        <3>1. old[ix] = <<x1[1] + (ix[1] - x2[1]) \div Count(x2),
                          x2[1] + ((ix[1] - x2[1]) % Count(x2))>> \o Tail(ix)
            <4>1. ix \in Names(v.layout)  BY <1>5
            <4> QED BY <4>1
        <3> QED BY <1>6, <1>7, <3>1, Zenon
    <2> QED BY <2>1
<1>11. Promise!Count(es[2]) > 0  BY <1>7, <1>8, Zenon
<1> HIDE DEF old
<1> QED BY <1>5, <1>6, <1>9, <1>10, <1>11 DEF Promise!Flatted, Promise!Become, Shows, es

LEMMA PromisesDiagonal ==
    ASSUME Inv, Careful("diagonal"), Diagonal
    PROVE  Promise!Diagonal
<1> DEFINE v == DiagonalView(This)
           es == Extensions(layout)
           x1 == Extension(layout[1])
           x2 == Extension(layout[2])
           n == IF Count(x1) < Count(x2) THEN Count(x1) ELSE Count(x2)
           xs == <<Promise!From(0, n)>> \o Tail(Tail(es))
           old == [jx \in Names(v.layout) |-> <<x1[1] + jx[1], x2[1] + jx[1]>> \o Tail(jx)]
<1>1. /\ Rank > 1 /\ Size(layout[1]) > 0 /\ Size(layout[2]) > 0 /\ Extension(layout[2])[1] = 0
      /\ Become("diagonal", v)
    BY DEF Diagonal
<1>2. This \in WholeViews /\ This.layout = layout /\ Rank = Len(layout)
    BY <1>1, InvThis
<1>0. /\ Len(This.layout) > 1 /\ Size(This.layout[1]) > 0 /\ Size(This.layout[2]) > 0
      /\ Extension(This.layout[2])[1] = 0
    BY <1>1, <1>2
<1>3. v \in WholeViews  BY <1>0, <1>2, DiagonalKeeps
<1>4. n > 0 /\ Becomes(v, This, xs, old)
    <2>1. LET y1 == Extension(This.layout[1])
              y2 == Extension(This.layout[2])
              least == IF Count(y1) < Count(y2) THEN Count(y1) ELSE Count(y2)
          IN  /\ least > 0
              /\ Becomes(DiagonalView(This), This,
                         <<Promise!From(0, least)>> \o Tail(Tail(Extensions(This.layout))),
                         [jx \in Names(DiagonalView(This).layout) |->
                              <<y1[1] + jx[1], y2[1] + jx[1]>> \o Tail(jx)])
        BY <1>0, <1>2, DiagonalRenames
    <2> QED BY <1>2, <2>1
<1> HIDE DEF v
<1>5. Shows(xs, old) /\ call' = "diagonal" /\ Promise!Box(xs) = Names(v.layout)
    <2> HIDE DEF old, xs
    <2> QED BY <1>1, <1>3, <1>4, BecomesShows
<1>6. /\ Promise!Rank > 1 /\ es[1] = x1 /\ es[2] = x2 /\ Promise!Others = Tail(es)
    BY <1>1, PromisedTwo
<1>7. Promise!Count(es[1]) = Count(x1) /\ Promise!Count(es[2]) = Count(x2)  BY <1>1, <1>6, PromisedTwo, Zenon
<1> HIDE DEF x1, x2, es
<1>8. n = IF Promise!Count(es[1]) < Promise!Count(es[2]) THEN Promise!Count(es[1]) ELSE Promise!Count(es[2])
    BY <1>7, Zenon
<1> HIDE DEF n
<1>9. <<Promise!From(0, n)>> \o Tail(Promise!Others) = xs  BY <1>6, Zenon
<1> HIDE DEF xs
<1>10. \A ix \in Promise!Box(xs) : old[ix] = <<es[1][1] + ix[1], es[2][1] + ix[1]>> \o Tail(ix)
    <2>1. ASSUME NEW ix \in Promise!Box(xs)
          PROVE  old[ix] = <<es[1][1] + ix[1], es[2][1] + ix[1]>> \o Tail(ix)
        <3>1. old[ix] = <<x1[1] + ix[1], x2[1] + ix[1]>> \o Tail(ix)
            <4>1. ix \in Names(v.layout)  BY <1>5
            <4> QED BY <4>1
        <3> QED BY <1>6, <3>1, Zenon
    <2> QED BY <2>1
<1> HIDE DEF old
<1> QED BY <1>4, <1>5, <1>6, <1>8, <1>9, <1>10 DEF Promise!Diagonal, Promise!Become, Shows, es

(* A cast counts in other elements: what it shows is not a renaming. *)
LEMMA RecastShows ==
    ASSUME Inv, NEW op, NEW f, NEW v \in WholeViews, Recast(op, v, f)
    PROVE  /\ Extensions(layout)' = Extensions(v.layout) /\ call' = op
           /\ [ix \in Tuples |-> Address(This, ix)]' = [ix \in Names(v.layout) |-> Address(v, ix)]
           /\ Promise!Box(Extensions(v.layout)) = Names(v.layout)
<1>1. base' = v.base /\ layout' = v.layout /\ call' = op  BY DEF Recast
<1>2. v.layout \in Seq(WholeDims) /\ This' = v
    <2>1. v = View(v.base, v.layout) /\ v.layout \in Seq(WholeDims)  BY ViewOf
    <2>2. This' = View(base', layout')  BY DEF This, View
    <2> QED BY <1>1, <2>1, <2>2
<1>3. Promise!Box(Extensions(v.layout)) = Names(v.layout)  BY <1>2, PromisedBox
<1>4. Tuples' = Names(v.layout)  BY <1>1 DEF Tuples, Names
<1>5. [ix \in Tuples |-> Address(This, ix)]' = [ix \in Names(v.layout) |-> Address(v, ix)]
    BY <1>2, <1>4 DEF Address
<1> QED BY <1>1, <1>3, <1>5

LEMMA PromisesMember ==
    ASSUME Inv, NEW f \in Nat \ {0}, NEW part \in Int, Member(f, part)
    PROVE  Promise!Member(f, part)
<1> DEFINE v == MemberView(This, f, part)
           es == Extensions(layout)
           element == [ix \in Tuples |-> Address(This, ix)]
<1>1. Recast("member_cast", v, f)  BY DEF Member
<1>2. This \in WholeViews /\ This.layout = layout  BY InvThis
<1>3. v \in WholeViews  BY <1>2, CastKeeps
<1>4. /\ Extensions(v.layout) = es
      /\ \A ix \in Names(v.layout) : ix \in Names(layout) /\ Address(v, ix) = Address(This, ix) * f + part
    BY <1>2, MemberCells
<1> HIDE DEF v
<1>5. /\ Extensions(layout)' = es /\ call' = "member_cast" /\ Promise!Box(es) = Names(v.layout)
      /\ element' = [ix \in Names(v.layout) |-> Address(v, ix)]
    BY <1>1, <1>3, <1>4, RecastShows
<1>6. ASSUME NEW ix \in Names(v.layout) PROVE Address(v, ix) = element[ix] * f + part
    <2>1. ix \in Tuples  BY <1>4 DEF Tuples, Names
    <2> QED BY <1>4, <2>1
<1>7. element' = [ix \in Promise!Box(es) |-> element[ix] * f + part]
    BY <1>5, <1>6
<1> QED BY <1>5, <1>7 DEF Promise!Member

LEMMA PromisesParts ==
    ASSUME Inv, NEW f \in Nat \ {0}, NEW n, Careful("reinterpret_array_cast"), Parts(f, n)
    PROVE  Promise!Parts(f)
<1> DEFINE v == PartsView(This, f, f)
           es == Extensions(layout)
           xs == Append(es, <<0, f>>)
           element == [ix \in Tuples |-> Address(This, ix)]
<1>1. n = f /\ Recast("reinterpret_array_cast", v, f)
    <2>1. n = f  BY DEF Parts
    <2> QED BY <2>1 DEF Parts
<1>2. This \in WholeViews /\ This.layout = layout  BY InvThis
<1>3. v \in WholeViews
    <2>1. 0 \in Int  OBVIOUS
    <2> QED BY <1>2, <2>1, CastKeeps
<1>4. /\ Extensions(v.layout) = xs
      /\ \A jx \in Names(v.layout) :
            Front(jx) \in Names(layout) /\ Address(v, jx) = Address(This, Front(jx)) * f + Last(jx)
    BY <1>2, PartsLast
<1> HIDE DEF v, xs
<1>5. /\ Extensions(layout)' = xs /\ call' = "reinterpret_array_cast" /\ Promise!Box(xs) = Names(v.layout)
      /\ element' = [ix \in Names(v.layout) |-> Address(v, ix)]
    BY <1>1, <1>3, <1>4, RecastShows
<1>6. ASSUME NEW ix \in Names(v.layout) PROVE Address(v, ix) = element[Front(ix)] * f + Last(ix)
    <2>1. Front(ix) \in Tuples  BY <1>4 DEF Tuples, Names
    <2> QED BY <1>4, <2>1
<1>7. element' = [ix \in Promise!Box(xs) |-> element[Front(ix)] * f + Last(ix)]
    BY <1>5, <1>6
<1>8. \A s : Promise!Front(s) = Front(s) /\ Promise!Last(s) = Last(s)
    BY DEF Promise!Front, Front, Promise!Last, Last
<1> QED BY <1>5, <1>7, <1>8 DEF Promise!Parts, xs

(* A root array shows its elements row by row: DenseInOrder. *)
LEMMA InitPromised ==
    ASSUME RootsWhole, EmptyAtZero, Init
    PROVE  Promise!Init
<1> DEFINE element == [ix \in Tuples |-> Address(This, ix)]
<1>1. PICK xs \in Shapes : base = 0 /\ layout = LayoutOf(xs) /\ call = "array"  BY DEF Init
<1>2. xs \in Seq(Intervals)  BY <1>1, ShapesTyped
<1>3. Extensions(layout) = xs  BY <1>1, <1>2, WholeLayout DEF RootsWhole, EmptyAtZero
<1>4. layout \in ArrayLayouts  BY <1>1, <1>2, LayoutOfExtensions
<1>5. layout \in Seq(WholeDims)  BY <1>1, <1>2, WholeLayout DEF RootsWhole
<1>6. Promise!Box(xs) = Names(layout) /\ Tuples = Names(layout)  BY <1>3, <1>5, PromisedBox DEF Tuples, Names
<1>7. \A ix, jx : Promise!Before(ix, jx) <=> Precedes(ix, jx)  BY DEF Promise!Before, Precedes
<1>8. ASSUME NEW ix \in Names(layout)
      PROVE  Address(This, ix) = Cardinality({jx \in Promise!Box(xs) : Promise!Before(jx, ix)})
    <2>1. {jx \in Promise!Box(xs) : Promise!Before(jx, ix)} = {jx \in Names(layout) : Precedes(jx, ix)}
        BY <1>6, <1>7
    <2>2. Cardinality({jx \in Names(layout) : Precedes(jx, ix)}) = Position(layout, ix)
        BY <1>4, DenseInOrder DEF Names
    <2>3. This.base = 0 /\ This.layout = layout  BY <1>1 DEF This, View
    <2>4. Position(layout, ix) \in Int
        <3>1. layout \in Seq(ArrayDims)  BY <1>4 DEF ArrayLayouts
        <3> QED BY <1>4, DenseInBlock DEF Names
    <2>5. Address(This, ix) = 0 + Position(layout, ix)  BY <2>3 DEF Address
    <2> QED BY <2>1, <2>2, <2>4, <2>5
<1>9. element = [ix \in Promise!Box(xs) |-> Cardinality({jx \in Promise!Box(xs) : Promise!Before(jx, ix)})]
    BY <1>6, <1>8
<1> HIDE DEF element
<1>10. \A S : Promise!Cardinality(S) = Cardinality(S)  BY DEF Promise!Cardinality, Cardinality
<1> QED BY <1>1, <1>3, <1>9, <1>10 DEF Promise!Init, element

(* Every operation of a careful caller is the operation of the same name. *)
LEMMA NextPromised ==
    ASSUME Unchecked = {}, Inv, Next
    PROVE  Promise!Next
<1>1. \A op : Careful(op)  BY DEF Careful
<1>2. /\ Rank \in Nat /\ Promise!Rank = Rank
      /\ Rank > 0 => layout[1] \in WholeDims /\ Ends(1) = Extension(layout[1])[1] .. Extension(layout[1])[2]
      /\ Rank > 1 => layout[2] \in WholeDims /\ Ends(2) = Extension(layout[2])[1] .. Extension(layout[2])[2]
    BY InvView, InvThis, PromisedExtents DEF Ends, Rank
<1>3. \A k \in Nat \ {0} : Promise!Ends(k) = Ends(k)  BY PromisedExtents
<1>4. \A k \in Nat \ {0} : Ends(k) \subseteq Int
    <2> SUFFICES ASSUME NEW k \in Nat \ {0}, k <= Rank
                 PROVE  Extension(layout[k])[1] .. Extension(layout[k])[2] \subseteq Int
        BY <1>2 DEF Ends
    <2> QED OBVIOUS
<1>5. 1 \in Nat \ {0} /\ 2 \in Nat \ {0}  OBVIOUS
<1>6. ASSUME NEW i \in Ends(1), Index(i) PROVE Promise!Next
    <2>1. Promise!Index(i)  BY <1>6, PromisesIndex
    <2>2. i \in Promise!Ends(1)  BY <1>3, <1>5, <1>6
    <2> QED BY <2>1, <2>2 DEF Promise!Next
<1>7. ASSUME NEW r \in 0 .. Rank, Rotated(r) \/ Unrotated(r) PROVE Promise!Next
    <2>1. r \in Nat /\ r \in 0 .. Promise!Rank  BY <1>2
    <2>2. Promise!Rotated(r) \/ Promise!Unrotated(r)  BY <1>7, <2>1, PromisesRotated, PromisesUnrotated
    <2> QED BY <2>1, <2>2 DEF Promise!Next
<1>8. ASSUME Transposed PROVE Promise!Next
    BY <1>8, PromisesTransposed DEF Promise!Next
<1>9. ASSUME NEW first \in Firsts, Reindexed(first) PROVE Promise!Next
    <2>1. first \in Int  BY FirstsAssumption
    <2>2. Promise!Reindexed(first)  BY <1>9, <2>1, PromisesReindexed
    <2> QED BY <2>2 DEF Promise!Next
<1>10. ASSUME NEW first \in Ends(1), NEW last \in Ends(1), Sliced(first, last) \/ Blocked(first, last)
       PROVE  Promise!Next
    <2>1. first \in Int /\ last \in Int  BY <1>4, <1>5
    <2>2. Promise!Sliced(first, last) \/ Promise!Blocked(first, last)
        BY <1>10, <2>1, PromisesSliced, PromisesBlocked
    <2>3. first \in Promise!Ends(1) /\ last \in Promise!Ends(1)  BY <1>3, <1>5
    <2> QED BY <2>2, <2>3 DEF Promise!Next
<1>11. ASSUME NEW n \in 0 .. Rank - 1, NEW first \in Ends(n + 1), NEW last \in Ends(n + 1),
              Ranged(first, last, n)
       PROVE  Promise!Next
    <2>1. n \in Int /\ n + 1 \in Nat \ {0} /\ n \in 0 .. Promise!Rank - 1  BY <1>2
    <2>2. first \in Int /\ last \in Int  BY <1>4, <2>1
    <2>3. n < Rank /\ (Rank = 2 \/ n = 0)  BY <1>1, <1>11 DEF Ranged
    <2>4. n = 0 \/ (n = 1 /\ Rank = 2)  BY <2>1, <2>3
    <2>5. Promise!Ranged(first, last, n)
        BY <1>11, <2>1, <2>2, <2>4, PromisesRangedFirst, PromisesRangedSecond
    <2>6. first \in Promise!Ends(n + 1) /\ last \in Promise!Ends(n + 1)  BY <1>3, <2>1
    <2> QED BY <2>1, <2>5, <2>6 DEF Promise!Next
<1>12. ASSUME NEW f1 \in Ends(1), NEW l1 \in Ends(1), NEW f2 \in Ends(2), NEW l2 \in Ends(2),
              Paren(f1, l1, f2, l2)
       PROVE  Promise!Next
    <2>1. f1 \in Int /\ l1 \in Int /\ f2 \in Int /\ l2 \in Int  BY <1>4, <1>5
    <2>2. Promise!Paren(f1, l1, f2, l2)  BY <1>12, <2>1, PromisesParen
    <2>3. /\ f1 \in Promise!Ends(1) /\ l1 \in Promise!Ends(1)
          /\ f2 \in Promise!Ends(2) /\ l2 \in Promise!Ends(2)
        BY <1>3, <1>5
    <2> QED BY <2>2, <2>3 DEF Promise!Next
<1>13. ASSUME NEW s \in Steps, Strided(s) \/ Partitioned(s) PROVE Promise!Next
    <2>1. s \in Nat \ {0}  BY StepsAssumption
    <2>2. Promise!Strided(s) \/ Promise!Partitioned(s)
        BY <1>1, <1>13, <2>1, PromisesStrided, PromisesPartitioned
    <2> QED BY <2>2 DEF Promise!Next
<1>14. ASSUME Flatted PROVE Promise!Next
    BY <1>14, PromisesFlatted DEF Promise!Next
<1>15. ASSUME Diagonal PROVE Promise!Next
    BY <1>1, <1>15, PromisesDiagonal DEF Promise!Next
<1>16. ASSUME NEW f \in Ratios, NEW n \in 1 .. f + 1, Parts(f, n) PROVE Promise!Next
    <2>1. f \in Nat \ {0}  BY RatiosAssumption
    <2>2. Promise!Parts(f)  BY <1>1, <1>16, <2>1, PromisesParts
    <2> QED BY <2>2 DEF Promise!Next
<1>17. ASSUME NEW f \in Ratios, NEW part \in 0 .. f - 1, Member(f, part) PROVE Promise!Next
    <2>1. f \in Nat \ {0} /\ part \in Int  BY RatiosAssumption
    <2>2. Promise!Member(f, part)  BY <1>17, <2>1, PromisesMember
    <2> QED BY <2>2 DEF Promise!Next
<1> QED BY <1>6, <1>7, <1>8, <1>9, <1>10, <1>11, <1>12, <1>13, <1>14, <1>15, <1>16, <1>17 DEF Next

(* Views implements Grid: whatever operations a careful caller chains, on whatever roots, *)
(* the view names the elements the chain of renamings names.  No stride, offset or count  *)
(* of a layout is ever read as anything but the box of indices it stands for.             *)
THEOREM ViewsImplementsGrid ==
    ASSUME Unchecked = {}, RootsWhole, EmptyAtZero
    PROVE  Spec => ImplementsGrid
<1>1. Init => Promise!Init  BY InitPromised
<1>2. Inv /\ [Next]_vars => [Promise!Next]_(Promise!vars)
    <2> SUFFICES ASSUME Inv, [Next]_vars PROVE [Promise!Next]_(Promise!vars)  OBVIOUS
    <2>1. CASE Next  BY <2>1, NextPromised
    <2>2. CASE UNCHANGED vars
        <3>1. base' = base /\ layout' = layout /\ call' = call  BY <2>2 DEF vars
        <3>2. This' = This /\ Tuples' = Tuples /\ Extensions(layout)' = Extensions(layout)
            BY <3>1 DEF This, Tuples
        <3>3. [ix \in Tuples |-> Address(This, ix)]' = [ix \in Tuples |-> Address(This, ix)]
            BY <3>2 DEF Address
        <3> QED BY <3>1, <3>2, <3>3 DEF Promise!vars
    <2> QED BY <2>1, <2>2
<1>3. Spec => []Inv  BY InvHolds
<1> QED BY <1>1, <1>2, <1>3, PTL DEF Spec, ImplementsGrid, Promise!Spec

=============================================================================
