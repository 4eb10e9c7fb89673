----------------------------- MODULE BasicArray -----------------------------
(***************************************************************************)
(* Views as values (array_ref.hpp, basic_array and array_iterator): a base *)
(* and a layout, and what each operation makes of them.  Nothing here      *)
(* guards: what an operation needs is said where it is called.             *)
(***************************************************************************)
EXTENDS Layout

View(b, L) == [base |-> b, layout |-> L]

(* operator[]: one dimension less *)
At1(v, i) == View(v.base + Shift(Head(v.layout), i), Tail(v.layout))

(* The base of the element v[ix[1]][ix[2]]... *)
Address(v, ix) == v.base + Position(v.layout, ix)

(* nelems_ is divided by the size before it is multiplied. *)
Resize(d, n) == [d EXCEPT !.nelems = Quot(@, Size(d)) * n]

Slice(v, first, last) ==
    View(v.base + Shift(Head(v.layout), first),
         <<Resize(Head(v.layout), last - first)>> \o Tail(v.layout))

RotateView(v, r)   == View(v.base, Rotate(v.layout, r))
UnrotateView(v, r) == View(v.base, Unrotate(v.layout, r))

ReindexView(v, first) == View(v.base, <<Reindex(Head(v.layout), first)>> \o Tail(v.layout))

(* paren(a, b) turns to the second dimension and back. *)
ParenView(v, f1, l1, f2, l2) ==
    UnrotateView(Slice(RotateView(Slice(v, f1, l1), 1), f2, l2), 1)

(* Mutant: the size is kept and the view grows past its end. *)
StrideGrows(v, s) ==
    View(v.base, <<[Head(v.layout) EXCEPT !.stride = @ * s, !.nelems = @ * s]>> \o Tail(v.layout))

StrideView(v, s) ==
    View(v.base, <<[Head(v.layout) EXCEPT !.stride = @ * s]>> \o Tail(v.layout))

(* Mutant: the parts are as long as the whole. *)
PartitionKeepsNelems(v, s) ==
    LET d == Head(v.layout)
    IN  View(v.base, <<Dim(Quot(d.nelems, s), 0, d.nelems), d>> \o Tail(v.layout))

PartitionView(v, s) ==
    LET d == Head(v.layout)
    IN  View(v.base, <<Dim(Quot(d.nelems, s), 0, d.nelems), [d EXCEPT !.nelems = Quot(@, s)]>>
                         \o Tail(v.layout))

FlatView(v) ==
    LET d == Head(v.layout)  e == v.layout[2]
    IN  View(v.base, <<[e EXCEPT !.nelems = @ * Size(d)]>> \o SubSeq(v.layout, 3, Len(v.layout)))

(* The sub-layout of the leading square, longer by its leading dimension. *)
DiagonalView(v) ==
    LET m == Size(v.layout[1])  n == Size(v.layout[2])
        length == IF m < n THEN m ELSE n
        square == ParenView(v, 0, length, 0, length).layout
    IN  View(v.base, <<Dim(square[1].stride + square[2].stride, square[2].offset,
                           square[1].nelems + square[2].nelems)>>
                         \o SubSeq(square, 3, Len(square)))

(***************************************************************************)
(* Casts: an element is f parts of one type, and the view is counted in    *)
(* parts.  member_cast shows the same part of every element,               *)
(* reinterpret_array_cast(n) n of them in a dimension of their own.        *)
(***************************************************************************)
Scale(L, f) == [k \in DOMAIN L |-> Dim(L[k].stride * f, L[k].offset * f, L[k].nelems * f)]

MemberView(v, f, part) == View(v.base * f + part, Scale(v.layout, f))
PartsView(v, f, n) == View(v.base * f, Rotate(<<Dim(1, 0, n)>> \o Scale(v.layout, f), 1))

(***************************************************************************)
(* Iterators (array_iterator): where the sub-array of an index starts, its *)
(* layout, and the stride from one to the next.  begin(n) and end(n) walk  *)
(* along another dimension than the leading one.                           *)
(***************************************************************************)
Iterator(b, sub, stride) == [base |-> b, sub |-> sub, stride |-> stride]

Pointee(it)      == View(it.base, it.sub)
Advanced(it, n)  == [it EXCEPT !.base = @ + n * it.stride]
Distance(it, to) == Quot(to.base - it.base, it.stride)

Begin(v) == Iterator(v.base, Tail(v.layout), Head(v.layout).stride)
End(v)   == Iterator(v.base + Head(v.layout).nelems, Tail(v.layout), Head(v.layout).stride)

BeginAlong(v, n) ==
    LET L == Rotate(v.layout, n)
    IN  Iterator(v.base + Shift(Head(L), 0), Tail(L), Head(L).stride)

(* Mutant: the end is taken from the layout before it was rotated. *)
EndAlongUnrotated(v, n) ==
    LET L == Rotate(v.layout, n)
    IN  Iterator(v.base + Shift(Head(v.layout), Size(Head(v.layout))), Tail(L), Head(L).stride)

EndAlong(v, n) ==
    LET L == Rotate(v.layout, n)
    IN  Iterator(v.base + Shift(Head(L), Size(Head(L))), Tail(L), Head(L).stride)

=============================================================================
