---------------------------- MODULE FftAdaptors -----------------------------
(***************************************************************************)
(* adaptors/fftw.hpp and adaptors/cufft.hpp: the request each plan makes   *)
(* of its library for the views it is given.  None is made when an         *)
(* assertion stops the program.                                            *)
(***************************************************************************)
EXTENDS BasicArray, FftLibrary

Stop == [dims |-> <<>>, howmany |-> <<>>, in |-> 0, out |-> 0, sign |-> 0, stop |-> TRUE]

If(asserted, request) == IF asserted THEN request ELSE Stop

forward  == -1
none     == 0
backward == 1

Axes(i, o) == [d \in DOMAIN i.layout |->
                  Axis(Size(i.layout[d]), i.layout[d].stride, o.layout[d].stride)]

SameSizes(i, o) == Sizes(i.layout) = Sizes(o.layout)

(* Mutant: the dimensions are passed in the order of the view. *)
SortedNot(axes) == axes

(* The larger strides first: (istride, ostride, n) in decreasing order. *)
Sorted(axes) ==
    SortSeq(axes, LAMBDA a, b : \/ a.is > b.is
                                \/ a.is = b.is /\ a.os > b.os
                                \/ a.is = b.is /\ a.os = b.os /\ a.n > b.n)

(* The strides of one array are inside one another, and so are those of the other. *)
Embeds(axes) == \A d \in 2 .. Len(axes) : /\ axes[d - 1].os >= axes[d].os
                                          /\ axes[d - 1].os % axes[d].os = 0
                                          /\ axes[d - 1].is % axes[d].is = 0

(* What a library of the "many" interface makes of the strides and the embeddings. *)
Many(axes) ==
    LET embed(s) == [d \in DOMAIN s |-> IF d = 1 THEN 0 ELSE s[d - 1] \div s[d]]
        is == [d \in DOMAIN axes |-> axes[d].is]
        os == [d \in DOMAIN axes |-> axes[d].os]
        in  == Embedded(Last(is), embed(is))
        out == Embedded(Last(os), embed(os))
    IN  [d \in DOMAIN axes |-> Axis(axes[d].n, in[d], out[d])]

(* fftw_plan_many_dft and cufft::plan::many: every sub-array from first to last *)
ManyRequest(first, last, d_first, sign) ==
    LET axes == Sorted(Axes(Pointee(first), Pointee(d_first)))
    IN  If(SameSizes(Pointee(first), Pointee(d_first)) /\ Embeds(axes),
           Request(Many(axes), <<Axis(Distance(first, last), first.stride, d_first.stride)>>,
                   first.base, d_first.base, sign))

(* Mutant: the dimensions to transform and the others are exchanged. *)
ChosenOthers(axes, which, b) ==
    LET ds == SelectSeq([d \in DOMAIN axes |-> d], LAMBDA d : which[d] # b)
    IN  [k \in DOMAIN ds |-> axes[ds[k]]]

Chosen(axes, which, b) ==
    LET ds == SelectSeq([d \in DOMAIN axes |-> d], LAMBDA d : which[d] = b)
    IN  [k \in DOMAIN ds |-> axes[ds[k]]]

(* fftw_plan_dft(which, in, out, sign): any subset of the dimensions *)
WhichRequest(which, i, o, sign) ==
    If(SameSizes(i, o) /\ sign \in {forward, backward},
       Request(Chosen(Axes(i, o), which, TRUE), Chosen(Axes(i, o), which, FALSE),
               i.base, o.base, sign))

(* fftw_plan_dft(in, out, sign): all of them, or one element for the sign none *)
AllRequest(i, o, sign) ==
    If(SameSizes(i, o),
       Request(IF sign = none THEN <<>> ELSE Axes(i, o), <<>>, i.base, o.base, sign))

(* cufft::plan(in, out, sign): a batch of one *)
PlanRequest(i, o, sign) ==
    LET axes == Sorted(Axes(i, o))
    IN  If(Len(i.layout) < 4 /\ SameSizes(i, o) /\ Embeds(axes),
           Request(Many(axes), <<Axis(1, 1, 1)>>, i.base, o.base, sign))

(***************************************************************************)
(* cufft::dft(which, in, out, sign) looks for the smallest dimension that  *)
(* is not transformed, to loop over it.                                    *)
(***************************************************************************)
Flattable(v) == v.layout[1].stride = v.layout[2].nelems

(* The dimension d (from 0) is given up for a smaller one when tail[d] is false; tail has *)
(* lost the first of which, so that tail[d] is about the dimension after d, and the last  *)
(* of its reads is of a byte past its end.                                                *)
Search(which, v, byte) ==
    LET D == Len(which)
        tail == Append(Tail(which), byte)
        size(d) == Size(v.layout[d + 1])
        found[d \in 0 .. D] ==
            IF d = 0 THEN 0
            ELSE IF size(d - 1) < size(found[d - 1]) /\ ~tail[d] THEN d - 1 ELSE found[d - 1]
    IN  [d_min |-> found[D], beyond |-> size(D - 1) < size(found[D - 1])]

=============================================================================
