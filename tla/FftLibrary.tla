----------------------------- MODULE FftLibrary -----------------------------
(***************************************************************************)
(* What the adaptors of Multi expect of FFTW and cuFFT.  A request says    *)
(* along which axes to transform, along which to repeat, where the input   *)
(* and the output start, and the sign of the exponent.                     *)
(*                                                                         *)
(* Numbers are not computed.  A cell of memory holds a sum, as the set of  *)
(* its terms: a number that was in memory at the start, and the fraction   *)
(* of a turn it is multiplied by, counted in turns / Period.               *)
(***************************************************************************)
EXTENDS Integers, Sequences, SequencesExt

CONSTANT Period     \* a common multiple of the sizes that are transformed

ASSUME PeriodAssumption == Period \in Nat \ {0}

Term(cell, phase) == <<cell, phase % Period>>

(* A number, times exp(2 pi i turns / Period) *)
Phased(sum, turns) == {Term(t[1], t[2] + turns) : t \in sum}

(* A size and the strides of the input and the output. *)
Axis(n, is, os) == [n |-> n, is |-> is, os |-> os]

Request(dims, howmany, in, out, sign) ==
    [dims |-> dims, howmany |-> howmany, in |-> in, out |-> out, sign |-> sign]

Points(axes) ==
    LET most == 0 .. FoldLeft(LAMBDA n, a : IF a.n > n THEN a.n ELSE n, 0, axes)
    IN  {k \in [DOMAIN axes -> most] : \A d \in DOMAIN axes : k[d] < axes[d].n}

Dot(k, weights) ==
    LET sum[d \in 0 .. Len(k)] == IF d = 0 THEN 0 ELSE sum[d - 1] + k[d] * weights[d]
    IN  sum[Len(k)]

InOffset(axes, k)  == Dot(k, [d \in DOMAIN axes |-> axes[d].is])
OutOffset(axes, k) == Dot(k, [d \in DOMAIN axes |-> axes[d].os])

(* The turns, in units of 1 / Period, between the term j and the frequency k. *)
Turns(axes, j, k) == Dot(j, [d \in DOMAIN axes |-> k[d] * (Period \div axes[d].n)])

(* The whole input is read before the output is written. *)
Transform(r, memory) ==
    LET points == Points(r.dims)
        read(j, h) == memory[r.in + InOffset(r.dims, j) + InOffset(r.howmany, h)]
        sum(k, h)  == UNION {Phased(read(j, h), r.sign * Turns(r.dims, j, k)) : j \in points}
        to(k, h)   == r.out + OutOffset(r.dims, k) + OutOffset(r.howmany, h)
        results    == {<<to(k, h), sum(k, h)>> : k \in points, h \in Points(r.howmany)}
        written    == {w[1] : w \in results}
    IN  [c \in DOMAIN memory |-> IF c \in written THEN (CHOOSE w \in results : w[1] = c)[2]
                                 ELSE memory[c]]

(* In place, with the results where other inputs were: FFTW may have no plan for it, *)
(* cuFFT takes it and leaves anything.                                                *)
Crossed(r) == /\ r.in = r.out
              /\ \E a \in Range(r.dims) \union Range(r.howmany) : a.is # a.os /\ a.n > 1

(***************************************************************************)
(* The strides of the "many" interface of both libraries: the last axis    *)
(* has the stride, each of the others the embedding sizes of all those     *)
(* after it, multiplied.                                                   *)
(***************************************************************************)
Embedded(stride, embed) ==
    LET last == Len(embed)
        along[d \in 1 .. last] == IF d = last THEN stride ELSE along[d + 1] * embed[d + 1]
    IN  along

=============================================================================
