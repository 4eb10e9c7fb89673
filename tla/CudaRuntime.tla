---------------------------- MODULE CudaRuntime ----------------------------
(***************************************************************************)
(* The part of the CUDA runtime and of cuBLAS that the adaptors of         *)
(* src/memory/adaptors/cuda and src/adaptors/blas/cuda.hpp rely on, as     *)
(* they use it: every call of the interface is a record, and Effect says   *)
(* what the call does to a memory once the device (or the host, waiting)   *)
(* gets to it.  Code outside the repository.                               *)
(***************************************************************************)
EXTENDS Integers, Sequences, FiniteSetsExt

CONSTANTS Arrays,  \* the names of the arrays of one thread
          Length,  \* elements of each array
          Kind     \* [Arrays -> {"host", "device", "managed"}]

Cells    == Arrays \X (0 .. Length - 1)
Memories == [Cells -> Int]

\* What a kernel computes from an argument that it cannot read.
Garbage == -1

\* A pointer is an array and a position in it; Plus is pointer arithmetic.
Plus(p, n) == <<p[1], p[2] + n>>

(***************************************************************************)
(* The calls.  cudaMemcpy2D moves n elements, one every spitch elements,   *)
(* to one every dpitch elements; cudaMemcpy is the case of pitch one.      *)
(***************************************************************************)
Copy2D(to, dpitch, from, spitch, n, kind) ==
  [call |-> "copy", to |-> to, dpitch |-> dpitch, from |-> from,
   spitch |-> spitch, n |-> n, kind |-> kind]

Copy(to, from, n, kind) == Copy2D(to, 1, from, 1, n, kind)

Zero(to, n) == [call |-> "set", to |-> to, n |-> n]

\* A kernel that writes alpha times n elements; alpha is read on the host
\* when the kernel is launched, if the handle is in host mode.
Scale(to, from, n, alpha) ==
  [call |-> "scale", to |-> to, from |-> from, n |-> n, alpha |-> alpha]

\* A reduction of n elements into one.
Sum(to, from, n) == [call |-> "sum", to |-> to, from |-> from, n |-> n]

Synchronize   == [call |-> "synchronize"]
SetMode(mode) == [call |-> "mode", mode |-> mode]

\* Host code on an element the host can address.
Put(c, v) == [call |-> "put", at |-> c, value |-> v]
Add(c, v) == [call |-> "add", at |-> c, value |-> v]
See(c)    == [call |-> "see", at |-> c]

(***************************************************************************)
(* A copy is refused when its kind contradicts the memories, or when a     *)
(* pitch is less than an element (a negative one is not a size).           *)
(***************************************************************************)
OfKind(kind, to, from) ==
  \/ kind = "inferred"
  \/ /\ (kind \in {"h2d", "d2d"}) => Kind[to[1]] # "host"
     /\ (kind \in {"h2h", "d2h"}) => Kind[to[1]] # "device"
     /\ (kind \in {"d2h", "d2d"}) => Kind[from[1]] # "host"
     /\ (kind \in {"h2d", "h2h"}) => Kind[from[1]] # "device"

Refused(c) == \/ c.n > 0 /\ (c.dpitch < 1 \/ c.spitch < 1)
              \/ ~ OfKind(c.kind, c.to, c.from)

Effect(c, m) ==
  CASE c.call = "copy" ->
         IF Refused(c) THEN m
         ELSE [x \in Cells |->
                 IF \E i \in 0 .. c.n - 1 : x = Plus(c.to, i * c.dpitch)
                 THEN m[Plus(c.from, c.spitch * ((x[2] - c.to[2]) \div c.dpitch))]
                 ELSE m[x]]
    [] c.call = "set" ->
         [x \in Cells |-> IF \E i \in 0 .. c.n - 1 : x = Plus(c.to, i) THEN 0 ELSE m[x]]
    [] c.call = "scale" ->
         [x \in Cells |->
            IF \E i \in 0 .. c.n - 1 : x = Plus(c.to, i)
            THEN IF c.alpha = Garbage THEN Garbage
                 ELSE c.alpha * m[Plus(c.from, x[2] - c.to[2])]
            ELSE m[x]]
    [] c.call = "sum" ->
         [m EXCEPT ![c.to] =
            IF c.n < 0 THEN Garbage
            ELSE MapThenSumSet(LAMBDA i : m[Plus(c.from, i)], 0 .. c.n - 1)]
    [] c.call = "put" -> [m EXCEPT ![c.at] = c.value]
    [] c.call = "add" -> [m EXCEPT ![c.at] = @ + c.value]
    [] OTHER -> m

(***************************************************************************)
(* A copy that has host memory at one end returns when it is done; one     *)
(* inside the device, and one of managed memory, may return before.  A     *)
(* reduction to the host returns with its result.                          *)
(***************************************************************************)
Waits(c) ==
  \/ c.call = "synchronize"
  \/ c.call = "copy" /\ (Kind[c.to[1]] = "host" \/ Kind[c.from[1]] = "host")
  \/ c.call = "sum"  /\ Kind[c.to[1]] = "host"

OnHost(c)   == c.call \in {"put", "add", "see"}
Launches(c) == ~ Waits(c) /\ ~ OnHost(c) /\ c.call # "mode"

\* The arguments of a kernel of cuBLAS are read in the mode of its handle: a
\* factor lies on the host, the place of a result says where it is.
Argument(c, mode) ==
  CASE c.call = "scale" /\ mode # "host" -> [c EXCEPT !.alpha = Garbage]
    [] c.call = "sum" /\ mode # (IF Kind[c.to[1]] = "host" THEN "host" ELSE "device") ->
         [c EXCEPT !.n = Garbage]
    [] OTHER -> c
=============================================================================
