------------------------------- MODULE Device -------------------------------
(***************************************************************************)
(* Arrays in device and in managed memory, used by the threads of a host   *)
(* program: src/memory/adaptors/cuda (ptr.hpp, algorithm.hpp, cstring.hpp, *)
(* managed/ptr.hpp), src/adaptors/blas/cuda.hpp and                        *)
(* src/adaptors/cuda/cublas.                                               *)
(*                                                                         *)
(* An operation of the library is the sequence of runtime calls it makes.  *)
(* A thread makes them one by one; the device executes what was launched   *)
(* in the order of launching, at its own pace, so that what the host reads *)
(* depends on which of the calls wait.                                     *)
(***************************************************************************)
EXTENDS CudaRuntime, SequencesExt

CONSTANTS Threads,
          Programs,   \* a set of [Threads -> sequence of operations]
          ContextOf,  \* [Threads -> the handle of cuBLAS a thread uses]
          MayFail     \* may cuBLAS refuse a call now and then?

VARIABLES memory,  \* [Threads -> Memories]: the arrays of each thread
          stream,  \* what was launched and has not been executed
          todo,    \* [Threads -> the operations still to come]
          calls,   \* [Threads -> the calls the operation has still to make]
          seen,    \* [Threads -> the values the thread has read]
          done,    \* [Threads -> the operations begun that did not throw, and
                  \*             whether cuBLAS refused them unnoticed]
          mode     \* [handle -> its pointer mode]

vars == <<memory, stream, todo, calls, seen, done, mode>>

-----------------------------------------------------------------------------
(***************************************************************************)
(* The operations.                                                         *)
(***************************************************************************)
\* The buffer of an element on the host: buff, skeleton_t::buff, a local T.
Buffer == <<"buff", 0>>

\* The kind of a copy follows from the types of the two pointers.
CopyKind(to, from) ==
  LET t == Kind[to[1]]
      f == Kind[from[1]]
  IN CASE "managed" \in {t, f}         -> "inferred"
       [] t = "host"   /\ f = "host"   -> "h2h"
       [] t = "device" /\ f = "host"   -> "h2d"
       [] t = "host"   /\ f = "device" -> "d2h"
       [] OTHER                        -> "d2d"

\* An element of device memory goes through a reference object that copies it
\* to the host and back; one of managed memory is the element itself.
Raw(c) == Kind[c[1]] = "managed"

Fetch(c)    == Copy(Buffer, c, 1, "d2h")
Store(c)    == Copy(c, Buffer, 1, "h2d")
Read(c)     == IF Raw(c) THEN <<See(c)>> ELSE <<Fetch(c), See(Buffer)>>
Assign(c, v) == IF Raw(c) THEN <<Put(c, v)>> ELSE <<Put(Buffer, v), Store(c)>>
Update(c, v) == IF Raw(c) THEN <<Add(c, v)>> ELSE <<Fetch(c), Add(Buffer, v), Store(c)>>

CopyN(from, s, n, to, d) == <<Copy2D(to, d, from, s, n, CopyKind(to, from))>>

\* The doubling copies of fill_n: what lies between first and at is copied
\* behind itself as long as elements are left.
RECURSIVE DoublingPast(_, _, _)
DoublingPast(first, at, left) ==
  IF left <= 0 THEN <<>>
  ELSE <<Copy(<<first[1], at>>, first, at - first[2], "d2d")>>
       \o DoublingPast(first, 2 * at - first[2], left - (at - first[2]))

RECURSIVE Doubling(_, _, _)
Doubling(first, at, left) ==
  IF left <= 0 THEN <<>>
  ELSE LET n == IF at - first[2] < left THEN at - first[2] ELSE left
       IN <<Copy(<<first[1], at>>, first, n, "d2d")>> \o Doubling(first, at + n, left - n)

FillN(first, n, v) ==
  IF v = 0 THEN <<Zero(first, n)>>
  ELSE IF n = 0 THEN <<>>
  ELSE <<Put(Buffer, v), Store(first)>> \o Doubling(first, first[2] + 1, n - 1)

\* Real elements become complex ones, two places each: all zeros, then the
\* real parts two apart.
Widen(from, n, to) == <<Zero(to, 2 * n), Copy2D(to, 2, from, 1, n, "d2d")>>

\* The matrix functions synchronise after the launch.  A function of the
\* vectors through a temporary context launches, and the context synchronises
\* when it is destroyed; through a context that is kept it only launches.
MultiplyAndReturn(x, n, y, alpha) == <<Scale(y, x, n, alpha)>>
Multiply(x, n, y, alpha)      == <<Scale(y, x, n, alpha), Synchronize>>
ScaleOnce(x, n, alpha)        == <<Scale(x, x, n, alpha), Synchronize>>
ScaleWith(x, n, alpha)        == <<Scale(x, x, n, alpha)>>
NormToHost(x, n)              == <<Sum(Buffer, x, n), See(Buffer)>>
NormToDevice(x, n, r)         == <<SetMode("device"), Sum(r, x, n), SetMode("host")>>

CallsOf(o) ==
  CASE o.op = "read"     -> Read(o.x)
    [] o.op = "assign"   -> Assign(o.x, o.value)
    [] o.op = "update"   -> Update(o.x, o.value)
    [] o.op = "equal"    -> Read(o.x) \o Read(o.y)
    [] o.op = "copy"     -> CopyN(o.x, o.s, o.n, o.y, o.d)
    [] o.op = "fill"     -> FillN(o.x, o.n, o.value)
    [] o.op = "widen"    -> Widen(o.x, o.n, o.y)
    [] o.op = "multiply" -> Multiply(o.x, o.n, o.y, o.value)
    [] o.op = "once"     -> ScaleOnce(o.x, o.n, o.value)
    [] o.op = "scale"    -> ScaleWith(o.x, o.n, o.value)
    [] o.op = "norm"     -> NormToHost(o.x, o.n)
    [] o.op = "normto"   -> NormToDevice(o.x, o.n, o.y)

-----------------------------------------------------------------------------
(***************************************************************************)
(* The threads and the device.                                             *)
(***************************************************************************)
Start == [c \in Cells |-> c[2] + 1]

Init ==
  /\ memory = [t \in Threads |-> Start]
  /\ stream = <<>>
  /\ todo \in Programs
  /\ calls = [t \in Threads |-> <<>>]
  /\ seen = [t \in Threads |-> <<>>]
  /\ done = [t \in Threads |-> <<>>]
  /\ mode = [h \in {ContextOf[t] : t \in Threads} |-> "host"]

Begin(t) ==
  /\ calls[t] = <<>>
  /\ todo[t] # <<>>
  /\ calls' = [calls EXCEPT ![t] = CallsOf(Head(todo[t]))]
  /\ done' = [done EXCEPT ![t] = Append(@, [o |-> Head(todo[t]), ignored |-> FALSE])]
  /\ todo' = [todo EXCEPT ![t] = Tail(@)]
  /\ UNCHANGED <<memory, stream, seen, mode>>

\* Thread t makes its next call, one with property P.
NextCall(t, P(_)) ==
  /\ calls[t] # <<>>
  /\ P(Head(calls[t]))
  /\ calls' = [calls EXCEPT ![t] = Tail(@)]
  /\ UNCHANGED todo

Pending(t) == \E i \in DOMAIN stream : stream[i].by = t

\* A call whose arguments the handle of thread t has looked at.
Given(t) == Argument(Head(calls[t]), mode[ContextOf[t]])

Launch(t) ==
  /\ NextCall(t, Launches)
  /\ stream' = Append(stream, [by |-> t, work |-> Given(t)])
  /\ UNCHANGED <<memory, seen, done, mode>>

Wait(t) ==
  /\ ~ Pending(t)
  /\ NextCall(t, Waits)
  /\ memory' = [memory EXCEPT ![t] = Effect(Given(t), @)]
  /\ UNCHANGED <<stream, seen, done, mode>>

HostStep(t) ==
  /\ NextCall(t, OnHost)
  /\ LET c == Head(calls[t])
     IN /\ memory' = [memory EXCEPT ![t] = Effect(c, @)]
        /\ seen' = IF c.call = "see" THEN [seen EXCEPT ![t] = Append(@, memory[t][c.at])]
                   ELSE seen
  /\ UNCHANGED <<stream, done, mode>>

Switch(t) ==
  /\ NextCall(t, LAMBDA c : c.call = "mode")
  /\ mode' = [mode EXCEPT ![ContextOf[t]] = Head(calls[t]).mode]
  /\ UNCHANGED <<memory, stream, seen, done>>

\* cuBLAS refuses the call of a matrix function: CUBLAS_CALL synchronises and
\* throws, call<> throws at once.  The operation has not taken place.
Throw(t) ==
  /\ MayFail
  /\ calls[t] # <<>>
  /\ Head(calls[t]).call = "scale"
  /\ LET o == Last(done[t]).o
     IN /\ o.op = "multiply"
        /\ calls' = [calls EXCEPT ![t] = IF o.through = "call" THEN <<>> ELSE Tail(@)]
  /\ done' = [done EXCEPT ![t] = Front(@)]
  /\ UNCHANGED <<memory, stream, todo, seen, mode>>

\* cuBLAS refuses the call of a function of vectors: the status it returns is
\* handed up to scal, nrm2 or asum, which drop it.  Nothing was launched, the
\* operation goes on with the calls that are left, and the result on the host
\* is a variable that nobody has set: it has the value it had, or any other.
Refuse(t) ==
  /\ MayFail
  /\ done[t] # <<>> /\ Last(done[t]).o.op # "multiply"
  /\ NextCall(t, LAMBDA c : c.call \in {"scale", "sum"})
  /\ done' = [done EXCEPT ![t] = Append(Front(@), [Last(@) EXCEPT !.ignored = TRUE])]
  /\ \E v \in {memory[t][Buffer], Garbage} :
       memory' = IF Head(calls[t]).to = Buffer
                 THEN [memory EXCEPT ![t][Buffer] = v] ELSE memory
  /\ UNCHANGED <<stream, seen, mode>>

\* The device executes what was launched first.
Execute ==
  /\ stream # <<>>
  /\ LET w == Head(stream)
     IN memory' = [memory EXCEPT ![w.by] = Effect(w.work, @)]
  /\ stream' = Tail(stream)
  /\ UNCHANGED <<todo, calls, seen, done, mode>>

Over == /\ \A t \in Threads : todo[t] = <<>> /\ calls[t] = <<>>
        /\ stream = <<>>

Step(t) == \/ Begin(t) \/ Launch(t) \/ Wait(t) \/ HostStep(t) \/ Switch(t)
           \/ Throw(t) \/ Refuse(t)

Next == (\E t \in Threads : Step(t)) \/ Execute \/ (Over /\ UNCHANGED vars)

Spec == Init /\ [][Next]_vars
-----------------------------------------------------------------------------
(***************************************************************************)
(* The reference: one memory, in which an operation takes place at once.   *)
(***************************************************************************)
\* Element by element: place i of the result, counted in steps of d.
Written(m, y, d, n, Value(_)) ==
  [c \in Cells |-> IF \E i \in 0 .. n - 1 : c = Plus(y, i * d)
                  THEN Value(CHOOSE i \in 0 .. n - 1 : c = Plus(y, i * d))
                  ELSE m[c]]

After(o, m) ==
  CASE o.op = "assign"   -> [m EXCEPT ![o.x] = o.value]
    [] o.op = "update"   -> [m EXCEPT ![o.x] = @ + o.value]
    [] o.op = "copy"     -> Written(m, o.y, o.d, o.n, LAMBDA i : m[Plus(o.x, i * o.s)])
    [] o.op = "fill"     -> Written(m, o.x, 1, o.n, LAMBDA i : o.value)
    [] o.op = "widen"    -> Written(m, o.y, 1, 2 * o.n,
                              LAMBDA i : IF i % 2 = 0 THEN m[Plus(o.x, i \div 2)] ELSE 0)
    [] o.op = "multiply" -> Written(m, o.y, 1, o.n, LAMBDA i : o.value * m[Plus(o.x, i)])
    [] o.op \in {"once", "scale"} ->
                            Written(m, o.x, 1, o.n, LAMBDA i : o.value * m[Plus(o.x, i)])
    [] o.op = "normto"   -> [m EXCEPT ![o.y] =
                               MapThenSumSet(LAMBDA i : m[Plus(o.x, i)], 0 .. o.n - 1)]
    [] OTHER             -> m

Sees(o, m) ==
  CASE o.op = "read"  -> <<m[o.x]>>
    [] o.op = "equal" -> <<m[o.x], m[o.y]>>
    [] o.op = "norm"  -> <<MapThenSumSet(LAMBDA i : m[Plus(o.x, i)], 0 .. o.n - 1)>>
    [] OTHER          -> <<>>

\* An operation that was refused unnoticed changes nothing, and what the thread
\* takes for its result is no result.
Unset(o) == IF o.op = "norm" THEN <<Garbage>> ELSE <<>>

Takes(s, d) ==
  IF d.ignored THEN [s EXCEPT !.seen = @ \o Unset(d.o)]
  ELSE [m |-> After(d.o, s.m), seen |-> s.seen \o Sees(d.o, s.m)]

\* The memory and what was read, after a sequence of operations.
Sequential(ops) == FoldLeft(Takes, [m |-> Start, seen |-> <<>>], ops)

\* What the memory of thread t will be once the device is done.
Drained(t) ==
  FoldLeft(LAMBDA m, w : IF w.by = t THEN Effect(w.work, m) ELSE m, memory[t], stream)

-----------------------------------------------------------------------------
(***************************************************************************)
(* Properties.                                                             *)
(***************************************************************************)
\* A thread never reads a stale element: what it has read, between two
\* operations, is what a program without a device would have read, however far
\* behind the device is, whatever was thrown on the way, and whatever calls
\* cuBLAS refused: an operation without its call is left out as a whole, the
\* others find the memory as if it had not been asked for.  Only the result of a
\* reduction that was refused may be anything (ptr.hpp:305-395,
\* blas/cuda.hpp:30-34, 289-298).
ReadsCurrent ==
  \A t \in Threads : calls[t] = <<>> =>
    LET expected == Sequential(done[t]).seen
    IN /\ Len(seen[t]) = Len(expected)
       /\ \A i \in DOMAIN expected : expected[i] \in {seen[t][i], Garbage}

\* What a program relies on that looks at no status, as none reaches it: unless
\* an exception came, every operation took place.  It is false.
ReadsAsAsked ==
  \A t \in Threads : calls[t] = <<>> =>
    seen[t] = Sequential([i \in DOMAIN done[t] |->
                            [done[t][i] EXCEPT !.ignored = FALSE]]).seen

\* Whatever is still in the stream, the memory it will leave is that of the
\* operations one after another, without those that cuBLAS refused: no launch
\* it accepted is lost, overtaken or given the wrong arguments, a refusal between
\* two changes of the pointer mode leaves the handle as it was, and the copies
\* of fill_n cover every element, once and not beyond.
InOrder ==
  \A t \in Threads : calls[t] = <<>> =>
    \A c \in Cells : c[1] # "buff" => Drained(t)[c] = Sequential(done[t]).m[c]
=============================================================================
