---------------------------- MODULE Elementwise ----------------------------
(***************************************************************************)
(* Writing through views (array_ref.hpp): assignment from a view, assign,  *)
(* swap and fill.  A call walks over two views of one memory, which may    *)
(* overlap, one element at a time, row by row; a row's assertion is met    *)
(* when the row is entered, after the rows before it have been written.    *)
(* One behaviour is one call: what later calls do depends on the values in *)
(* the memory only, and values are copied here, never looked at.           *)
(***************************************************************************)
EXTENDS BasicArray, FiniteSets

CONSTANTS
    Room,       \* number of elements of the memory
    Operands    \* the views a call may be given: with elements, and no element twice

AllViews  == [base : Int, layout : Seq(Dims)]
Volume(v) == NumElements(v.layout)
Reach(v)  == {Address(v, ix) : ix \in Box(Extensions(v.layout))}

ASSUME RoomAssumption     == Room \in Nat \ {0}
ASSUME OperandsAssumption ==
    \A v \in Operands :
        /\ v \in AllViews /\ v.layout # <<>>
        /\ \A k \in 1 .. Len(v.layout) : WholeDim(v.layout[k]) /\ v.layout[k].nelems > 0
        /\ Reach(v) \subseteq 0 .. Room - 1
        /\ \A ix, jx \in Box(Extensions(v.layout)) : Address(v, ix) = Address(v, jx) => ix = jx

VARIABLES
    memory,     \* the elements that the views lie over
    op,         \* the member called
    to,         \* *this
    from,       \* its argument
    n,          \* elements written so far
    status,     \* idle, running, returned, thrown, or stopped by an assertion
    before      \* ghost: the memory when the call was made

vars == <<memory, op, to, from, n, status, before>>

Rank(v) == Len(v.layout)

(* Where the k-th element of a walk is: iterators of rows, then of elements.  A *)
(* dimension keeps what is left of k of its size, the one before takes the rest. *)
Carry(d, at) == [left |-> at.left \div Size(d), base |-> at.base + (at.left % Size(d)) * d.stride]
Nth(v, k) ==
    LET L == v.layout
        at[j \in 0 .. Len(L)] == IF j = 0 THEN [left |-> k, base |-> v.base]
                                 ELSE Carry(L[Len(L) - j + 1], at[j - 1])
    IN  at[Len(L)].base

(***************************************************************************)
(* Assertions.  Of a temporary, "=", only the sizes are compared, and only *)
(* by its rows the extension; of a named view, "view=", the extension at   *)
(* once.  assign compares nothing, but for a one-dimensional *this.  Rows  *)
(* are assigned to as temporaries, and swapped as they are.                *)
(***************************************************************************)
SameExtension(v, w) == Extension(Head(v.layout)) = Extension(Head(w.layout))
SameSize(v, w)      == Size(Head(v.layout)) = Size(Head(w.layout))

Asserts(o, v, w) ==
    /\ (o \in {"swap", "view="} \/ (o = "=" /\ Rank(v) = 1)) => SameExtension(v, w)
    /\ (o = "=" \/ (o = "assign" /\ Rank(v) = 1))            => SameSize(v, w)

OfRows(o) == IF o = "swap" THEN "swap" ELSE "="

(* The rows of v that lie m dimensions deep. *)
Rows(v, m) == View(v.base, SubSeq(v.layout, m + 1, Rank(v)))

(* Mutant: a row is compared once it has been written. *)
AssertedLate(o, v, w, k) ==
    \A m \in 0 .. Rank(v) - 1 :
        (k + 1) % Volume(Rows(v, m)) = 0
            => Asserts(IF m = 0 THEN o ELSE OfRows(o), Rows(v, m), Rows(w, m))

(* What is asserted before the k-th element: all that holds of the rows it begins. *)
Asserted(o, v, w, k) ==
    \A m \in 0 .. Rank(v) - 1 :
        k % Volume(Rows(v, m)) = 0
            => Asserts(IF m = 0 THEN o ELSE OfRows(o), Rows(v, m), Rows(w, m))

(***************************************************************************)
(* A call.                                                                 *)
(***************************************************************************)
Element(c) == View(c, <<>>)

Init == /\ memory = [c \in 0 .. Room - 1 |-> c]
        /\ before = memory
        /\ status = "idle"
        /\ op = "none"
        /\ n = 0
        /\ to = Element(0) /\ from = Element(0)

Call(o, v, w) == /\ status = "idle"
                 /\ status' = "running"
                 /\ op' = o
                 /\ to' = v
                 /\ from' = w
                 /\ before' = memory
                 /\ UNCHANGED <<memory, n>>

CallAssign(v, w)     == Rank(v) = Rank(w) /\ Call("=", v, w)
CallAssignView(v, w) == Rank(v) = Rank(w) /\ Call("view=", v, w)
CallSwap(v, w)       == Rank(v) = Rank(w) /\ Call("swap", v, w)

(* assign leaves it to the caller that the rows of w are not more than those of v. *)
CallAssignRange(v, w) == /\ Rank(v) = Rank(w)
                         /\ Size(Head(w.layout)) <= Size(Head(v.layout))
                         /\ Call("assign", v, w)

(* fill takes the value by reference: it may be an element of v. *)
CallFill(v, c) == Rank(v) = 1 /\ Call("fill", v, Element(c))

(* fill counts its own elements, the others those of the argument. *)
Length == IF op = "fill" THEN Volume(to) ELSE Volume(from)

Ready == /\ status = "running"
         /\ n < Length
         /\ Asserted(op, to, from, n)

(* Mutant: the elements are written from the last to the first. *)
CopyBackwards ==
    /\ Ready
    /\ op # "swap"
    /\ memory' = [memory EXCEPT ![Nth(to, Length - 1 - n)] = memory[Nth(from, Length - 1 - n)]]
    /\ n' = n + 1
    /\ UNCHANGED <<op, to, from, status, before>>

Copy == /\ Ready
        /\ op # "swap"
        /\ memory' = [memory EXCEPT ![Nth(to, n)] = memory[Nth(from, n)]]
        /\ n' = n + 1
        /\ UNCHANGED <<op, to, from, status, before>>

(* Mutant: the first element is overwritten before it has been kept. *)
ExchangeUnkept ==
    /\ Ready
    /\ op = "swap"
    /\ memory' = [memory EXCEPT ![Nth(to, n)] = memory[Nth(from, n)]]
    /\ n' = n + 1
    /\ UNCHANGED <<op, to, from, status, before>>

Exchange == /\ Ready
            /\ op = "swap"
            /\ memory' = [memory EXCEPT ![Nth(to, n)] = memory[Nth(from, n)],
                                        ![Nth(from, n)] = memory[Nth(to, n)]]
            /\ n' = n + 1
            /\ UNCHANGED <<op, to, from, status, before>>

(* Copying an element throws; elements swap without. *)
Throw == /\ Ready
         /\ op # "swap"
         /\ status' = "thrown"
         /\ UNCHANGED <<memory, op, to, from, n, before>>

Stop == /\ status = "running"
        /\ n < Length
        /\ ~Asserted(op, to, from, n)
        /\ status' = "stopped"
        /\ UNCHANGED <<memory, op, to, from, n, before>>

Return == /\ status = "running"
          /\ n = Length
          /\ status' = "returned"
          /\ UNCHANGED <<memory, op, to, from, n, before>>

Next ==
    \/ \E v, w \in Operands : \/ CallAssign(v, w) \/ CallAssignView(v, w)
                              \/ CallAssignRange(v, w) \/ CallSwap(v, w)
    \/ \E v \in Operands, c \in 0 .. Room - 1 : CallFill(v, c)
    \/ Copy \/ Exchange
    \/ Throw \/ Stop \/ Return

Spec == Init /\ [][Next]_vars

(***************************************************************************)
(* Properties.                                                             *)
(***************************************************************************)
Disjoint(v, w) == Reach(v) \cap Reach(w) = {}
Strides(v)     == [k \in DOMAIN v.layout |-> v.layout[k].stride]
Ascending(v)   == \A j, k \in 0 .. Volume(v) - 1 : j < k => Nth(v, j) < Nth(v, k)

(* Views over which a copy from the first element to the last reads nothing that it *)
(* has written: apart, or one ahead of the other and both in the order of memory.   *)
Forward(v, w) == /\ Strides(v) = Strides(w)
                 /\ Sizes(v.layout) = Sizes(w.layout)
                 /\ v.base <= w.base
                 /\ Ascending(w)
SafeToCopy(v, w) == Disjoint(v, w) \/ Forward(v, w) \/ Rank(w) = 0

(* What the author of A() = A.rotated() expects: the same of all views (array_ref.hpp:764). *)
AssignedWhateverOverlaps ==
    op # "swap" => \A k \in 0 .. n - 1 : memory[Nth(to, k)] = before[Nth(from, k)]

(* A call of assign gives every element of *this a value, as the assertion that is *)
(* commented out there would have it (array_ref.hpp:739).                          *)
AssignReplacesAll == (op = "assign" /\ status = "returned") => n = Volume(to)

(* Whatever the strides, no element changes that an index of *this, and for a swap of *)
(* the argument, does not name.                                                       *)
OnlyOperandsChange ==
    \A c \in 0 .. Room - 1 :
        memory[c] # before[c] => c \in Reach(to) \cup (IF op = "swap" THEN Reach(from) ELSE {})

(* An assignment, whole or cut off by an exception, has given the elements written so *)
(* far the values the argument had when the call was made, views that overlap and a   *)
(* fill with an element of its own included, and no other element one.                *)
AssignedSoFar ==
    /\ OnlyOperandsChange
    /\ (op # "swap" /\ SafeToCopy(to, from)) =>
           \A k \in 0 .. n - 1 : memory[Nth(to, k)] = before[Nth(from, k)]

(* The assertions on the rows are met after writing has begun, but rows are all alike: *)
(* a call that an assertion stops has changed nothing.                                 *)
StopsBeforeWriting == status = "stopped" => memory = before

(* A swap, done or in the middle, loses and doubles no value, even where the views     *)
(* overlap; two that share nothing have in the end exchanged their values, index by    *)
(* index, whatever the strides of the one and of the other.                            *)
Occurrences(m, x) == Cardinality({c \in 0 .. Room - 1 : m[c] = x})
SwapExchanges ==
    op = "swap" =>
        /\ \A x \in 0 .. Room - 1 : Occurrences(memory, x) = Occurrences(before, x)
        /\ (status = "returned" /\ Disjoint(to, from)) =>
              \A ix \in Box(Extensions(to.layout)) :
                  /\ memory[Address(to, ix)] = before[Address(from, ix)]
                  /\ memory[Address(from, ix)] = before[Address(to, ix)]

=============================================================================
