----------------------------- MODULE Lifetimes -----------------------------
(***************************************************************************)
(* The lifetimes of an array's elements (detail/adl.hpp, array.hpp): one   *)
(* block, built by one of the uninitialized algorithms, element by         *)
(* element, with constructors that throw, and destroyed from the end.      *)
(* Nothing but these loops says which elements of a block live.            *)
(***************************************************************************)
EXTENDS Integers, Sequences

CONSTANTS
    Room,        \* cells of a block
    Totals,      \* numbers of elements of an array
    RowLists,    \* the lengths of the rows an array is built from
    Unchecked    \* constructors called with no more care than the code demands

ASSUME RoomAssumption   == Room \in Nat
ASSUME TotalsAssumption == Totals \subseteq 0 .. Room
ASSUME RowsAssumption   ==
    \A lengths \in RowLists : /\ lengths \in Seq(Nat \ {0})
                              /\ lengths # <<>>
                              /\ Len(lengths) * Head(lengths) <= Room

VARIABLES
    alive,       \* per cell, how often an element was built there more than destroyed
    call,        \* the constructor: from one value, "fill", from "rows", or from a "view"
    total,       \* num_elements()
    width,       \* the elements of a row
    phase,       \* what the program is doing
    first,       \* where the loop at hand starts, or how far it has destroyed
    current,     \* the next element it builds
    n,           \* the elements it has still to do
    rows         \* the lengths of the rows after this one

vars == <<alive, call, total, width, phase, first, current, n, rows>>

Cells == 0 .. Room - 1
Raw   == [c \in Cells |-> 0]

Init == /\ alive = Raw
        /\ phase = "idle"
        /\ call = "none"
        /\ total = 0 /\ width = 0
        /\ first = 0 /\ current = 0 /\ n = 0
        /\ rows = <<>>

(***************************************************************************)
(* The constructors, each in a block of its own.  "fill" stands for the _n *)
(* algorithms that copy, move and default-construct, too.  An array of     *)
(* rows takes the length of the first for all of them.  From a view,       *)
(* elements are built, by a constructor it delegates to, and assigned.     *)
(***************************************************************************)
Begin(c, lengths) == /\ phase \in {"idle", "destroyed", "thrown"}
                     /\ phase' = "constructing"
                     /\ alive' = Raw
                     /\ call' = c
                     /\ total' = Len(lengths) * Head(lengths)
                     /\ width' = Head(lengths)
                     /\ first' = 0 /\ current' = 0
                     /\ n' = Head(lengths)
                     /\ rows' = Tail(lengths)

Fill(size)     == Begin("fill", <<size>>)
FromView(size) == Begin("view", <<size>>)

FromRows(lengths) ==
    /\ "rows" \notin Unchecked => \A k \in DOMAIN lengths : lengths[k] = Head(lengths)
    /\ Begin("rows", lengths)

Construct == /\ phase = "constructing"
             /\ n > 0
             /\ alive' = [alive EXCEPT ![current] = @ + 1]
             /\ current' = current + 1
             /\ n' = n - 1
             /\ UNCHANGED <<call, total, width, phase, first, rows>>

NextRow == /\ phase = "constructing"
           /\ n = 0
           /\ rows # <<>>
           /\ first' = first + width
           /\ current' = first + width
           /\ n' = Head(rows)
           /\ rows' = Tail(rows)
           /\ UNCHANGED <<alive, call, total, width, phase>>

(* Mutant: the exception passes without a catch. *)
ConstructEscapes == /\ phase = "constructing"
                    /\ n > 0
                    /\ phase' = "thrown"
                    /\ UNCHANGED <<alive, call, total, width, first, current, n, rows>>

(* Caught where the row is built; the loop over rows has no catch. *)
ConstructThrows == /\ phase = "constructing"
                   /\ n > 0
                   /\ phase' = "unwinding"
                   /\ UNCHANGED <<alive, call, total, width, first, current, n, rows>>

Unwind == /\ phase = "unwinding"
          /\ first # current
          /\ alive' = [alive EXCEPT ![first] = @ - 1]
          /\ first' = first + 1
          /\ UNCHANGED <<call, total, width, phase, current, n, rows>>

Rethrow == /\ phase = "unwinding"
           /\ first = current
           /\ phase' = "thrown"
           /\ UNCHANGED <<alive, call, total, width, first, current, n, rows>>

Constructed == /\ phase = "constructing"
               /\ n = 0
               /\ rows = <<>>
               /\ phase' = IF call = "view" THEN "assigning" ELSE "built"
               /\ n' = total
               /\ UNCHANGED <<alive, call, total, width, first, current, rows>>

Assign == /\ phase = "assigning"
          /\ n > 0
          /\ n' = n - 1
          /\ UNCHANGED <<alive, call, total, width, phase, first, current, rows>>

Assigned == /\ phase = "assigning"
            /\ n = 0
            /\ phase' = "built"
            /\ UNCHANGED <<alive, call, total, width, first, current, n, rows>>

(* The constructor delegated to has returned: the destructor runs. *)
AssignThrows == /\ phase = "assigning"
                /\ n > 0
                /\ phase' = "undoing"
                /\ first' = total
                /\ n' = total
                /\ UNCHANGED <<alive, call, total, width, current, rows>>

(* ~static_array, clear: from the last element to the first. *)
Destroy == /\ phase = "built"
           /\ phase' = "destroying"
           /\ first' = total
           /\ n' = total
           /\ UNCHANGED <<alive, call, total, width, current, rows>>

(* Mutant: the element first points at, not the one before it. *)
DestroyAtFirst == /\ phase \in {"destroying", "undoing"}
                  /\ n # 0
                  /\ alive' = [alive EXCEPT ![first] = @ - 1]
                  /\ first' = first - 1
                  /\ n' = n - 1
                  /\ UNCHANGED <<call, total, width, phase, current, rows>>

DestroyOne == /\ phase \in {"destroying", "undoing"}
              /\ n # 0
              /\ alive' = [alive EXCEPT ![first - 1] = @ - 1]
              /\ first' = first - 1
              /\ n' = n - 1
              /\ UNCHANGED <<call, total, width, phase, current, rows>>

Destroyed == /\ phase \in {"destroying", "undoing"}
             /\ n = 0
             /\ phase' = IF phase = "undoing" THEN "thrown" ELSE "destroyed"
             /\ UNCHANGED <<alive, call, total, width, first, current, n, rows>>

Next ==
    \/ \E size \in Totals : Fill(size) \/ FromView(size)
    \/ \E lengths \in RowLists : FromRows(lengths)
    \/ Construct \/ NextRow \/ ConstructThrows \/ Unwind \/ Rethrow \/ Constructed
    \/ Assign \/ Assigned \/ AssignThrows
    \/ Destroy \/ DestroyOne \/ Destroyed

Spec == Init /\ [][Next]_vars

(***************************************************************************)
(* Properties.                                                             *)
(***************************************************************************)
Phases == {"idle", "constructing", "unwinding", "assigning", "built",
           "undoing", "destroying", "destroyed", "thrown"}
LifetimesTypeOK == /\ alive \in [Cells -> Int]
                   /\ call \in {"none", "fill", "rows", "view"}
                   /\ phase \in Phases
                   /\ total \in 0 .. Room /\ width \in 0 .. Room
                   /\ first \in 0 .. Room /\ current \in 0 .. Room /\ n \in 0 .. Room
                   /\ rows \in Seq(Nat)

Living == {c \in Cells : alive[c] = 1}

(* No element is built where one lives or destroyed where none does; an array that was *)
(* built, or is being assigned, has all its elements, and one that is destroyed none.  *)
ElementsLiveOnce ==
    /\ \A c \in Cells : alive[c] \in {0, 1}
    /\ phase \in {"assigning", "built"} => Living = 0 .. total - 1
    /\ phase = "destroyed"              => Living = {}

(* A constructor that throws, whichever element it was at, leaves nothing alive; but  *)
(* one from rows leaves the rows before, whole.                                       *)
OnlyWholeRowsStay ==
    phase = "thrown" => IF call = "rows" THEN \E k \in 0 .. Room : Living = 0 .. k * width - 1
                                         ELSE Living = {}

(* Not even those, as for the constructor that static_array(It, It) is analogous to, *)
(* std::vector::vector (5) (array.hpp:141).                                          *)
AllOrNothing == phase = "thrown" => Living = {}

=============================================================================
