-------------------------- MODULE LifetimesProofs --------------------------
(***************************************************************************)
(* What holds of an array's elements for every block, number of elements   *)
(* and rows, as long as the rows a constructor is called with are equally  *)
(* long.  The inductive invariant says that what lives is always a prefix  *)
(* of the block, except while a row is unwound, when there is a gap.       *)
(***************************************************************************)
EXTENDS Lifetimes, SequenceTheorems, TLAPS

(* The first m cells hold an element each, and no other does. *)
Upto(m) == [c \in Cells |-> IF c < m THEN 1 ELSE 0]

Rows(m) == \E k \in Nat : m = k * width

Constructing == phase = "constructing" =>
    /\ alive = Upto(current)
    /\ Rows(first)
    /\ current = first + width - n
    /\ n <= width
    /\ total = current + n + Len(rows) * width
    /\ \A k \in DOMAIN rows : rows[k] = width

(* The rows before, a gap that grows, and the elements not yet destroyed. *)
Unwinding == phase = "unwinding" =>
    /\ first <= current
    /\ \E b \in Nat : /\ Rows(b)
                      /\ call # "rows" => b = 0
                      /\ b <= first
                      /\ alive = [c \in Cells |->
                                    IF c < b \/ (first <= c /\ c < current) THEN 1 ELSE 0]

Thrown == phase = "thrown" =>
    \E b \in 0 .. Room : /\ Rows(b)
                         /\ call # "rows" => b = 0
                         /\ alive = Upto(b)

Complete == phase \in {"assigning", "built"} => alive = Upto(total)

FromTheEnd == phase \in {"undoing", "destroying"} => alive = Upto(first) /\ n = first

OneRow == call # "rows" /\ phase = "constructing" => rows = <<>> /\ first = 0

ByView == phase \in {"assigning", "undoing"} => call = "view"

IInv == /\ LifetimesTypeOK
        /\ Constructing /\ Unwinding /\ Thrown /\ Complete /\ FromTheEnd
        /\ OneRow /\ ByView
        /\ call = "rows" => width > 0
        /\ phase \in {"idle", "destroyed"} => alive = Raw

(* Building the next element, and destroying the last. *)
LEMMA UptoChanges ==
    ASSUME NEW m \in Cells
    PROVE  /\ [Upto(m) EXCEPT ![m] = @ + 1] = Upto(m + 1)
           /\ [Upto(m + 1) EXCEPT ![m] = @ - 1] = Upto(m)
<1> USE RoomAssumption
<1>1. m \in Int /\ \A c \in Cells : c \in Int  BY DEF Cells
<1>2. \A c \in Cells : c # m => (c < m <=> c < m + 1)  BY <1>1
<1>3. ~(m < m) /\ m < m + 1  BY <1>1
<1>4. \A c \in Cells : [Upto(m) EXCEPT ![m] = @ + 1][c] = Upto(m + 1)[c]
    BY <1>2, <1>3 DEF Upto
<1>5. \A c \in Cells : [Upto(m + 1) EXCEPT ![m] = @ - 1][c] = Upto(m)[c]
    BY <1>2, <1>3 DEF Upto
<1> QED BY <1>4, <1>5 DEF Upto

(* The cells an element lives in. *)
LEMMA UptoLiving ==
    ASSUME NEW m \in 0 .. Room, alive = Upto(m)
    PROVE  Living = 0 .. m - 1
<1> USE RoomAssumption
<1>1. \A c \in Cells : alive[c] = 1 <=> c < m  BY DEF Upto
<1>2. \A c : c \in Living <=> c \in Cells /\ c < m  BY <1>1 DEF Living
<1>3. \A c : c \in Cells /\ c < m <=> c \in 0 .. m - 1  BY DEF Cells
<1> QED BY <1>2, <1>3

(* A new block: nothing lives, and the first row has everything to do. *)
LEMMA BeginKeeps ==
    ASSUME IInv, NEW c \in {"fill", "rows", "view"}, NEW lengths \in Seq(Nat),
           lengths # <<>>, Len(lengths) * Head(lengths) <= Room,
           \A k \in DOMAIN lengths : lengths[k] = Head(lengths),
           c = "rows" => Head(lengths) > 0,
           c # "rows" => Tail(lengths) = <<>>,
           Begin(c, lengths)
    PROVE  IInv'
<1> USE RoomAssumption
<1> DEFINE h == Head(lengths)
<1>1. /\ h \in Nat /\ Tail(lengths) \in Seq(Nat)
      /\ Len(lengths) \in Nat /\ Len(lengths) >= 1
      /\ Len(Tail(lengths)) = Len(lengths) - 1
      /\ \A k \in DOMAIN Tail(lengths) : Tail(lengths)[k] = h
    <2>1. \A k \in DOMAIN Tail(lengths) : k + 1 \in DOMAIN lengths /\ Tail(lengths)[k] = lengths[k + 1]
        OBVIOUS
    <2> QED BY <2>1
<1>2. h <= Len(lengths) * h /\ Len(lengths) * h \in Nat  BY <1>1
<1>3. LifetimesTypeOK'
    BY <1>1, <1>2 DEF Begin, LifetimesTypeOK, Phases, Raw
<1>4. Constructing'
    <2>1. alive' = Upto(current)'  BY DEF Begin, Raw, Upto, Cells
    <2>2. Rows(first)'
        <3>1. first' = 0 * width'  BY <1>1 DEF Begin
        <3> QED BY <3>1 DEF Rows
    <2>3. total' = current' + n' + Len(rows') * width'
        <3>1. Len(lengths) * h = h + (Len(lengths) - 1) * h  BY <1>1
        <3> QED BY <3>1, <1>1 DEF Begin
    <2> QED BY <2>1, <2>2, <2>3, <1>1 DEF Constructing, Begin
<1> QED BY <1>1, <1>3, <1>4
        DEF IInv, Begin, Unwinding, Thrown, Complete, FromTheEnd, OneRow, ByView

LEMMA InitHolds == Init => IInv
BY RoomAssumption, EmptySeq
   DEF Init, IInv, LifetimesTypeOK, Phases, Raw, Cells, Constructing, Unwinding,
       Thrown, Complete, FromTheEnd, OneRow, ByView

(* The invariant is inductive: one step per action. *)
LEMMA NextKeeps ==
    ASSUME "rows" \notin Unchecked, IInv, [Next]_vars
    PROVE  IInv'
<1> USE RoomAssumption
<1>t. /\ alive \in [Cells -> Int]
      /\ total \in 0 .. Room /\ width \in 0 .. Room
      /\ first \in 0 .. Room /\ current \in 0 .. Room /\ n \in 0 .. Room
      /\ rows \in Seq(Nat) /\ Len(rows) \in Nat
    BY DEF IInv, LifetimesTypeOK
<1>p. Len(rows) * width \in Nat  BY <1>t
<1>1. ASSUME NEW size \in Totals, Fill(size) \/ FromView(size) PROVE IInv'
    <2>1. /\ <<size>> \in Seq(Nat) /\ <<size>> # <<>> /\ Len(<<size>>) = 1
          /\ Head(<<size>>) = size /\ Tail(<<size>>) = <<>> /\ size \in Nat /\ size <= Room
          /\ \A k \in DOMAIN <<size>> : <<size>>[k] = Head(<<size>>)
          /\ Len(<<size>>) * Head(<<size>>) <= Room
        BY TotalsAssumption
    <2>2. CASE Fill(size)
        <3>1. Begin("fill", <<size>>)  BY <2>2 DEF Fill
        <3> QED BY <2>1, <3>1, BeginKeeps
    <2>3. CASE FromView(size)
        <3>1. Begin("view", <<size>>)  BY <2>3 DEF FromView
        <3> QED BY <2>1, <3>1, BeginKeeps
    <2> QED BY <1>1, <2>2, <2>3
<1>2. ASSUME NEW lengths \in RowLists, FromRows(lengths) PROVE IInv'
    <2>1. lengths \in Seq(Nat \ {0}) /\ lengths # <<>> /\ Len(lengths) * Head(lengths) <= Room
        BY RowsAssumption
    <2>2. lengths \in Seq(Nat) /\ Head(lengths) > 0  BY <2>1
    <2> QED BY <1>2, <2>1, <2>2, BeginKeeps DEF FromRows
<1>3. CASE Construct
    <2>1. /\ alive = Upto(current) /\ current < total /\ current \in Cells
        <3>1. /\ alive = Upto(current) /\ n > 0
              /\ total = current + n + Len(rows) * width
            BY <1>3 DEF Construct, IInv, Constructing
        <3>2. current < total  BY <3>1, <1>t, <1>p
        <3> QED BY <3>1, <3>2, <1>t DEF Cells
    <2>2. alive' = Upto(current + 1)
        BY <2>1, <1>3, UptoChanges DEF Construct
    <2>3. LifetimesTypeOK'
        BY <2>1, <1>3, <1>t DEF Construct, IInv, LifetimesTypeOK, Phases, Cells
    <2>4. Constructing'
        BY <2>2, <1>3, <1>t DEF Construct, IInv, Constructing, Rows, Upto
    <2> QED BY <2>3, <2>4, <1>3
            DEF Construct, IInv, Unwinding, Thrown, Complete, FromTheEnd, OneRow, ByView
<1>4. CASE NextRow
    <2>1. /\ Head(rows) = width /\ Tail(rows) \in Seq(Nat) /\ Len(rows) >= 1
          /\ Len(Tail(rows)) = Len(rows) - 1
          /\ \A k \in DOMAIN Tail(rows) : Tail(rows)[k] = width
        <3>1. rows # <<>> /\ \A k \in DOMAIN rows : rows[k] = width
            BY <1>4 DEF NextRow, IInv, Constructing
        <3>2. \A k \in DOMAIN Tail(rows) : k + 1 \in DOMAIN rows /\ Tail(rows)[k] = rows[k + 1]
            BY <1>t
        <3> QED BY <3>1, <3>2, <1>t
    <2>2. /\ current = first + width
          /\ current' = current
          /\ n' = width
          /\ total = current + Len(rows) * width
        BY <2>1, <1>4, <1>t, <1>p DEF NextRow, IInv, Constructing
    <2>3. Len(rows) * width = width + (Len(rows) - 1) * width  BY <1>t
    <2>4. LifetimesTypeOK'
        BY <2>1, <2>2, <1>4, <1>t DEF NextRow, IInv, LifetimesTypeOK, Phases
    <2>5. Rows(first)'
        <3>1. PICK k \in Nat : first = k * width
            BY <1>4 DEF NextRow, IInv, Constructing, Rows
        <3>2. first' = (k + 1) * width'  BY <3>1, <1>4, <1>t DEF NextRow
        <3> QED BY <3>2 DEF Rows
    <2>6. (Len(rows) - 1) * width \in Nat  BY <1>t, <2>1
    <2>7. Constructing'
        <3>1. alive' = Upto(current)'
            BY <2>2, <1>4 DEF NextRow, IInv, Constructing, Upto
        <3>n. /\ first' = first + width /\ width' = width
              /\ total' = total /\ rows' = Tail(rows)
            BY <1>4 DEF NextRow
        <3>2. total' = current' + n' + Len(rows') * width'
            <4>1. Len(rows') = Len(rows) - 1  BY <3>n, <2>1
            <4>2. total' = current' + n' + (Len(rows) - 1) * width
                BY <2>2, <2>3, <2>6, <3>n, <1>t
            <4> QED BY <4>1, <4>2, <3>n
        <3>3. /\ current' = first' + width' - n'
              /\ n' <= width'
            BY <2>2, <3>n, <1>t
        <3>4. \A k \in DOMAIN rows' : rows'[k] = width'
            BY <2>1, <1>4 DEF NextRow
        <3> QED BY <2>5, <3>1, <3>2, <3>3, <3>4 DEF Constructing
    <2> QED BY <2>4, <2>7, <1>4
            DEF NextRow, IInv, Unwinding, Thrown, Complete, FromTheEnd, OneRow, ByView
<1>5. CASE ConstructThrows
    <2>1. Unwinding'
        <3>1. first <= current /\ Rows(first)' /\ (call' # "rows" => first = 0)
            BY <1>5, <1>t DEF ConstructThrows, IInv, Constructing, Rows, OneRow
        <3>2. alive' = [c \in Cells |->
                          IF c < first \/ (first <= c /\ c < current) THEN 1 ELSE 0]
            BY <3>1, <1>5, <1>t DEF ConstructThrows, IInv, Constructing, Upto, Cells
        <3> QED BY <3>1, <3>2, <1>5, <1>t DEF ConstructThrows, Unwinding
    <2> QED BY <2>1, <1>5
            DEF ConstructThrows, IInv, LifetimesTypeOK, Phases, Constructing, Thrown,
                Complete, FromTheEnd, OneRow, ByView
<1>6. CASE Unwind
    <2>1. PICK b \in Nat : /\ Rows(b)
                           /\ call # "rows" => b = 0
                           /\ b <= first
                           /\ alive = [c \in Cells |->
                                  IF c < b \/ (first <= c /\ c < current) THEN 1 ELSE 0]
        BY <1>6 DEF Unwind, IInv, Unwinding
    <2>2. first < current /\ first \in Cells
        BY <1>6, <1>t DEF Unwind, IInv, Unwinding, Cells
    <2>3. alive' = [c \in Cells |->
                      IF c < b \/ (first' <= c /\ c < current') THEN 1 ELSE 0]
        <3>1. \A c \in Cells : c \in Int  BY DEF Cells
        <3>2. /\ alive' = [alive EXCEPT ![first] = @ - 1]
              /\ first' = first + 1 /\ current' = current
            BY <1>6 DEF Unwind
        <3>3. \A c \in Cells : c # first => (first <= c <=> first + 1 <= c)
            BY <3>1, <1>t
        <3>4. alive[first] = 1 /\ ~(first < b) /\ ~(first + 1 <= first)
            BY <2>1, <2>2, <1>t
        <3>5. \A c \in Cells :
                  alive'[c] = IF c < b \/ (first' <= c /\ c < current') THEN 1 ELSE 0
            BY <2>1, <2>2, <3>2, <3>3, <3>4
        <3>6. alive' = [c \in Cells |-> alive'[c]]  BY <2>1, <3>2
        <3> QED BY <3>5, <3>6
    <2>4. Unwinding'
        <3>1. first' <= current' /\ b <= first' /\ (call' # "rows" => b = 0)
            BY <2>1, <2>2, <1>6, <1>t DEF Unwind
        <3>2. Rows(b)'  BY <2>1, <1>6 DEF Unwind, Rows
        <3> QED BY <2>3, <3>1, <3>2 DEF Unwinding
    <2>5. LifetimesTypeOK'
        BY <2>2, <1>6, <1>t DEF Unwind, IInv, LifetimesTypeOK, Phases, Cells
    <2> QED BY <2>4, <2>5, <1>6
            DEF Unwind, IInv, Constructing, Thrown, Complete, FromTheEnd, OneRow, ByView
<1>7. CASE Rethrow
    <2>1. PICK b \in Nat : /\ Rows(b)
                           /\ call # "rows" => b = 0
                           /\ b <= first
                           /\ alive = [c \in Cells |->
                                  IF c < b \/ (first <= c /\ c < current) THEN 1 ELSE 0]
        BY <1>7 DEF Rethrow, IInv, Unwinding
    <2>2. alive = Upto(b)  BY <2>1, <1>7, <1>t DEF Rethrow, Upto, Cells
    <2>3. Thrown'
        <3>1. b \in 0 .. Room /\ (call' # "rows" => b = 0)
            BY <2>1, <1>7, <1>t DEF Rethrow
        <3>2. Rows(b)' /\ alive' = Upto(b)'
            BY <2>1, <2>2, <1>7 DEF Rethrow, Rows, Upto
        <3> QED BY <3>1, <3>2 DEF Thrown
    <2> QED BY <2>3, <1>7
            DEF Rethrow, IInv, LifetimesTypeOK, Phases, Constructing, Unwinding,
                Complete, FromTheEnd, OneRow, ByView
<1>8. CASE Constructed
    <2>1. alive = Upto(total)
        BY <1>8, <1>t DEF Constructed, IInv, Constructing
    <2>2. Complete'  BY <2>1, <1>8 DEF Constructed, Complete, Upto
    <2> QED BY <2>2, <1>8, <1>t
            DEF Constructed, IInv, LifetimesTypeOK, Phases, Constructing, Unwinding, Thrown,
                FromTheEnd, OneRow, ByView
<1>9. CASE Assign \/ Assigned
    BY <1>9, <1>t
    DEF Assign, Assigned, IInv, LifetimesTypeOK, Phases, Constructing, Unwinding, Thrown,
        Complete, FromTheEnd, OneRow, ByView, Upto
<1>10. CASE AssignThrows \/ Destroy
    BY <1>10, <1>t
    DEF AssignThrows, Destroy, IInv, LifetimesTypeOK, Phases, Constructing, Unwinding, Thrown,
        Complete, FromTheEnd, OneRow, ByView, Upto
<1>11. CASE DestroyOne
    <2>1. alive = Upto(first) /\ n = first /\ first - 1 \in Cells
        BY <1>11, <1>t DEF DestroyOne, IInv, FromTheEnd, Cells
    <2>2. alive' = Upto(first - 1)
        <3>1. (first - 1) + 1 = first  BY <1>t
        <3>2. [Upto(first) EXCEPT ![first - 1] = @ - 1] = Upto(first - 1)
            BY <2>1, <3>1, UptoChanges
        <3> QED BY <2>1, <3>2, <1>11 DEF DestroyOne
    <2>3. FromTheEnd'  BY <2>1, <2>2, <1>11 DEF DestroyOne, FromTheEnd, Upto
    <2>4. LifetimesTypeOK'
        BY <2>1, <1>11, <1>t DEF DestroyOne, IInv, LifetimesTypeOK, Phases, Cells
    <2> QED BY <2>3, <2>4, <1>11
            DEF DestroyOne, IInv, Constructing, Unwinding, Thrown, Complete, OneRow, ByView
<1>12. CASE Destroyed
    <2>1. alive = Raw
        BY <1>12, <1>t DEF Destroyed, IInv, FromTheEnd, Upto, Raw, Cells
    <2>2. Thrown'
        <3>1. 0 = 0 * width'  BY <1>12, <1>t DEF Destroyed
        <3>2. Rows(0)'  BY <3>1 DEF Rows
        <3>3. alive' = Upto(0)'  BY <2>1, <1>12 DEF Destroyed, Upto, Raw, Cells
        <3> QED BY <3>2, <3>3 DEF Thrown
    <2> QED BY <2>1, <2>2, <1>12
            DEF Destroyed, IInv, LifetimesTypeOK, Phases, Constructing, Unwinding,
                Complete, FromTheEnd, OneRow, ByView
<1>13. CASE UNCHANGED vars
    BY <1>13
    DEF vars, IInv, LifetimesTypeOK, Constructing, Unwinding, Thrown, Complete, FromTheEnd,
        OneRow, ByView, Rows, Upto
<1> QED BY <1>1, <1>2, <1>3, <1>4, <1>5, <1>6, <1>7, <1>8, <1>9, <1>10, <1>11, <1>12, <1>13
        DEF Next

LEMMA InvHolds == ASSUME "rows" \notin Unchecked PROVE Spec => []IInv
<1>1. IInv /\ [Next]_vars => IInv'  BY NextKeeps
<1> QED BY <1>1, InitHolds, PTL DEF Spec

(* Built once and destroyed once: with rows equally long, no element is built where one *)
(* lives or destroyed where none does, whichever constructor throws at whichever        *)
(* element (the loops of detail/adl.hpp and the destructor of array.hpp).               *)
THEOREM LifetimesElementsLiveOnce ==
    ASSUME "rows" \notin Unchecked
    PROVE  Spec => []ElementsLiveOnce
<1>1. IInv => ElementsLiveOnce
    <2> SUFFICES ASSUME IInv PROVE ElementsLiveOnce  OBVIOUS
    <2> USE RoomAssumption
    <2>1. \A c \in Cells : alive[c] \in {0, 1}
        <3>1. phase \in Phases  BY DEF IInv, LifetimesTypeOK
        <3>2. CASE phase \in {"assigning", "built"}
            BY <3>2 DEF IInv, Complete, Upto
        <3>3. CASE phase \in {"undoing", "destroying"}
            BY <3>3 DEF IInv, FromTheEnd, Upto
        <3>4. CASE phase \in {"idle", "destroyed"}
            BY <3>4 DEF IInv, Raw
        <3>5. CASE phase = "constructing"
            BY <3>5 DEF IInv, Constructing, Upto
        <3>6. CASE phase = "unwinding"
            BY <3>6 DEF IInv, Unwinding
        <3>7. CASE phase = "thrown"
            BY <3>7 DEF IInv, Thrown, Upto
        <3> QED BY <3>1, <3>2, <3>3, <3>4, <3>5, <3>6, <3>7 DEF Phases
    <2>2. ASSUME phase \in {"assigning", "built"} PROVE Living = 0 .. total - 1
        <3>1. alive = Upto(total) /\ total \in 0 .. Room
            BY <2>2 DEF IInv, Complete, LifetimesTypeOK
        <3> QED BY <3>1, UptoLiving
    <2>3. ASSUME phase = "destroyed" PROVE Living = {}
        BY <2>3 DEF IInv, Raw, Living
    <2> QED BY <2>1, <2>2, <2>3 DEF ElementsLiveOnce
<1> QED BY <1>1, InvHolds, PTL

(* A constructor that throws leaves no element alive, and one from rows, whose loop has *)
(* no catch (array_ref.hpp), exactly the whole rows before the one that threw.          *)
THEOREM LifetimesOnlyWholeRowsStay ==
    ASSUME "rows" \notin Unchecked
    PROVE  Spec => []OnlyWholeRowsStay
<1>1. IInv => OnlyWholeRowsStay
    <2> SUFFICES ASSUME IInv, phase = "thrown" PROVE OnlyWholeRowsStay
        BY DEF OnlyWholeRowsStay
    <2> USE RoomAssumption
    <2>1. PICK b \in 0 .. Room : /\ Rows(b)
                                 /\ call # "rows" => b = 0
                                 /\ alive = Upto(b)
        BY DEF IInv, Thrown
    <2>2. Living = 0 .. b - 1  BY <2>1, UptoLiving
    <2>3. CASE call # "rows"
        BY <2>1, <2>2, <2>3 DEF OnlyWholeRowsStay
    <2>4. CASE call = "rows"
        <3>1. PICK k \in Nat : b = k * width  BY <2>1 DEF Rows
        <3>2. width \in Nat /\ width > 0  BY <2>4 DEF IInv, LifetimesTypeOK
        <3>3. k <= b
            <4>1. k * width = k + k * (width - 1)  BY <3>2
            <4>2. k * (width - 1) >= 0  BY <3>2
            <4> QED BY <4>1, <4>2, <3>1, <3>2
        <3> QED BY <3>1, <3>3, <2>1, <2>2, <2>4 DEF OnlyWholeRowsStay
    <2> QED BY <2>3, <2>4
<1> QED BY <1>1, InvHolds, PTL

=============================================================================
