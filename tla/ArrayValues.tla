----------------------------- MODULE ArrayValues ----------------------------
(***************************************************************************)
(* What the README promises of multi::array: value semantics.  An array is *)
(* its extensions and an element for every tuple of indices, nothing else; *)
(* no two arrays share an element, and an operation changes the arrays it  *)
(* is called with only.                                                    *)
(***************************************************************************)
EXTENDS Integers, Sequences, FiniteSets

CONSTANTS
    Arrays,      \* names of array variables
    Elements,    \* element values
    Default,     \* the value of a default constructed element
    Shapes,      \* lists of extensions
    Firsts,      \* first indices an array may be reindexed to
    MaxRows      \* bound on the rows of a range that an array is given

VARIABLE value   \* [the arrays in existence -> [extents, element]]

Live == DOMAIN value

Indices(x) == x[1] .. x[2] - 1
Box(xs) == {ix \in [1 .. Len(xs) -> UNION {Indices(xs[k]) : k \in 1 .. Len(xs)}] :
                \A k \in 1 .. Len(xs) : ix[k] \in Indices(xs[k])}
Before(ix, jx) == \E k \in DOMAIN ix : /\ \A h \in 1 .. k - 1 : ix[h] = jx[h]
                                       /\ ix[k] < jx[k]
Ordinal(xs, ix) == Cardinality({jx \in Box(xs) : Before(jx, ix)})

(* A dimension with nothing in it has no indices to tell. *)
Normal(xs) == [k \in DOMAIN xs |->
                  IF \E h \in k .. Len(xs) : Indices(xs[h]) = {} THEN <<0, 0>> ELSE xs[k]]

Value(xs, Element(_)) == [extents |-> xs, element |-> [ix \in Box(xs) |-> Element(ix)]]
Nothing(rank) == Value([k \in 1 .. rank |-> <<0, 0>>], LAMBDA ix : Default)

(* The value of a view of an array: the array itself, or its rotation. *)
Onward(s) == [k \in DOMAIN s |-> s[(k % Len(s)) + 1]]
Back(s)   == [k \in DOMAIN s |-> s[((k - 2) % Len(s)) + 1]]
View(v, turned) == IF turned THEN Value(Normal(Onward(v.extents)), LAMBDA ix : v.element[Back(ix)])
                             ELSE v

Init == value = <<>>

Become(a, v) == value' = [value EXCEPT ![a] = v]
Appear(a, v) == value' = [b \in Live \cup {a} |-> IF b = a THEN v ELSE value[b]]

ConstructEmpty(a, rank) == Appear(a, Nothing(rank))
ConstructFilled(a, xs, e) == Appear(a, Value(Normal(xs), LAMBDA ix : e))
ConstructCopy(a, b, turned) == Appear(a, View(value[b], turned))
ConstructMoved(a, b) ==
    value' = [c \in Live \cup {a} |-> IF c = a THEN value[b]
                                      ELSE IF c = b THEN Nothing(Len(value[b].extents))
                                      ELSE value[c]]
Destroy(a) == value' = [b \in Live \ {a} |-> value[b]]

Assign(a, b, turned) == Become(a, View(value[b], turned))
(* An assignment that an element interrupts: the first n elements are assigned. *)
AssignPartly(a, b, turned, n) ==
    LET old == value[a]
        new == View(value[b], turned)
    IN  /\ old.extents = new.extents
        /\ Become(a, Value(old.extents, LAMBDA ix : IF Ordinal(old.extents, ix) < n
                                                    THEN new.element[ix] ELSE old.element[ix]))
(* Moving an array to itself empties it. *)
AssignMoved(a, b) ==
    LET empty == Nothing(Len(value[b].extents))
    IN  value' = [value EXCEPT ![a] = IF a = b THEN empty ELSE value[b], ![b] = empty]
(* Rows are given by their extension and, each, the value of its elements. *)
Rows(x, rows) == Value(Normal(<<<<0, Len(rows)>>, x>>), LAMBDA ix : rows[ix[1] + 1])
ConstructRows(a, x, rows) == Appear(a, Rows(x, rows))
(* Rows like those the array has keep its indices. *)
AssignRows(a, x, rows) ==
    LET xs == value[a].extents
    IN  Become(a, IF Cardinality(Indices(xs[1])) = Len(rows) /\ xs[2] = x
                  THEN Value(xs, LAMBDA ix : rows[ix[1] - xs[1][1] + 1])
                  ELSE Rows(x, rows))
Swap(a, b) == value' = [value EXCEPT ![a] = value[b], ![b] = value[a]]

Clear(a) == Become(a, Nothing(Len(value[a].extents)))
(* Elements keep their indices where the old and the new extensions meet. *)
Reextent(a, xs, e) ==
    Become(a, Value(Normal(xs), LAMBDA ix : IF ix \in DOMAIN value[a].element
                                            THEN value[a].element[ix] ELSE e))
(* Elements keep their order. *)
Reshape(a, xs) ==
    LET old == value[a]
    IN  /\ Cardinality(Box(xs)) = Cardinality(Box(old.extents))
        /\ Become(a, Value(Normal(xs), LAMBDA ix :
                         old.element[CHOOSE jx \in Box(old.extents) :
                                         Ordinal(old.extents, jx) = Ordinal(Normal(xs), ix)]))
Reindex(a, first) ==
    LET old == value[a]
        by  == first - old.extents[1][1]
        moved == [old.extents EXCEPT ![1] = <<@[1] + by, @[2] + by>>]
    IN  Become(a, Value(Normal(moved), LAMBDA ix : old.element[[ix EXCEPT ![1] = @ - by]]))
(* One element of one array changes. *)
Write(a, ix, e) == /\ ix \in DOMAIN value[a].element
                   /\ Become(a, [value[a] EXCEPT !.element[ix] = e])

RowExtents  == {xs[2] : xs \in {ys \in Shapes : Len(ys) = 2}}
ListsOfRows == UNION {[1 .. n -> Elements] : n \in 1 .. MaxRows}

Construction(a) ==
    /\ a \notin Live
    /\ \/ \E b \in Live : ConstructMoved(a, b)
       \/ \E b \in Live, turned \in BOOLEAN : ConstructCopy(a, b, turned)
       \/ \E xs \in Shapes : ConstructEmpty(a, Len(xs))
       \/ \E xs \in Shapes, e \in Elements : ConstructFilled(a, xs, e)
       \/ \E x \in RowExtents, rows \in ListsOfRows : ConstructRows(a, x, rows)

Assignment(a) ==
    \/ \E b \in Live : AssignMoved(a, b) \/ Swap(a, b)
    \/ \E b \in Live, turned \in BOOLEAN : Assign(a, b, turned)
    \/ \E b \in Live, turned \in BOOLEAN, n \in 1 .. Cardinality(DOMAIN value[a].element) :
          AssignPartly(a, b, turned, n)
    \/ \E x \in RowExtents, rows \in ListsOfRows : AssignRows(a, x, rows)

Modification(a) ==
    \/ Clear(a) \/ Destroy(a)
    \/ \E ix \in DOMAIN value[a].element, e \in Elements : Write(a, ix, e)
    \/ \E xs \in Shapes, e \in Elements : Reextent(a, xs, e)
    \/ \E first \in Firsts : Reindex(a, first)
    \/ \E xs \in Shapes : Reshape(a, xs)

Next ==
    \/ \E a \in Arrays : Construction(a)
    \/ \E a \in Live : Modification(a)
    \/ \E a \in Live : Assignment(a)

Spec == Init /\ [][Next]_value

=============================================================================
