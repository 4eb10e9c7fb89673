------------------------------- MODULE Arrays -------------------------------
(***************************************************************************)
(* Arrays that own their memory (array.hpp: array_allocator, static_array, *)
(* array).  An array is an allocator, a base pointer and a layout; its     *)
(* elements are in a block of the heap.  An operation is one action and is *)
(* composed as the code composes it, with its temporary arrays: Temp is    *)
(* the name of a temporary, which the action makes and destroys.           *)
(*                                                                         *)
(* Elements are objects with a default constructor.  Their copies may      *)
(* throw: Throwing says which.  A request for memory that the heap cannot  *)
(* meet throws before anything changes.                                    *)
(***************************************************************************)
EXTENDS Layout, Functions

CONSTANTS
    Arrays,      \* array variables of a program
    Temp,        \* a temporary array
    Programs,    \* [allocators, elements]: the values of the two types of a program
    Standard,    \* the default constructed allocator
    Blocks,      \* bound on the blocks in use: addresses of the heap
    Null,        \* nullptr
    Default,     \* the value of a default constructed element
    Shapes,      \* lists of extensions, leading dimension first
    Firsts,      \* first indices an array may be reindexed to
    MaxRows,     \* bound on the rows of a range that an array is given
    Throwing,    \* subset of {"assign", "construct"}: what elements may refuse
    Unchecked    \* operations called with no more care than the code demands

ASSUME NamesAssumption     == Temp \notin Arrays /\ Null \notin Blocks
ASSUME ProgramAssumption   == \A g \in Programs : Standard \in g.allocators /\ Default \in g.elements
ASSUME ShapesAssumption    == /\ Shapes # {}
                              /\ \A xs \in Shapes : /\ xs \in Seq(Int \X Int) /\ Len(xs) > 0
                                                    /\ \A k \in 1 .. Len(xs) : xs[k][1] <= xs[k][2]
ASSUME RankAssumption      == \A xs, ys \in Shapes : Len(xs) = Len(ys)
ASSUME FirstsAssumption    == Firsts \subseteq Int
ASSUME MaxRowsAssumption   == MaxRows \in Nat

VARIABLES
    program,     \* the program that runs: a block goes back to the allocator it came from
    array,       \* [the arrays in existence -> [alloc_, base_, layout]]
    heap,        \* [the blocks in use -> [alloc, cells]]
    stopped      \* an assertion failed

vars == <<program, array, heap, stopped>>

Allocators == program.allocators
Elements   == program.elements

Live == DOMAIN array
Careful(op) == op \notin Unchecked

(***************************************************************************)
(* Operations on a pair of arrays and heap, so that they compose.          *)
(***************************************************************************)
World == [array |-> array, heap |-> heap]
Become(w) == array' = w.array /\ heap' = w.heap /\ UNCHANGED <<program, stopped>>

With(f, x, e) == [y \in DOMAIN f \cup {x} |-> IF y = x THEN e ELSE f[y]]
Without(f, x) == Restrict(f, DOMAIN f \ {x})
NoLayout(rank) == [k \in 1 .. rank |-> Dim(1, 0, 0)]

(* Where n elements may be allocated: nothing is allocated for none. *)
Places(w, n) == IF n = 0 THEN {Null} ELSE Blocks \ DOMAIN w.heap

(* Mutant: a block is asked for even if there are no elements. *)
ConstructAlways(w, a, al, p, L, cells) ==
    [array |-> With(w.array, a, [alloc |-> al, base |-> p, layout |-> L]),
     heap  |-> With(w.heap, p, [alloc |-> al, cells |-> cells])]

Construct(w, a, al, p, L, cells) ==
    [array |-> With(w.array, a, [alloc |-> al, base |-> p, layout |-> L]),
     heap  |-> IF NumElements(L) = 0 THEN w.heap
               ELSE With(w.heap, p, [alloc |-> al, cells |-> cells])]

Filled(L, e) == [k \in 1 .. NumElements(L) |-> e]
CellsOf(w, a) == IF NumElements(w.array[a].layout) = 0 THEN <<>> ELSE w.heap[w.array[a].base].cells
ExtentsOf(w, a) == Extensions(w.array[a].layout)
Element(w, a, ix) == CellsOf(w, a)[Position(w.array[a].layout, ix) + 1]

(* f gives some tuples of indices of array a new elements. *)
Written(w, a, f) ==
    LET r == w.array[a]
        at(k) == {ix \in DOMAIN f : Position(r.layout, ix) + 1 = k}
    IN  IF DOMAIN f = {} THEN w
        ELSE [w EXCEPT !.heap[r.base].cells =
                 [k \in DOMAIN @ |-> IF at(k) = {} THEN @[k] ELSE f[CHOOSE ix \in at(k) : TRUE]]]

Deallocate(w, a) ==
    IF NumElements(w.array[a].layout) = 0 THEN w
    ELSE [w EXCEPT !.heap = Without(@, w.array[a].base)]

(* base_ keeps the address of the block that is gone. *)
Clear(w, a) ==
    [Deallocate(w, a) EXCEPT !.array[a].layout = NoLayout(Len(@))]

Destroy(w, a) == [Deallocate(w, a) EXCEPT !.array = Without(@, a)]

Copy(w, a, b, al, p) ==
    Construct(w, a, al, p, LayoutOf(ExtentsOf(w, b)), CellsOf(w, b))

(* Mutant: the array that was moved from keeps its layout. *)
MoveKeepsLayout(w, a, b, al) ==
    LET r == w.array[b]
    IN  [w EXCEPT !.array = With([@ EXCEPT ![b].base = Null], a,
                                 [alloc |-> al, base |-> r.base,
                                  layout |-> LayoutOf(Extensions(r.layout))])]

(* The block changes hands; the layout is made again from the extensions. *)
Move(w, a, b, al) ==
    LET r == w.array[b]
    IN  [w EXCEPT !.array = With([@ EXCEPT ![b].base = Null, ![b].layout = NoLayout(Len(@))], a,
                                 [alloc |-> al, base |-> r.base,
                                  layout |-> LayoutOf(Extensions(r.layout))])]

(* Mutant: what the array held is not given back. *)
MoveAssignUncleared(w, a, b) ==
    LET r == w.array[b]
    IN  [w EXCEPT !.array = [@ EXCEPT ![b].base = Null, ![b].layout = NoLayout(Len(@)), ![a] = r]]

MoveAssign(w, a, b) ==
    LET v == Clear(w, a)
        r == v.array[b]
    IN  [v EXCEPT !.array = [@ EXCEPT ![b].base = Null, ![b].layout = NoLayout(Len(@)), ![a] = r]]

Swap(w, a, b) == [w EXCEPT !.array[a] = w.array[b], !.array[b] = w.array[a]]

(* The first k elements are assigned. *)
Overwritten(w, a, cells, k) ==
    IF k = 0 THEN w
    ELSE [w EXCEPT !.heap[w.array[a].base].cells =
             [i \in DOMAIN @ |-> IF i <= k THEN cells[i] ELSE @[i]]]

(* The elements of a view that starts at the base of array b. *)
ViewLayout(w, b, turned) ==
    IF turned THEN Rotate(w.array[b].layout, 1) ELSE w.array[b].layout
ViewOf(w, b, L) == [ix \in Box(Extensions(L)) |-> CellsOf(w, b)[Position(L, ix) + 1]]

(* A new array of default elements, which those of a view are then assigned to. *)
CopyView(w, a, b, turned, al, p) ==
    LET L == ViewLayout(w, b, turned)
        new == LayoutOf(Extensions(L))
    IN  Written(Construct(w, a, al, p, new, Filled(new, Default)), a, ViewOf(w, b, L))

(* A new array of the rows of a range; each row has extension x and equal elements. *)
ConstructRange(w, a, x, rows, p) ==
    LET new == LayoutOf(<<<<0, Len(rows)>>, x>>)
    IN  Construct(w, a, Standard, p, new,
                  [k \in 1 .. NumElements(new) |-> rows[((k - 1) \div Count(x)) + 1]])

(* Assignment: from a temporary of other extents, which is moved in ... *)
Replace(w, a) == Destroy(MoveAssign(w, a, Temp), Temp)
(* ... or, where extents agree, element by element. *)
Refill(w, a, b) == Overwritten(w, a, CellsOf(w, b), NumElements(w.array[b].layout))

(* Mutant: arrays of one size are taken for arrays of one shape. *)
AssignBySize(w, a, b, p) ==
    IF NumElements(w.array[a].layout) = NumElements(w.array[b].layout) THEN Refill(w, a, b)
    ELSE Replace(Copy(w, Temp, b, w.array[b].alloc, p), a)

Assign(w, a, b, p) ==
    IF ExtentsOf(w, a) = ExtentsOf(w, b) THEN Refill(w, a, b)
    ELSE Replace(Copy(w, Temp, b, w.array[b].alloc, p), a)

(* The elements whose indices both arrays have. *)
Common(w, a, b) ==
    [ix \in Box(ExtentsOf(w, a)) \cap Box(ExtentsOf(w, b)) |-> Element(w, b, ix)]

Resized(w, a, xs, e, p) ==
    LET new == LayoutOf(xs)
        made == Construct(w, Temp, w.array[a].alloc, p, new, Filled(new, e))
    IN  Destroy(Swap(Written(made, Temp, Common(made, Temp, a)), a, Temp), Temp)

(***************************************************************************)
(* The state machine: the program's calls.                                 *)
(***************************************************************************)
Rank == Len(CHOOSE xs \in Shapes : TRUE)

Init ==
    /\ program \in Programs
    /\ array = <<>>
    /\ heap = <<>>
    /\ stopped = FALSE

(* static_array(), static_array(allocator) *)
ConstructEmpty(a, al) ==
    Become([World EXCEPT !.array = With(@, a, [alloc |-> al, base |-> Null,
                                               layout |-> NoLayout(Rank)])])

(* With the default element, the constructor from extensions alone. *)
ConstructFilled(a, xs, e, al) ==
    \E p \in Places(World, NumElements(LayoutOf(xs))) :
        Become(Construct(World, a, al, p, LayoutOf(xs), Filled(LayoutOf(xs), e)))

(* Copying rows into memory is there for the standard allocator only. *)
RowsCompile == Allocators = {Standard} /\ Rank = 2

ConstructRows(a, x, rows) ==
    /\ RowsCompile
    /\ \E p \in Places(World, Len(rows) * Count(x)) :
           Become(ConstructRange(World, a, x, rows, p))

CopyConstruct(a, b) ==
    \E p \in Places(World, NumElements(array[b].layout)) :
        Become(Copy(World, a, b, array[b].alloc, p))

(* Views are copied by iterators, whose difference divides by a stride that *)
(* is 0 for rows of no elements.                                            *)
Iterable(b) == Head(array[b].layout).stride # 0

ConstructFromView(a, b, turned, al) ==
    \E p \in Places(World, NumElements(array[b].layout)) :
        /\ Iterable(b)
        /\ Become(CopyView(World, a, b, turned, al, p))

MoveConstruct(a, b) == Become(Move(World, a, b, array[b].alloc))

MoveConstructWith(a, b, al) ==
    /\ Careful("move") => al = array[b].alloc
    /\ Become(Move(World, a, b, al))

(* operator=(array&&), operator=(array const&) *)
AssignMoved(a, b) == Become(MoveAssign(World, a, b))
CopyAssign(a, b) ==
    \E p \in Places(World, NumElements(array[b].layout)) : Become(Assign(World, a, b, p))

(* operator=(Range&&): the view becomes an array first, of the standard allocator. *)
AssignView(a, b, turned) ==
    \E p \in Places(World, NumElements(array[b].layout)) :
        LET w == CopyView(World, Temp, b, turned, Standard, p)
        IN  /\ Iterable(b)
            /\ Become(IF ExtentsOf(w, a) = ExtentsOf(w, Temp)
                      THEN Destroy(Refill(w, a, Temp), Temp)
                      ELSE Replace(w, a))

(* An element's assignment throws: the ones before it are done. *)
CopyAssignThrows(a, b, k) ==
    /\ "assign" \in Throwing
    /\ ExtentsOf(World, a) = ExtentsOf(World, b)
    /\ k < NumElements(array[a].layout)
    /\ Become(Overwritten(World, a, CellsOf(World, b), k))

AssignViewThrows(a, b, turned, k) ==
    \E p \in Places(World, NumElements(array[b].layout)) :
        LET w == CopyView(World, Temp, b, turned, Standard, p)
        IN  /\ "assign" \in Throwing
            /\ Iterable(b)
            /\ ExtentsOf(w, a) = ExtentsOf(w, Temp)
            /\ k < NumElements(array[a].layout)
            /\ Become(Destroy(Overwritten(w, a, CellsOf(w, Temp), k), Temp))

(* An element's constructor throws (Lifetimes has what becomes of the     *)
(* others): the array does not exist and its destructor does not run.     *)
ConstructThrows(xs, al) ==
    \E p \in Blocks \ DOMAIN heap :
        /\ "construct" \in Throwing
        /\ NumElements(LayoutOf(xs)) > 0
        /\ heap' = With(heap, p, [alloc |-> al, cells |-> <<>>])
        /\ UNCHANGED <<program, array, stopped>>

(* assign(first, last), operator=(initializer_list): as many rows as the   *)
(* array has are assigned where the rows are, whatever their extension.    *)
AssignRowsInPlace(a, x, rows) ==
    /\ RowsCompile
    /\ Size(Head(array[a].layout)) = Len(rows)
    /\ ExtentsOf(World, a)[2] = Extension(Dim(1, x[1], Count(x)))
    /\ Become(Written(World, a, [ix \in Box(ExtentsOf(World, a)) |->
                                     rows[ix[1] - ExtentsOf(World, a)[1][1] + 1]]))

AssignOtherRows(a, x, rows) ==
    /\ RowsCompile
    /\ Size(Head(array[a].layout)) # Len(rows)
    /\ \E p \in Places(World, Len(rows) * Count(x)) :
           Become(Replace(ConstructRange(World, Temp, x, rows, p), a))

AssignRowsStops(a, x, rows) ==
    /\ RowsCompile
    /\ ~Careful("rows")
    /\ Size(Head(array[a].layout)) = Len(rows)
    /\ ExtentsOf(World, a)[2] # Extension(Dim(1, x[1], Count(x)))
    /\ stopped' = TRUE
    /\ UNCHANGED <<program, array, heap>>

SwapArrays(a, b) == Become(Swap(World, a, b))
ClearArray(a)    == Become(Clear(World, a))
DestroyArray(a)  == Become(Destroy(World, a))

Reextent(a, xs, e) ==
    \E p \in Places(World, NumElements(LayoutOf(xs))) : Become(Resized(World, a, xs, e, p))

Reshape(a, xs) ==
    /\ NumElements(LayoutOf(xs)) = NumElements(array[a].layout)
    /\ Become([World EXCEPT !.array[a].layout = LayoutOf(xs)])

ReindexArray(a, first) ==
    Become([World EXCEPT !.array[a].layout[1] = Reindex(@, first)])

Write(a, ix, e) == Become(Written(World, a, [jx \in {ix} |-> e]))

(* serialize, loading what array b was saved as *)
Load(a, b) ==
    \E p \in Places(World, NumElements(array[b].layout)) :
        LET xs == ExtentsOf(World, b)
            w  == IF xs = ExtentsOf(World, a) THEN World
                  ELSE Resized(Clear(World, a), a, xs, Default, p)
        IN  Become(Written(w, a, [ix \in Box(xs) |-> Element(World, b, ix)]))

RowExtents  == {xs[2] : xs \in {ys \in Shapes : Len(ys) = 2}}
ListsOfRows == UNION {[1 .. n -> Elements] : n \in 1 .. MaxRows}

Construction(a) ==
    /\ a \notin Live
    /\ \/ \E al \in Allocators : ConstructEmpty(a, al)
       \/ \E xs \in Shapes, e \in Elements, al \in Allocators : ConstructFilled(a, xs, e, al)
       \/ \E x \in RowExtents, rows \in ListsOfRows : ConstructRows(a, x, rows)
       \/ \E b \in Live, turned \in BOOLEAN, al \in Allocators : ConstructFromView(a, b, turned, al)
       \/ \E b \in Live : CopyConstruct(a, b) \/ MoveConstruct(a, b)
       \/ \E b \in Live, al \in Allocators : MoveConstructWith(a, b, al)

Assignment(a) ==
    \/ \E b \in Live : AssignMoved(a, b) \/ CopyAssign(a, b) \/ SwapArrays(a, b) \/ Load(a, b)
    \/ \E b \in Live, turned \in BOOLEAN : AssignView(a, b, turned)
    \/ \E b \in Live, k \in 1 .. NumElements(array[a].layout) : CopyAssignThrows(a, b, k)
    \/ \E b \in Live, turned \in BOOLEAN, k \in 1 .. NumElements(array[a].layout) :
          AssignViewThrows(a, b, turned, k)
    \/ \E x \in RowExtents, rows \in ListsOfRows :
          \/ AssignRowsInPlace(a, x, rows)
          \/ AssignOtherRows(a, x, rows)
          \/ AssignRowsStops(a, x, rows)

Modification(a) ==
    \/ ClearArray(a) \/ DestroyArray(a)
    \/ \E xs \in Shapes, e \in Elements : Reextent(a, xs, e)
    \/ \E xs \in Shapes : Reshape(a, xs)
    \/ \E first \in Firsts : ReindexArray(a, first)
    \/ \E ix \in Box(ExtentsOf(World, a)), e \in Elements : Write(a, ix, e)

Next ==
    /\ ~stopped
    /\ \/ \E a \in Arrays : Construction(a)
       \/ \E a \in Live : Assignment(a) \/ Modification(a)
       \/ \E xs \in Shapes, al \in Allocators : ConstructThrows(xs, al)

Spec == Init /\ [][Next]_vars

(***************************************************************************)
(* Properties.                                                             *)
(***************************************************************************)
(* Arrays and blocks keep their types; the answer to a request for no      *)
(* memory, nullptr, is not a block (array_allocator::allocate).            *)
ArraysTypeOK ==
    /\ Live \subseteq Arrays
    /\ \A a \in Live : /\ array[a].alloc \in Allocators
                       /\ array[a].base \in Blocks \cup {Null}
                       /\ Len(array[a].layout) = Rank
                       /\ \A k \in 1 .. Rank : array[a].layout[k] \in [stride : Nat, offset : Int, nelems : Nat]
    /\ DOMAIN heap \subseteq Blocks
    /\ \A p \in DOMAIN heap : /\ heap[p].alloc \in Allocators
                              /\ heap[p].cells \in Seq(Elements)
    /\ stopped \in BOOLEAN

(* An array that has elements has a block of its own, as long as its        *)
(* layout, from the allocator that it will return it to; what it forgot or  *)
(* gave away is not returned a second time.                                 *)
Owned ==
    \A a \in Live : NumElements(array[a].layout) > 0 =>
        /\ array[a].base \in DOMAIN heap
        /\ heap[array[a].base].alloc = array[a].alloc
        /\ Len(heap[array[a].base].cells) = NumElements(array[a].layout)
        /\ \A b \in Live \ {a} : NumElements(array[b].layout) > 0
                                 => array[b].base # array[a].base

(* Every block in use belongs to an array that has elements.  What an     *)
(* array held before is returned whatever path an operation takes: the     *)
(* only blocks ever lost are those of a constructor that was interrupted.  *)
Kept(p) == \E a \in Live : array[a].base = p /\ NumElements(array[a].layout) > 0
LostInConstructionOnly == \A p \in DOMAIN heap : Kept(p) \/ heap[p].cells = <<>>

(* Nor are those: a constructor that throws returns its memory.            *)
NoLeak == \A p \in DOMAIN heap : Kept(p)

(* No call trips an assertion inside the library. *)
NeverStopped == ~stopped

(* An array that survives a call has the allocator of one that was there:  *)
(* memory is not fetched from where the program never said.                *)
AllocatorFromOperands ==
    [][\A a \in Live \cap DOMAIN array' : \E b \in Live : array'[a].alloc = array[b].alloc]_vars

(* The arrays are values (ArrayValues): their extensions and elements, and *)
(* nothing of allocators, blocks or layouts, say how operations behave.    *)
ValueOf(w, a) == [extents |-> ExtentsOf(w, a),
                  element |-> [ix \in Box(ExtentsOf(w, a)) |-> Element(w, a, ix)]]
ValuesOf(w)   == [a \in DOMAIN w.array |-> ValueOf(w, a)]

Values == INSTANCE ArrayValues WITH
    Elements <- UNION {g.elements : g \in Programs},
    value    <- ValuesOf(World)
ImplementsValues == Values!Spec
=============================================================================
