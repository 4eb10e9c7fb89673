-------------------------------- MODULE Fft --------------------------------
(***************************************************************************)
(* A call of one function of adaptors/fftw.hpp or cufft.hpp (fft.hpp only  *)
(* picks one of the two by the type of the pointers).  FFTW transforms any *)
(* subset of the dimensions at once; for cuFFT the adaptor turns, flattens *)
(* and loops until what is left is one request the library takes.          *)
(***************************************************************************)
EXTENDS FftAdaptors

CONSTANTS
    Shapes,      \* sizes of the operands, leading dimension first
    Kinds,       \* how the operands lie in memory
    Room,        \* cells for each operand and for a copy
    Beyond,      \* what the byte after the last of tail may be
    Unchecked    \* functions known to come out wrong, called nevertheless

ASSUME BeyondAssumption == Beyond \subseteq BOOLEAN /\ Beyond # {}

VARIABLES
    memory,      \* the sum each cell holds
    work,        \* the steps left, the innermost recursive call first
    call,        \* ghost: the operands, where the result goes and the sign of each dimension
    beyond,      \* ghost: a search has read past the end of tail
    outcome      \* "idle", "called", then "returned", "stopped" or "undefined"

vars == <<memory, work, call, beyond, outcome>>

Cells   == 0 .. 3 * Room - 1
Input   == 0
Output  == Room
Scratch == 2 * Room

Start == [c \in Cells |-> {Term(c, 0)}]

(***************************************************************************)
(* Operands.                                                               *)
(***************************************************************************)
Ranges(sizes) == [k \in DOMAIN sizes |-> <<0, sizes[k]>>]
Dense(b, sizes) == View(b, LayoutOf(Ranges(sizes)))
Grown(sizes, k, n) == [sizes EXCEPT ![k] = n]

(* A new array, a turned one, one slice of a longer row, every other one of the rows. *)
Lying(kind, b, sizes) ==
    CASE kind = "dense"   -> Dense(b, sizes)
      [] kind = "turned"  -> UnrotateView(Dense(b, Turn(sizes, 1)), 1)
      [] kind = "padded"  -> LET last == Len(sizes)
                             IN  RotateView(Slice(UnrotateView(Dense(b, Grown(sizes, last, sizes[last] + 1)), 1),
                                                  0, sizes[last]), 1)
      [] kind = "strided" -> StrideView(Dense(b, Grown(sizes, 1, 2 * sizes[1])), 2)

Rank(v) == Len(v.layout)
Whole(v) == Box(Extensions(v.layout))
Elements(v) == {Address(v, ix) : ix \in Whole(v)}

(* In place, in another array, or in place with the order of the dimensions changed. *)
Operands ==
    {<<Lying(k, Input, x), Lying(h, Output, x)>> : k \in Kinds, h \in Kinds, x \in Shapes}
      \union {<<Lying(k, Input, x), Lying(k, Input, x)>> : k \in Kinds, x \in Shapes}
      \union {<<Lying(k, Input, x), Lying(h, Input, x)>> :
                  k \in Kinds \intersect {"dense"}, h \in Kinds \intersect {"turned"}, x \in Shapes}

InPlace(i, o) == i.base = o.base
CrossedViews(i, o) == InPlace(i, o) /\ i.layout # o.layout

Uniform(v, s) == [d \in 1 .. Rank(v) |-> s]
Signs(which, s) == [d \in DOMAIN which |-> IF which[d] THEN s ELSE none]

(***************************************************************************)
(* The calls.                                                              *)
(***************************************************************************)
Ask(lib, request) == [step |-> "ask", lib |-> lib, request |-> request]
Assign(i, o)      == [step |-> "assign", in |-> i, out |-> o]
Dft(which, i, o, s) == [step |-> "dft", which |-> which, in |-> i, out |-> o, sign |-> s]

Begins(i, o, signs, steps) ==
    /\ call' = [in |-> i, out |-> o, signs |-> signs]
    /\ work' = steps
    /\ outcome' = "called"
    /\ UNCHANGED <<memory, beyond>>

Directions == {forward, backward}

(* Every function with an argument which may also take none: then it transforms nothing. *)
Subsets(v) == [1 .. Rank(v) -> BOOLEAN]

(* fftw::dft(i, o, sign), dft_inplace, and with o a new array dft(i, sign) *)
fftw_dft(i, o) == \E s \in Directions :
    Begins(i, o, Uniform(i, s), <<Ask("fftw", AllRequest(i, o, s))>>)

(* fftw::dft(which, i, o, sign), dft_forward, dft_backward, copy *)
fftw_which(i, o) == \E s \in Directions, which \in Subsets(i) :
    Begins(i, o, Signs(which, s), <<Ask("fftw", WhichRequest(which, i, o, s))>>)

(* fftw::dft(signs, i, o): what is forward into o, then what is backward inside o *)
fftw_signs(i, o) == \E signs \in [1 .. Rank(i) -> {forward, none, backward}] :
    LET fwd == [d \in DOMAIN signs |-> signs[d] = forward]
        bwd == [d \in DOMAIN signs |-> signs[d] = backward]
    IN  Begins(i, o, signs,
               <<Ask("fftw", WhichRequest(fwd, i, o, forward))>> \o
               (IF \E d \in DOMAIN bwd : bwd[d]
                THEN <<Ask("fftw", WhichRequest(bwd, o, o, backward))>> ELSE <<>>))

(* A plan made for i and o, executed from o to i. *)
fftw_reuse(i, o) == \E s \in Directions, which \in Subsets(i) :
    LET plan == WhichRequest(which, i, o, s)
    IN  /\ i.layout = o.layout /\ ~InPlace(i, o)
        /\ Begins(o, i, Signs(which, s),
                  <<Ask("fftw", [plan EXCEPT !.in = o.base, !.out = i.base])>>)

(* many_dft(first, last, d_first, sign), of either library *)
many_dft(lib, i, o) == \E s \in Directions :
    /\ Rank(i) > 1
    /\ Begins(i, o, [Uniform(i, s) EXCEPT ![1] = none],
              <<Ask(lib, ManyRequest(Begin(i), End(i), Begin(o), s))>>)

(* copy(moved view): inside the array when nothing lies between its elements, and the *)
(* new array takes the memory; otherwise into the memory of a new one.                *)
fftw_move(i) ==
    LET sizes == Sizes(i.layout)
        o     == IF IsCompact(i.layout) THEN Dense(i.base, sizes) ELSE Dense(Output, sizes)
    IN  Begins(i, o, Uniform(i, none),
               <<Ask("fftw", WhichRequest(Uniform(i, FALSE), i, o, forward))>>)

(* transpose(a): an array takes the extensions of its transpose, and the elements follow. *)
fftw_transpose(i) ==
    LET turned == View(i.base, Transpose(i.layout))
        a      == View(i.base, LayoutOf(Extensions(turned.layout)))
    IN  /\ Rank(i) > 1 /\ i = Dense(i.base, Sizes(i.layout))
        /\ Begins(turned, a, Uniform(i, none),
                  <<Ask("fftw", WhichRequest(Uniform(i, FALSE), turned, a, forward))>>)

(* rotate(a): the array is given the extensions of before.rotated(), and before itself is *)
(* copied into it with the sign none: an assertion stops it when the sizes differ, and    *)
(* otherwise one element is copied.                                                       *)
fftw_rotate(i) ==
    LET turned == RotateView(i, 1)
        a      == View(i.base, LayoutOf(Extensions(turned.layout)))
    IN  /\ i = Dense(i.base, Sizes(i.layout))
        /\ "rotate" \in Unchecked \/ Rank(i) = 1 \/ ~SameSizes(i, a)
        /\ Begins(turned, a, Uniform(i, none), <<Ask("fftw", AllRequest(i, a, none))>>)

(* cufft::dft(i, o, sign), and with o a new array dft(i, sign) *)
cufft_dft(i, o) == \E s \in Directions :
    Begins(i, o, Uniform(i, s), <<Ask("cufft", PlanRequest(i, o, s))>>)

(* cufft::dft(which, i, o, sign), dft_forward, dft_backward *)
cufft_which(i, o) == \E s \in Directions, which \in Subsets(i) :
    Begins(i, o, Signs(which, s), <<Dft(which, i, o, s)>>)

Call ==
    \E io \in Operands :
        LET i == io[1]  o == io[2]
        IN  \/ fftw_dft(i, o) \/ fftw_which(i, o) \/ fftw_signs(i, o) \/ fftw_reuse(i, o)
            \/ many_dft("fftw", i, o)
            \/ i = o /\ (fftw_move(i) \/ fftw_transpose(i) \/ fftw_rotate(i))
            \/ cufft_dft(i, o) \/ cufft_which(i, o) \/ many_dft("cufft", i, o)

(***************************************************************************)
(* The steps of a call.                                                    *)
(***************************************************************************)
Init == /\ memory = Start
        /\ work = <<>>
        /\ call = <<>>
        /\ beyond = FALSE
        /\ outcome = "idle"

Step == Head(work)
At(kind) == outcome = "called" /\ work # <<>> /\ Step.step = kind

Continue(steps) == work' = steps \o Tail(work) /\ UNCHANGED <<call, beyond, outcome>>

Finish(how) == outcome' = how /\ UNCHANGED <<work, call, beyond>>

Serve == /\ At("ask")
         /\ Step.request # Stop
         /\ Crossed(Step.request) => Step.lib = "fftw"
         /\ Continue(<<>>)

NullPlan  == At("ask") /\ Step.lib = "fftw" /\ Crossed(Step.request) /\ Finish("stopped")
Assertion == At("ask") /\ Step.request = Stop /\ Finish("stopped")
Garbled   == At("ask") /\ Step.lib = "cufft" /\ Crossed(Step.request) /\ Finish("undefined")

AssignElements == At("assign") /\ Continue(<<>>)

(* Assignment of one view to another, apart from it or from a copy. *)
Assigned(i, o) ==
    LET pairs   == {<<Address(o, ix), Address(i, ix)>> : ix \in Whole(o)}
        written == {p[1] : p \in pairs}
    IN  [c \in Cells |-> IF c \in written THEN memory[(CHOOSE p \in pairs : p[1] = c)[2]]
                         ELSE memory[c]]

(* What the step that is taken leaves in memory. *)
Result == IF At("ask") /\ outcome' = "called" THEN Transform(Step.request, memory)
          ELSE IF At("assign") THEN Assigned(Step.in, Step.out)
          ELSE memory

Which == Step.which
Recurse(which, i, o) == Dft(which, i, o, Step.sign)
Turned(r) == Recurse(Turn(Which, r), RotateView(Step.in, r), RotateView(Step.out, r))
SomeFalse(w) == \E d \in DOMAIN w : ~w[d]
SomeTrue(w)  == \E d \in DOMAIN w : w[d]

(* A vector is transformed or assigned. *)
Vector == /\ At("dft") /\ Len(Which) = 1
          /\ Continue(<<IF Which[1] THEN Ask("cufft", PlanRequest(Step.in, Step.out, Step.sign))
                                    ELSE Assign(Step.in, Step.out)>>)

All == /\ At("dft") /\ Len(Which) > 1
       /\ ~SomeFalse(Which)
       /\ Continue(<<Ask("cufft", PlanRequest(Step.in, Step.out, Step.sign))>>)

(* Mutant: one turn too many. *)
FirstFalseLate(w) == CHOOSE d \in DOMAIN w : ~w[d] /\ \A e \in 1 .. d - 1 : w[e]

FirstFalse(w) == (CHOOSE d \in DOMAIN w : ~w[d] /\ \A e \in 1 .. d - 1 : w[e]) - 1

TurnToFirstFalse == /\ At("dft") /\ Len(Which) > 1
                    /\ Which[1] /\ SomeFalse(Which)
                    /\ Continue(<<Turned(FirstFalse(Which))>>)

None == /\ At("dft") /\ Len(Which) > 1
        /\ ~SomeTrue(Which)
        /\ LET copied == View(Scratch, LayoutOf(Extensions(Step.in.layout)))
           IN  Continue(IF ~InPlace(Step.in, Step.out) THEN <<Assign(Step.in, Step.out)>>
                        ELSE IF Step.in.layout = Step.out.layout THEN <<>>
                        ELSE <<Assign(Step.in, copied), Assign(copied, Step.out)>>)

Rows == /\ At("dft") /\ Len(Which) > 1
        /\ ~Which[1] /\ ~SomeFalse(Tail(Which))
        /\ Continue(<<Ask("cufft", ManyRequest(Begin(Step.in), End(Step.in), Begin(Step.out), Step.sign))>>)

Mixed == /\ At("dft") /\ Len(Which) > 1
         /\ ~Which[1] /\ SomeTrue(Which) /\ SomeFalse(Tail(Which))

Flattens == ~Which[2] /\ Flattable(Step.in) /\ Flattable(Step.out)

Flatten == Mixed /\ Flattens
           /\ Continue(<<Recurse(Tail(Which), FlatView(Step.in), FlatView(Step.out))>>)

(* The rows one by one, of a copy when their places are those of others. *)
EachRow ==
    LET copied == View(Scratch, LayoutOf(Extensions(Step.in.layout)))
        crossed == CrossedViews(Step.in, Step.out)
        from == IF crossed THEN copied ELSE Step.in
        row(n) == Recurse(Tail(Which), At1(from, n - 1), At1(Step.out, n - 1))
    IN  (IF crossed THEN <<Assign(Step.in, copied)>> ELSE <<>>)
            \o [n \in 1 .. Size(Head(Step.in.layout)) |-> row(n)]

Loop == /\ Mixed /\ ~Flattens
        /\ \E byte \in Beyond :
             LET search == Search(Which, Step.in, byte)
             IN  /\ work' = (IF search.d_min # 0 THEN <<Turned(search.d_min)>> ELSE EachRow)
                            \o Tail(work)
                 /\ beyond' = (beyond \/ search.beyond)
        /\ UNCHANGED <<call, outcome>>

Return == outcome = "called" /\ work = <<>> /\ Finish("returned")

Advance ==
    \/ Serve \/ NullPlan \/ Assertion \/ Garbled \/ AssignElements
    \/ Vector \/ All \/ TurnToFirstFalse \/ None \/ Rows \/ Flatten \/ Loop
    \/ Return

Next ==
    \/ outcome = "idle" /\ Call
    \/ Advance /\ memory' = Result

(* A call runs on one thread, which the system does not leave aside for ever. *)
Spec == Init /\ [][Next]_vars /\ WF_<<work, outcome>>(Advance)

(***************************************************************************)
(* Properties.                                                             *)
(***************************************************************************)

(* The transform by its definition, dimension by dimension, of the elements the views name. *)
Promised(ix) ==
    LET size(d) == Size(call.in.layout[d])
        others == {jx \in Whole(call.in) : \A d \in DOMAIN ix : call.signs[d] = none => jx[d] = ix[d]}
        turns(jx) == Dot([d \in DOMAIN ix |-> call.signs[d] * ix[d] * jx[d]],
                         [d \in DOMAIN ix |-> Period \div size(d)])
    IN  {Term(Address(call.in, jx), turns(jx)) : jx \in others}

(* A call that returns has left in its result the transform of its operand along the      *)
(* dimensions asked for, and in every other cell what was there, however the two lie in    *)
(* memory: no dimension is taken for another when the strides are sorted, the dimensions   *)
(* turned or two of them made one, and no row is read after it was overwritten.            *)
Computes == outcome = "returned" =>
    LET result == Elements(call.out)
    IN  /\ \A ix \in Whole(call.out) : memory[Address(call.out, ix)] = Promised(ix)
        /\ \A c \in (0 .. Scratch - 1) \ result : memory[c] = {Term(c, 0)}

(* Two operands that lie in memory alike are always taken: neither the assertions on the  *)
(* order and the divisibility of the strides nor the planner stops the call, on the sub-   *)
(* views the adaptor makes of them either.  When the elements of an array are to change    *)
(* places, cuFFT is not left to do it where the adaptor goes row by row: a copy is read.    *)
ServesAlike ==
    /\ outcome = "stopped" => call.in.layout # call.out.layout
    /\ outcome = "undefined" =>
           /\ CrossedViews(call.in, call.out)
           /\ ~(/\ Rank(call.in) = 3 /\ call.signs[1] = none
                /\ call.signs[2] = none \/ call.signs[3] = none)

(* Every call ends: turning to the smallest dimension and to the first one that is not    *)
(* transformed does not go around in circles, unless the search has read past the end.    *)
Terminates == (outcome = "called") ~> (outcome \notin {"idle", "called"} \/ beyond)

=============================================================================
