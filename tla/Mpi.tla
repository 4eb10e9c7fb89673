-------------------------------- MODULE Mpi --------------------------------
(***************************************************************************)
(* Matrices scattered by rows over processes (adaptors/fftw/mpi.hpp and    *)
(* mpi/scattered_array.hpp).  Every process runs the same program at its   *)
(* own pace; in a collective operation it hands over its part and goes on  *)
(* once it has what it needs of the others, so that one process may be     *)
(* several operations ahead of another.                                    *)
(*                                                                         *)
(* a and b are scattered, g is gathered on the first process, and every    *)
(* process has a replica of a whole matrix.                                *)
(***************************************************************************)
EXTENDS MpiLibrary, Sequences, SequencesExt

CONSTANTS
    Extents,     \* rows and columns of the matrices
    Programs,    \* what the processes run: sequences of steps
    Ragged       \* does a process clear its replica alone?

Steps == {"duplicate", "gather", "scatter", "copy", "equal", "replicate", "restore",
          "equalWhole", "transform", "fill", "writeRoot", "clear"}

ASSUME ExtentsAssumption  == \A xs \in Extents : xs[1] \in Nat \ {0} /\ xs[2] \in Nat \ {0}
ASSUME ProgramsAssumption == Programs \subseteq Seq(Steps)

VARIABLES
    extents,     \* of every matrix
    script,      \* the program: its collective and local steps, in order
    whole,       \* ghost: the matrices a single process would have after each step
    memory,      \* of every process: a, b and g as flat buffers, replica, and answer
    done,        \* steps each process is through
    inside,      \* has it handed over its part of the next one?
    sent         \* what it handed over, step by step

vars == <<extents, script, whole, memory, done, inside, sent>>

rows == extents[1]
cols == extents[2]
Elements == (0 .. rows - 1) \X (0 .. cols - 1)

(***************************************************************************)
(* The steps a process takes alone.  All the others are collective, a      *)
(* communicator for a new matrix among them.                               *)
(***************************************************************************)
IsLocal(step) == step \in {"copy", "restore", "fill", "writeRoot", "clear"}

(***************************************************************************)
(* The parts.                                                              *)
(***************************************************************************)
LocalRows(p) == Share(rows, DefaultBlock(rows), p)

(* The place of an element in the buffer of local_cutout. *)
Cell(p, i, j) == (i - Begins(rows, DefaultBlock(rows), p)) * cols + j

Part(p, buffer) == [ij \in LocalRows(p) \X (0 .. cols - 1) |-> buffer[Cell(p, ij[1], ij[2])]]
PartOf(p, matrix) == [ij \in LocalRows(p) \X (0 .. cols - 1) |-> matrix[ij]]

WithPart(p, buffer, matrix) ==
    [c \in DOMAIN buffer |->
        IF \E ij \in LocalRows(p) \X (0 .. cols - 1) : Cell(p, ij[1], ij[2]) = c
        THEN matrix[CHOOSE ij \in LocalRows(p) \X (0 .. cols - 1) : Cell(p, ij[1], ij[2]) = c]
        ELSE buffer[c]]

(* Mutant: the columns go to the processes in blocks, as the rows do. *)
GatherPlanOfBlocks == Plan(rows, cols, DefaultBlock(rows), DefaultBlock(cols), FALSE, TRUE)

GatherPlan == Plan(rows, cols, DefaultBlock(rows), cols, FALSE, TRUE)
ScatterPlan == Plan(cols, rows, cols, DefaultBlock(rows), TRUE, FALSE)

(* A transform stands for any function of all the rows of a column. *)
Column(matrix, j) == FoldLeft(LAMBDA sum, i : sum + matrix[<<i - 1, j>>], 0, [i \in 1 .. rows |-> i])
Transform(matrix) == [ij \in Elements |-> Column(matrix, ij[2]) + ij[1]]

Numbered(n) == [ij \in Elements |-> n + ij[1] * cols + ij[2]]
Root == 0
Cleared == <<>>     \* a replica without elements

(***************************************************************************)
(* The program on one process.                                             *)
(***************************************************************************)
Once(step, w) ==
    CASE step = "duplicate"  -> w
      [] step = "gather"     -> [w EXCEPT !.g = w.a]
      [] step = "scatter"    -> [w EXCEPT !.b = w.g]
      [] step = "copy"       -> [w EXCEPT !.b = w.a]
      [] step = "equal"      -> [w EXCEPT !.answer = (w.a = w.b)]
      [] step = "replicate"  -> [w EXCEPT !.replica = w.a]
      [] step = "restore"    -> [w EXCEPT !.b = w.replica]
      [] step = "equalWhole" -> [w EXCEPT !.answer = (w.a = w.replica)]
      [] step = "transform"  -> [w EXCEPT !.b = Transform(w.a)]
      [] step = "fill"       -> [w EXCEPT !.a = Numbered(10)]
      [] step = "writeRoot"  -> [w EXCEPT !.g = [@ EXCEPT ![<<rows - 1, 0>>] = 20]]
      [] step = "clear"      -> [w EXCEPT !.replica = Cleared]

Start == [a |-> Numbered(0), b |-> Numbered(10), g |-> Numbered(10), replica |-> Numbered(0),
          answer |-> FALSE]

Run(steps) ==
    LET after[k \in 0 .. Len(steps)] == IF k = 0 THEN Start ELSE Once(steps[k], after[k - 1])
    IN  after

(* Every buffer is as long as a matrix: local_count is at least the part of the process. *)
Buffer == [c \in 0 .. rows * cols - 1 |-> -1]
WholeBuffer(matrix) == [c \in DOMAIN Buffer |-> matrix[<<c \div cols, c % cols>>]]

Init ==
    /\ extents \in Extents
    /\ script \in Programs
    /\ whole = Run(script)
    \* A replica without elements is not restored: that ends in assert(0).
    /\ \A k \in DOMAIN script : script[k] = "restore" => whole[k - 1].replica # Cleared
    /\ memory = [p \in Ranks |-> [a       |-> WithPart(p, Buffer, Start.a),
                                  b       |-> WithPart(p, Buffer, Start.b),
                                  g       |-> IF p = Root THEN WholeBuffer(Start.g) ELSE Buffer,
                                  replica |-> Start.replica,
                                  answer  |-> Start.answer]]
    /\ done = [p \in Ranks |-> 0]
    /\ inside = [p \in Ranks |-> FALSE]
    /\ sent = [k \in 1 .. Len(script) |-> [p \in Ranks |-> <<>>]]

(***************************************************************************)
(* The program on many.                                                    *)
(***************************************************************************)
Step(p) == script[done[p] + 1]
Running(p) == done[p] < Len(script)

(* Mutant: processes whose parts differ know the answer without the others. *)
AnswersUnequal(p) ==
    \/ Step(p) = "equalWhole" /\ memory[p].replica = Cleared
    \/ Step(p) = "equal" /\ Part(p, memory[p].a) # Part(p, memory[p].b)

(* A replica of other extents is unequal, and the process returns before the reduction. *)
AnswersAlone(p) == Step(p) = "equalWhole" /\ memory[p].replica = Cleared

Handed(p) ==
    LET m == memory[p]
    IN  CASE Step(p) = "duplicate"  -> <<"here">>
          [] Step(p) = "gather"     -> m.a
          [] Step(p) = "scatter"    -> m.g
          [] Step(p) = "equal"      -> <<Part(p, m.a) = Part(p, m.b)>>
          [] Step(p) = "replicate"  -> m.a
          [] Step(p) = "equalWhole" -> <<Part(p, m.a) = PartOf(p, m.replica)>>
          [] Step(p) = "transform"  -> m.a

Needs(p) ==
    CASE Step(p) = "gather"    -> Senders(GatherPlan, p)
      [] Step(p) = "scatter"   -> Senders(ScatterPlan, p)
      [] Step(p) = "transform" -> {q \in Ranks : LocalRows(p) # {} /\ LocalRows(q) # {}}
      [] Step(p) = "replicate" -> {q \in Ranks : LocalRows(q) # {}}
      [] OTHER                 -> Ranks

(* The parts of a matrix, each from the process that owns it. *)
Assembled(parts) == [ij \in Elements |-> LET q == Owner(rows, DefaultBlock(rows), ij[1])
                                        IN  parts[q][Cell(q, ij[1], ij[2])]]

Received(p) ==
    LET m == memory[p]
        parts == sent[done[p] + 1]
    IN  CASE Step(p) = "duplicate" -> m
          [] Step(p) = "gather"    -> [m EXCEPT !.g = Transposed(GatherPlan, parts, p, Buffer)]
          [] Step(p) = "scatter"   -> [m EXCEPT !.b = Transposed(ScatterPlan, parts, p, Buffer)]
          [] Step(p) = "transform" -> IF LocalRows(p) = {} THEN m
                                      ELSE [m EXCEPT !.b = WithPart(p, @, Transform(Assembled(parts)))]
          [] Step(p) = "replicate" -> [m EXCEPT !.replica = Assembled(parts)]
          [] Step(p) \in {"equal", "equalWhole"} ->
                 [m EXCEPT !.answer = \A q \in Ranks : parts[q] = <<TRUE>>]

Locally(p) ==
    LET m == memory[p]
    IN  CASE Step(p) = "copy"      -> [m EXCEPT !.b = WithPart(p, @, [ij \in Elements |->
                                          IF ij[1] \in LocalRows(p) THEN m.a[Cell(p, ij[1], ij[2])] ELSE 0])]
          [] Step(p) = "restore"   -> [m EXCEPT !.b = WithPart(p, @, m.replica)]
          [] Step(p) = "fill"      -> [m EXCEPT !.a = WithPart(p, @, Numbered(10))]
          [] Step(p) = "writeRoot" -> IF p = Root THEN [m EXCEPT !.g = [@ EXCEPT ![(rows - 1) * cols] = 20]]
                                      ELSE m
          [] Step(p) = "clear"     -> IF Ragged /\ p # Root THEN m ELSE [m EXCEPT !.replica = Cleared]

Continue(p, m) ==
    /\ memory' = [memory EXCEPT ![p] = m]
    /\ done' = [done EXCEPT ![p] = @ + 1]
    /\ UNCHANGED <<extents, script, whole>>

Local(p) ==
    /\ Running(p) /\ IsLocal(Step(p))
    /\ Continue(p, Locally(p))
    /\ UNCHANGED <<inside, sent>>

ReturnEarly(p) ==
    /\ Running(p) /\ ~inside[p] /\ AnswersAlone(p)
    /\ Continue(p, [memory[p] EXCEPT !.answer = FALSE])
    /\ UNCHANGED <<inside, sent>>

Enter(p) ==
    /\ Running(p) /\ ~inside[p] /\ ~IsLocal(Step(p)) /\ ~AnswersAlone(p)
    /\ inside' = [inside EXCEPT ![p] = TRUE]
    /\ sent' = [sent EXCEPT ![done[p] + 1] = [@ EXCEPT ![p] = Handed(p)]]
    /\ UNCHANGED <<extents, script, whole, memory, done>>

Leave(p) ==
    /\ inside[p]
    /\ \A q \in Needs(p) : sent[done[p] + 1][q] # <<>>
    /\ Continue(p, Received(p))
    /\ inside' = [inside EXCEPT ![p] = FALSE]
    /\ UNCHANGED sent

Advance(p) == Local(p) \/ ReturnEarly(p) \/ Enter(p) \/ Leave(p)

Next == \E p \in Ranks : Advance(p)

(* Every process runs; how fast is left open. *)
Spec == Init /\ [][Next]_vars /\ \A p \in Ranks : WF_vars(Advance(p))

(***************************************************************************)
(* Properties.                                                             *)
(***************************************************************************)

(* However far the processes are apart, each has of every matrix the rows it would be     *)
(* dealt if a single process had run the program up to where it is, the first one all of   *)
(* the gathered matrix, and all of them the same answers: a gather or a scatter puts each  *)
(* element where it belongs, rows written after a process handed them over are not seen,   *)
(* and a process without rows answers for none.                                             *)
SharesOfWhole == \A p \in Ranks :
    LET w == whole[done[p]]
        m == memory[p]
    IN  /\ Part(p, m.a) = PartOf(p, w.a)
        /\ Part(p, m.b) = PartOf(p, w.b)
        /\ p = Root => m.g = WholeBuffer(w.g)
        /\ m.replica = w.replica
        /\ m.answer = w.answer

(* A process with work left can hand over its part, go on alone, or has what it needs of the others. *)
CanAdvance(p) ==
    /\ Running(p)
    /\ inside[p] => \A q \in Needs(p) : sent[done[p] + 1][q] # <<>>

(* At no time does every process that is not through wait for the part of another: none has *)
(* returned from a collective operation without handing over what others still need.        *)
NoDeadlock == (\A p \in Ranks : ~Running(p)) \/ \E p \in Ranks : CanAdvance(p)

(* Every process gets to the end of the program: none waits for a part that another, which *)
(* has returned from the same operation or has no rows, never hands over.                   *)
Finishes == \A p \in Ranks : <>(done[p] = Len(script))

=============================================================================
