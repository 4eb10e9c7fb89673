----------------------------- MODULE MpiLibrary -----------------------------
(***************************************************************************)
(* What adaptors/fftw/mpi expects of FFTW-MPI: how the rows of a matrix    *)
(* are shared among processes in blocks, and a transposition between two   *)
(* such distributions, which moves every element from the buffer of one    *)
(* process to that of another.                                             *)
(***************************************************************************)
EXTENDS Integers, FiniteSets

CONSTANT Processes      \* how many

ASSUME ProcessesAssumption == Processes \in Nat \ {0}

Ranks == 0 .. Processes - 1

Least(m, n) == IF m < n THEN m ELSE n

(* FFTW_MPI_DEFAULT_BLOCK *)
DefaultBlock(n) == (n + Processes - 1) \div Processes

Begins(n, block, r) == Least(n, r * block)
Share(n, block, r)  == Begins(n, block, r) .. Begins(n, block, r + 1) - 1
Owner(n, block, i)  == CHOOSE r \in Ranks : i \in Share(n, block, r)

(***************************************************************************)
(* A plan t turns an n0 x n1 matrix whose rows are shared in blocks of     *)
(* block0 into its transpose, whose rows, the columns before, are shared   *)
(* in blocks of block1.  With in_turned or out_turned a process keeps its  *)
(* part column after column.                                               *)
(***************************************************************************)
Plan(n0, n1, block0, block1, in_turned, out_turned) ==
    [n0 |-> n0, n1 |-> n1, block0 |-> block0, block1 |-> block1,
     in_turned |-> in_turned, out_turned |-> out_turned]

InCell(t, i, j) ==
    LET q == Owner(t.n0, t.block0, i)
        local == i - Begins(t.n0, t.block0, q)
    IN  IF t.in_turned THEN j * Cardinality(Share(t.n0, t.block0, q)) + local ELSE local * t.n1 + j

OutCell(t, i, j) ==
    LET p == Owner(t.n1, t.block1, j)
        local == j - Begins(t.n1, t.block1, p)
    IN  IF t.out_turned THEN i * Cardinality(Share(t.n1, t.block1, p)) + local ELSE local * t.n0 + i

(* What process p finds in its buffer, from the buffers of all. *)
Transposed(t, buffers, p, buffer) ==
    LET moved == {<<OutCell(t, i, j), buffers[Owner(t.n0, t.block0, i)][InCell(t, i, j)]>> :
                      i \in 0 .. t.n0 - 1, j \in Share(t.n1, t.block1, p)}
        cells == {m[1] : m \in moved}
    IN  [c \in DOMAIN buffer |-> IF c \in cells THEN (CHOOSE m \in moved : m[1] = c)[2] ELSE buffer[c]]

(* The processes p cannot do without. *)
Senders(t, p) ==
    IF Share(t.n1, t.block1, p) = {} THEN {}
    ELSE {q \in Ranks : Share(t.n0, t.block0, q) # {}}

=============================================================================
