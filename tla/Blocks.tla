------------------------------- MODULE Blocks -------------------------------
(***************************************************************************)
(* Addresses and blocks of memory, the data the memory resources of        *)
(* memory/*.hpp work on.  An address is an integer (the code's T* seen as  *)
(* a uintptr_t), a block is what one call of allocate() returned: its      *)
(* first address p and the number n of bytes that were requested.          *)
(***************************************************************************)
EXTENDS Integers

(* memory/monotonic.hpp align_up: (p + (align-1)) & ~(align-1).  For the   *)
(* alignments that exist (powers of two) the mask clears the remainder     *)
(* modulo align.                                                           *)
AlignUp(p, align) ==
  LET q == p + (align - 1) IN q - (q % align)

(* Mutant: the end of the block belongs to it.                             *)
ContainsEnd(start, size, p) == p - start >= 0 /\ p - start <= size

(* memory/block.hpp basic_block::contains.                                 *)
Contains(start, size, p) ==
  LET d == p - start IN d >= 0 /\ d < size

Block(p, n) == [p |-> p, n |-> n]

(* One past the last byte of a block.                                      *)
End(b) == b.p + b.n

(* Two blocks share no byte.                                               *)
Apart(b, c) == End(b) <= c.p \/ End(c) <= b.p
=============================================================================
