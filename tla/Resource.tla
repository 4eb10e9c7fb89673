------------------------------ MODULE Resource ------------------------------
(***************************************************************************)
(* What every memory resource of the library promises its clients,         *)
(* whatever its strategy: a call of allocate(n, align) that returns gives  *)
(* n bytes at a multiple of align, inside the storage the resource owns    *)
(* and overlapping no block a client still holds; a block is held until it *)
(* is given back.  A call that throws is a stuttering step.                *)
(*                                                                         *)
(* The concrete resources (Monotonic, Stack, Fallback) implement this      *)
(* specification; the external resources they fall back on are assumed to. *)
(***************************************************************************)
EXTENDS Blocks

CONSTANTS
  Addresses,   \* the bytes this resource may hand out
  Sizes,       \* the sizes clients request
  Aligns       \* the alignments clients request

VARIABLE
  live         \* the blocks clients hold

Init == live = {}

(* allocate(n, align) returns p.                                           *)
AllocateAt(p, n, align) ==
  /\ p % align = 0
  /\ p .. End(Block(p, n)) - 1 \subseteq Addresses
  /\ \A b \in live : Apart(Block(p, n), b)
  /\ live' = live \cup {Block(p, n)}

Allocate(n, align) == \E p \in Addresses : AllocateAt(p, n, align)

(* deallocate(b.p, b.n).                                                   *)
Deallocate(b) == b \in live /\ live' = live \ {b}

Next ==
  \/ \E n \in Sizes, align \in Aligns : Allocate(n, align)
  \/ \E b \in live : Deallocate(b)

Spec == Init /\ [][Next]_live
=============================================================================
