----------------------------- MODULE Monotonic ------------------------------
(***************************************************************************)
(* memory/monotonic.hpp: class monotonic, a resource that only moves       *)
(* forward through a buffer it is given (memory/block.hpp) and reclaims    *)
(* nothing until reset().                                                  *)
(***************************************************************************)
EXTENDS Blocks

CONSTANTS
  Start,       \* start_, the address of the buffer
  Size,        \* size_, its bytes
  Sizes,       \* the sizes clients request
  Aligns,      \* the alignments clients request
  Foreign      \* blocks of other resources a client may try to give back

VARIABLES
  position_,   \* the first free address
  live         \* the blocks clients hold (a history variable)

mvars == <<position_, live>>

MonotonicTypeOK ==
  /\ position_ \in Start .. Start + Size
  /\ live \subseteq [p : Nat, n : Sizes]

Init == position_ = Start /\ live = {}

Owns(p) == Contains(Start, Size, p)

(* allocate() when the block fits behind position_ ...                     *)
Fits(n, align) == Contains(Start, Size, AlignUp(position_, align) + n - 1)

(* Mutant: position_ moves by the request, not past the padding.           *)
AllocateNoPadding(n, align) ==
  /\ Fits(n, align)
  /\ position_' = position_ + n
  /\ live' = live \cup {Block(AlignUp(position_, align), n)}

Advance(n, align) ==
  /\ Fits(n, align)
  /\ position_' = AlignUp(position_, align) + n

Allocate(n, align) ==
  /\ Advance(n, align)
  /\ live' = live \cup {Block(AlignUp(position_, align), n)}

(* ... and when it throws overflow instead, changing nothing.              *)
Overflow(n, align) == ~ Fits(n, align) /\ UNCHANGED mvars

(* deallocate() of an owned pointer keeps position_; of any other pointer  *)
(* it throws bad_alloc.                                                    *)
Deallocate(b) == Owns(b.p) /\ live' = live \ {b} /\ UNCHANGED position_
DeallocateThrows(b) == ~ Owns(b.p) /\ UNCHANGED mvars

(* reset() rewinds the buffer.  It asks nothing; a client may call it only *)
(* when it holds no block of the resource any more.                        *)
Reset == live = {} /\ position_' = Start /\ UNCHANGED live

Next ==
  \/ \E n \in Sizes, align \in Aligns : Allocate(n, align) \/ Overflow(n, align)
  \/ \E b \in live : Deallocate(b)
  \/ \E b \in Foreign : DeallocateThrows(b)
  \/ Reset

Spec == Init /\ [][Next]_mvars

-----------------------------------------------------------------------------
(* Every block a client holds lies before position_, so no later           *)
(* allocation can reach into it (monotonic::allocate, reset).              *)
BehindPosition == \A b \in live : Start <= b.p /\ End(b) <= position_

(* No two blocks clients hold share a byte (monotonic::allocate).          *)
LiveApart == \A b, c \in live : b # c => Apart(b, c)

(* The monotonic resource implements the abstract one on the addresses of  *)
(* its buffer: what allocate() returns is aligned, inside the buffer and   *)
(* overlaps no block still held.                                           *)
Abstract == INSTANCE Resource WITH Addresses <- Start .. Start + Size - 1
ImplementsResource == Abstract!Spec
=============================================================================
