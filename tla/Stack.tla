------------------------------- MODULE Stack --------------------------------
(***************************************************************************)
(* memory/stack.hpp: class stack, a monotonic resource that also keeps the *)
(* pointers it handed out (positions_) and takes the last one back, by     *)
(* moving position_ down by the size the client declares.  The assertion   *)
(* "stack violation" is compiled in (a debug build): a client that returns *)
(* another block than the last one ends the program.                       *)
(***************************************************************************)
EXTENDS Blocks, Sequences

CONSTANTS
  Start,        \* start_, the address of the buffer
  Size,         \* size_, its bytes
  Sizes,        \* the sizes clients request
  Aligns,       \* the alignments clients request
  Foreign,      \* blocks of other resources a client may try to give back
  MaxRequested  \* bound of the byte counters

(* Clients never request zero bytes: array_allocator::allocate (array.hpp) *)
(* answers 0 without asking the resource, std::vector never asks.          *)
ASSUME StackAssumption ==
  /\ Start \in Nat
  /\ Size \in Nat
  /\ Sizes \subseteq Nat \ {0}
  /\ Aligns \subseteq Nat \ {0}
  /\ Foreign \subseteq [p : Nat, n : Nat]
  /\ \A b \in Foreign : b.p \notin Start .. Start + Size - 1
  /\ MaxRequested \in Nat

VARIABLES
  position_,         \* the first free address (monotonic)
  live,              \* the blocks clients hold (a history variable)
  positions_,        \* the pointers handed out, the last one on top
  total_requested_,  \* bytes requested so far, failed requests included
  total_discarded_,  \* bytes given back so far
  max_needed_,       \* the largest difference of the two
  hits_,             \* calls of allocate() that returned
  aborted,           \* the assertion failed
  stranded           \* bytes of the buffer taken by requests that threw (history)

(* class stack : protected monotonic.                                      *)
Base == INSTANCE Monotonic

counters == <<total_requested_, total_discarded_, max_needed_, hits_>>
svars == <<position_, live, positions_, counters, aborted, stranded>>

Bigger(x, y) == IF x < y THEN y ELSE x

TypeOK ==
  /\ Base!MonotonicTypeOK
  /\ positions_ \in Seq(Nat)
  /\ total_requested_ \in 0 .. MaxRequested
  /\ total_discarded_ \in 0 .. MaxRequested
  /\ max_needed_ \in 0 .. MaxRequested
  /\ hits_ \in Nat
  /\ aborted \in BOOLEAN
  /\ stranded \in Nat

Init ==
  /\ Base!Init
  /\ positions_ = <<>>
  /\ total_requested_ = 0
  /\ total_discarded_ = 0
  /\ max_needed_ = 0
  /\ hits_ = 0
  /\ aborted = FALSE
  /\ stranded = 0

(* Mutant: front() for top().                                              *)
Bottom == positions_[1]

Top == positions_[Len(positions_)]

(* Mutant: the maximum is taken before the request is added.               *)
ChargeLate(n) ==
  /\ ~ aborted
  /\ total_requested_ + n <= MaxRequested
  /\ max_needed_' = Bigger(max_needed_, total_requested_ - total_discarded_)
  /\ total_requested_' = total_requested_ + n
  /\ UNCHANGED <<total_discarded_, aborted>>

(* The first two statements of allocate(), done before the buffer is tried *)
(* and not undone when it throws.                                          *)
Charge(n) ==
  /\ ~ aborted
  /\ total_requested_ + n <= MaxRequested
  /\ total_requested_' = total_requested_ + n
  /\ max_needed_' = Bigger(max_needed_, total_requested_' - total_discarded_)
  /\ UNCHANGED <<total_discarded_, aborted>>

(* Mutant: remembers position_ and not the pointer returned.               *)
AllocatePushesPosition(n, align) ==
  /\ Charge(n)
  /\ Base!Allocate(n, align)
  /\ positions_' = Append(positions_, position_)
  /\ hits_' = hits_ + 1
  /\ UNCHANGED stranded

Allocate(n, align) ==
  /\ Charge(n)
  /\ Base!Allocate(n, align)
  /\ positions_' = Append(positions_, AlignUp(position_, align))
  /\ hits_' = hits_ + 1
  /\ UNCHANGED stranded

(* The buffer has no room: the counters have changed and nothing else.     *)
AllocateThrows(n, align) ==
  /\ Charge(n)
  /\ Base!Overflow(n, align)
  /\ UNCHANGED <<positions_, hits_, stranded>>

(* The buffer has room, but positions_.push has none for its entry and     *)
(* throws (a std::deque asks for memory when its last chunk is full, which *)
(* depends on the library): position_ has moved and stays where it is, the *)
(* block is no client's and nobody can give it back.                       *)
PushThrows(n, align) ==
  /\ Charge(n)
  /\ Base!Advance(n, align)
  /\ stranded' = stranded + n
  /\ UNCHANGED <<live, positions_, hits_>>

(* The first statement of deallocate(), also before any test.              *)
Discard(n) ==
  /\ ~ aborted
  /\ total_discarded_ + n <= MaxRequested
  /\ total_discarded_' = total_discarded_ + n
  /\ UNCHANGED <<total_requested_, max_needed_, hits_, stranded>>

(* Mutant: no assertion.                                                   *)
DeallocateAny(b) ==
  /\ Discard(b.n)
  /\ Base!Owns(b.p)
  /\ position_' = position_ - b.n
  /\ positions_' = SubSeq(positions_, 1, Len(positions_) - 1)
  /\ live' = live \ {b}
  /\ UNCHANGED aborted

(* Mutant: the base class takes the bytes back, too.                       *)
DeallocateTwice(b) ==
  /\ Discard(b.n)
  /\ Base!Owns(b.p)
  /\ b.p = Top
  /\ position_' = position_ - 2 * b.n
  /\ positions_' = SubSeq(positions_, 1, Len(positions_) - 1)
  /\ live' = live \ {b}
  /\ UNCHANGED aborted

DeallocateTop(b) ==
  /\ Discard(b.n)
  /\ Base!Owns(b.p)
  /\ b.p = Top
  /\ position_' = position_ - b.n
  /\ positions_' = SubSeq(positions_, 1, Len(positions_) - 1)
  /\ live' = live \ {b}
  /\ UNCHANGED aborted

StackViolation(b) ==
  /\ Discard(b.n)
  /\ Base!Owns(b.p)
  /\ b.p # Top
  /\ aborted' = TRUE
  /\ UNCHANGED <<position_, positions_, live>>

(* Mutant: counts only what was taken back.                                *)
DeallocateUncounted(b) == ~ Base!Owns(b.p) /\ UNCHANGED svars

(* monotonic::deallocate throws bad_alloc: only the counter has changed.   *)
DeallocateThrows(b) ==
  /\ Discard(b.n)
  /\ ~ Base!Owns(b.p)
  /\ UNCHANGED <<position_, positions_, live, aborted>>

Deallocate(b) == DeallocateTop(b) \/ StackViolation(b) \/ DeallocateThrows(b)

(* Clients may return the blocks they hold in any order, and may mistake a *)
(* block of another resource for one of this one.                          *)
Next ==
  \/ \E n \in Sizes, align \in Aligns :
        Allocate(n, align) \/ AllocateThrows(n, align) \/ PushThrows(n, align)
  \/ \E b \in live : DeallocateTop(b) \/ StackViolation(b)
  \/ \E b \in Foreign : DeallocateThrows(b)

Spec == Init /\ [][Next]_svars

-----------------------------------------------------------------------------
(* Whatever order clients return blocks in, as long as the assertion       *)
(* stands guard no two blocks they hold share a byte: position_ -= n never *)
(* moves below a block still held (stack::deallocate).                     *)
LiveApart == \A b, c \in live : b # c => Apart(b, c)

(* The bookkeeping agrees with the clients: positions_ holds exactly the   *)
(* pointers of the held blocks, in the order of their addresses.           *)
PositionsMatch ==
  /\ {positions_[i] : i \in DOMAIN positions_} = {b.p : b \in live}
  /\ \A i, j \in DOMAIN positions_ : i < j => positions_[i] < positions_[j]

(* A client that returns the last block it was given never trips the       *)
(* assertion: a violation needs a block below another one.                 *)
ViolationNeedsOlderBlock ==
  [][aborted' # aborted =>
       \E b, c \in live : b.p < c.p /\ total_discarded_' = total_discarded_ + b.n]_svars

(* max_needed_ is what fallback.hpp's examples size the next buffer with:  *)
(* when every size is a multiple of every alignment, the buffer has never  *)
(* been used beyond max_needed_ bytes and those that throwing pushes took: *)
(* below a fallback these are counted as the other resource's, and leave   *)
(* the counters with its block (stack.hpp:38-40, fallback.hpp:60-66).      *)
NoPadding ==
  \A align \in Aligns :
    /\ Start % align = 0
    /\ \A n \in Sizes : n % align = 0
HighWater == NoPadding => position_ - Start <= max_needed_ + stranded

(* The stack resource implements the abstract one on its buffer.           *)
Abstract == INSTANCE Resource WITH Addresses <- Start .. Start + Size - 1
ImplementsResource == Abstract!Spec
=============================================================================
