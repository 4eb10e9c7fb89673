--------------------------- MODULE FallbackProofs ---------------------------
(***************************************************************************)
(* Theorems about the stack resource, for every buffer, every set of sizes *)
(* and alignments, and clients that return blocks in any order; and, after *)
(* them, about a stack resource that falls back on another one that keeps  *)
(* its promise outside the buffer, whose clients return the blocks of both *)
(* in any order.                                                           *)
(***************************************************************************)
EXTENDS Fallback, FiniteSetTheorems, TLAPS

(* What align_up (memory/monotonic.hpp) returns: the least multiple of the *)
(* alignment that is not before the address.                               *)
LEMMA AlignUpFacts ==
  ASSUME NEW p \in Nat, NEW align \in Nat \ {0}
  PROVE  /\ AlignUp(p, align) \in Nat
         /\ p <= AlignUp(p, align)
         /\ AlignUp(p, align) < p + align
         /\ AlignUp(p, align) % align = 0
<1> DEFINE q == p + (align - 1)
<1>1. q \in Nat /\ q % align \in 0 .. align - 1
  OBVIOUS
<1>2. AlignUp(p, align) = q - (q % align)
  BY DEF AlignUp
<1>3. q = align * (q \div align) + (q % align) /\ q \div align \in Int
  BY <1>1
<1>4. (q - (q % align)) % align = 0
  <2>1. q - (q % align) = align * (q \div align)
    BY <1>1, <1>3
  <2>2. \A k \in Int : (align * k) % align = 0
    OBVIOUS
  <2> QED BY <1>3, <2>1, <2>2
<1> QED BY <1>1, <1>2, <1>4
-----------------------------------------------------------------------------
(* The inductive invariant: the stack discipline seen from the buffer.     *)
(* Held blocks lie behind position_, share no byte, and positions_ lists   *)
(* them by address, so the block on top is the highest one and everything  *)
(* else ends before it.                                                    *)
IInv ==
  /\ TypeOK
  /\ PositionsMatch
  /\ LiveApart
  /\ Base!BehindPosition

USE StackAssumption DEF End, Base!End, Block, Base!Block, Contains, Base!Contains

(* The base class reads the same memory layout.                            *)
LEMMA SameAlignUp == \A p, align : Base!AlignUp(p, align) = AlignUp(p, align)
BY DEF AlignUp, Base!AlignUp

LEMMA InitInv == Init => IInv
<1> SUFFICES ASSUME Init PROVE IInv
  OBVIOUS
<1> USE DEF Init, Base!Init
<1>1. TypeOK
  <2>1. Base!MonotonicTypeOK
    BY DEF Base!MonotonicTypeOK
  <2>2. 0 \in 0 .. MaxRequested /\ positions_ \in Seq(Nat)
    OBVIOUS
  <2> QED BY <2>1, <2>2 DEF TypeOK
<1>2. DOMAIN positions_ = {}
  OBVIOUS
<1>3. PositionsMatch
  BY <1>2 DEF PositionsMatch
<1>4. LiveApart /\ Base!BehindPosition
  BY DEF LiveApart, Base!BehindPosition
<1> QED BY <1>1, <1>3, <1>4 DEF IInv

(* What the invariant says of one held block.                              *)
LEMMA BlockFacts ==
  ASSUME IInv, NEW b \in live
  PROVE  /\ b.p \in Nat /\ b.n \in Sizes /\ b.n \in Nat \ {0}
         /\ Start <= b.p /\ End(b) \in Nat /\ End(b) <= position_
         /\ position_ \in Nat /\ position_ <= Start + Size
<1>1. b \in [p : Nat, n : Sizes] /\ position_ \in Start .. Start + Size
  BY DEF IInv, TypeOK, Base!MonotonicTypeOK
<1>2. b.p \in Nat /\ b.n \in Sizes
  BY <1>1
<1>3. b.n \in Nat \ {0}
  BY <1>2
<1> QED BY <1>1, <1>2, <1>3 DEF IInv, Base!BehindPosition

(* Blocks that are held are distinguished by their addresses.              *)
LEMMA AddressesDistinct ==
  ASSUME IInv, NEW b \in live, NEW c \in live, b # c
  PROVE  b.p # c.p
BY BlockFacts DEF IInv, LiveApart, Apart

(* A held block other than the top one ends before the top one starts.     *)
LEMMA TopIsHighest ==
  ASSUME IInv, NEW b \in live, b.p = Top
  PROVE  /\ Len(positions_) \in Nat \ {0}
         /\ \A c \in live : c # b => c.p < b.p /\ End(c) <= b.p
<1>1. Len(positions_) \in Nat /\ DOMAIN positions_ = 1 .. Len(positions_)
      /\ \A k \in DOMAIN positions_ : positions_[k] \in Nat
  BY DEF IInv, TypeOK
<1>2. Len(positions_) # 0
  BY <1>1 DEF IInv, PositionsMatch
<1>3. ASSUME NEW c \in live, c # b
      PROVE  c.p < b.p /\ End(c) <= b.p
  <2>1. PICK i \in DOMAIN positions_ : positions_[i] = c.p
    BY DEF IInv, PositionsMatch
  <2>2. positions_[i] # positions_[Len(positions_)]
    BY <1>3, <2>1, AddressesDistinct DEF Top
  <2>3. i < Len(positions_) /\ Len(positions_) \in DOMAIN positions_
    BY <1>1, <1>2, <2>1, <2>2
  <2>4. c.p < b.p
    BY <2>1, <2>3 DEF IInv, PositionsMatch, Top
  <2>5. Apart(c, b)
    BY <1>3 DEF IInv, LiveApart
  <2>6. b.p \in Nat /\ b.n \in Nat /\ c.p \in Nat /\ c.n \in Nat
    BY BlockFacts
  <2> QED BY <2>4, <2>5, <2>6 DEF Apart
<1> QED BY <1>1, <1>2, <1>3

(* position_ moves forward, inside the buffer.                             *)
LEMMA AdvanceFacts ==
  ASSUME IInv, NEW n \in Sizes, NEW align \in Aligns, Base!Advance(n, align)
  PROVE  /\ position_ \in Nat /\ AlignUp(position_, align) \in Nat /\ n \in Nat \ {0}
         /\ position_ <= AlignUp(position_, align)
         /\ AlignUp(position_, align) % align = 0
         /\ position_' = AlignUp(position_, align) + n
         /\ position_' <= Start + Size
<1>1. /\ position_ \in Nat /\ Start <= position_
      /\ n \in Nat \ {0} /\ align \in Nat \ {0}
  BY DEF IInv, TypeOK, Base!MonotonicTypeOK
<1>2. /\ AlignUp(position_, align) \in Nat /\ position_ <= AlignUp(position_, align)
      /\ AlignUp(position_, align) % align = 0
  BY <1>1, AlignUpFacts
<1>3. Base!Fits(n, align) /\ position_' = AlignUp(position_, align) + n
  BY SameAlignUp DEF Base!Advance
<1>4. AlignUp(position_, align) + n <= Start + Size
  BY <1>1, <1>2, <1>3, SameAlignUp DEF Base!Fits
<1> QED BY <1>1, <1>2, <1>3, <1>4

(* allocate() that returns.                                                *)
LEMMA AllocateInv ==
  ASSUME IInv, NEW n \in Sizes, NEW align \in Aligns, Allocate(n, align)
  PROVE  IInv'
<1> DEFINE ret == AlignUp(position_, align)
           new == Block(ret, n)
<1>1. /\ ret \in Nat /\ position_ <= ret /\ n \in Nat \ {0}
      /\ position_' = ret + n /\ live' = live \cup {new}
      /\ positions_' = Append(positions_, ret)
      /\ ret + n - 1 < Start + Size
  <2>1. Base!Advance(n, align)
    BY DEF Allocate, Base!Allocate
  <2>2. /\ position_ \in Nat /\ ret \in Nat /\ n \in Nat \ {0} /\ position_ <= ret
        /\ position_' = ret + n /\ position_' <= Start + Size
    BY <2>1, AdvanceFacts
  <2>3. live' = live \cup {new} /\ positions_' = Append(positions_, ret)
    BY SameAlignUp DEF Allocate, Base!Allocate
  <2>4. ret + n - 1 < Start + Size
    BY <2>2
  <2> QED BY <2>2, <2>3, <2>4
<1>2. new.p = ret /\ new.n = n /\ new \in [p : Nat, n : Sizes]
  BY <1>1 DEF Block
<1>3. ASSUME NEW b \in live
      PROVE  b.p \in Nat /\ b.n \in Nat \ {0} /\ End(b) <= ret /\ b.p < ret
  <2>1. /\ b.p \in Nat /\ b.n \in Nat \ {0}
        /\ End(b) \in Nat /\ End(b) <= position_ /\ position_ \in Nat
    BY BlockFacts
  <2>2. End(b) = b.p + b.n
    BY DEF End
  <2>3. ret \in Nat /\ position_ <= ret
    BY <1>1
  <2>4. b.p < position_ /\ b.p \in Nat
    BY ONLY <2>1, <2>2
  <2> HIDE DEF ret
  <2>5. End(b) <= ret /\ b.p < ret
    BY ONLY <2>1, <2>3, <2>4
  <2> QED BY <2>1, <2>5
<1>4. TypeOK'
  <2>1. Base!MonotonicTypeOK'
    BY <1>1, <1>2 DEF IInv, TypeOK, Base!MonotonicTypeOK
  <2>2. positions_' \in Seq(Nat)
    BY <1>1 DEF IInv, TypeOK
  <2> QED
    BY <2>1, <2>2
       DEF IInv, TypeOK, Allocate, Charge, Bigger
<1>5. PositionsMatch'
  <2> DEFINE k == Len(positions_)
  <2>1. /\ k \in Nat /\ DOMAIN positions_ = 1 .. k
        /\ DOMAIN positions_' = 1 .. k + 1
        /\ \A i \in 1 .. k : positions_'[i] = positions_[i]
        /\ positions_'[k + 1] = ret
    BY <1>1 DEF IInv, TypeOK
  <2>2. \A i \in 1 .. k : positions_[i] < ret
    BY <1>3, <2>1 DEF IInv, PositionsMatch
  <2>3. {positions_'[i] : i \in DOMAIN positions_'} = {b.p : b \in live'}
    <3>1. {positions_'[i] : i \in 1 .. k + 1} = {positions_[i] : i \in 1 .. k} \cup {ret}
      BY <2>1
    <3>2. {b.p : b \in live'} = {b.p : b \in live} \cup {ret}
      BY <1>1, <1>2
    <3> QED BY <2>1, <3>1, <3>2 DEF IInv, PositionsMatch
  <2>4. \A i, j \in DOMAIN positions_' : i < j => positions_'[i] < positions_'[j]
    BY <2>1, <2>2 DEF IInv, PositionsMatch
  <2> QED BY <2>3, <2>4 DEF PositionsMatch
<1>6. LiveApart'
  <2> SUFFICES ASSUME NEW b \in live', NEW c \in live', b # c
               PROVE  Apart(b, c)
    BY DEF LiveApart
  <2>1. CASE b \in live /\ c \in live
    BY <2>1 DEF IInv, LiveApart
  <2>2. CASE b = new
    BY <1>1, <1>2, <1>3, <2>2 DEF Apart
  <2>3. CASE c = new
    BY <1>1, <1>2, <1>3, <2>3 DEF Apart
  <2> QED BY <1>1, <2>1, <2>2, <2>3
<1>7. Base!BehindPosition'
  BY <1>1, <1>2, <1>3
     DEF IInv, TypeOK, Base!MonotonicTypeOK, Base!BehindPosition, End
<1> QED BY <1>4, <1>5, <1>6, <1>7 DEF IInv

(* allocate() whose push throws: position_ has moved away from every block *)
(* held, and no block is new.                                              *)
LEMMA PushThrowsInv ==
  ASSUME IInv, NEW n \in Sizes, NEW align \in Aligns, PushThrows(n, align)
  PROVE  IInv'
<1>1. Base!Advance(n, align) /\ UNCHANGED <<live, positions_, hits_>>
  BY DEF PushThrows
<1>2. /\ position_ \in Nat /\ n \in Nat \ {0} /\ position_' \in Nat
      /\ position_ <= position_' /\ position_' <= Start + Size
  BY <1>1, AdvanceFacts
<1>3. TypeOK'
  <2>1. Base!MonotonicTypeOK'
    BY <1>1, <1>2 DEF IInv, TypeOK, Base!MonotonicTypeOK
  <2> QED
    BY <1>1, <1>2, <2>1 DEF IInv, TypeOK, PushThrows, Charge, Bigger
<1>4. PositionsMatch' /\ LiveApart'
  BY <1>1 DEF IInv, PositionsMatch, LiveApart
<1>5. Base!BehindPosition'
  <2> SUFFICES ASSUME NEW b \in live PROVE Start <= b.p /\ End(b) <= position_'
    BY <1>1 DEF Base!BehindPosition
  <2> QED BY <1>2, BlockFacts
<1> QED BY <1>3, <1>4, <1>5 DEF IInv

(* deallocate() of the block on top.                                       *)
LEMMA DeallocateTopInv ==
  ASSUME IInv, NEW b \in live, DeallocateTop(b)
  PROVE  IInv'
<1> DEFINE k == Len(positions_)
<1>1. /\ b.p = Top /\ position_' = position_ - b.n /\ live' = live \ {b}
      /\ positions_' = SubSeq(positions_, 1, k - 1)
  BY DEF DeallocateTop
<1>2. /\ k \in Nat \ {0}
      /\ \A c \in live' : c.p < b.p /\ End(c) <= b.p
  BY <1>1, TopIsHighest
<1>3. /\ b.p \in Nat /\ b.n \in Nat /\ Start <= b.p /\ b.p + b.n <= position_
      /\ position_ \in Start .. Start + Size
  BY BlockFacts DEF IInv, TypeOK, Base!MonotonicTypeOK
<1>4. /\ DOMAIN positions_ = 1 .. k /\ DOMAIN positions_' = 1 .. k - 1
      /\ \A i \in 1 .. k - 1 : positions_'[i] = positions_[i]
      /\ positions_' \in Seq(Nat)
  BY <1>1, <1>2 DEF IInv, TypeOK
<1>5. TypeOK'
  <2>1. Base!MonotonicTypeOK'
    BY <1>1, <1>3 DEF IInv, TypeOK, Base!MonotonicTypeOK
  <2> QED
    BY <1>3, <1>4, <2>1 DEF IInv, TypeOK, DeallocateTop, Discard
<1>6. PositionsMatch'
  <2>1. ASSUME NEW i \in DOMAIN positions_'
        PROVE  \E c \in live' : c.p = positions_'[i]
    <3>1. i \in 1 .. k /\ k \in 1 .. k /\ i < k
      BY <1>2, <1>4, <2>1
    <3>2. PICK c \in live : c.p = positions_[i]
      BY <1>4, <3>1 DEF IInv, PositionsMatch
    <3>3. positions_[i] < positions_[k]
      BY <1>4, <3>1 DEF IInv, PositionsMatch
    <3>4. positions_[i] \in Nat /\ positions_[k] \in Nat
      BY <3>1 DEF IInv, TypeOK
    <3>5. c # b
      BY <1>1, <3>2, <3>3, <3>4 DEF Top
    <3> QED BY <1>1, <1>4, <3>1, <3>2, <3>5
  <2>2. ASSUME NEW c \in live'
        PROVE  \E i \in DOMAIN positions_' : positions_'[i] = c.p
    <3>1. c \in live /\ c.p < b.p /\ c.p \in Nat
      BY <1>1, <1>2, <2>2 DEF IInv, TypeOK, Base!MonotonicTypeOK
    <3>2. PICK i \in DOMAIN positions_ : positions_[i] = c.p
      BY <3>1 DEF IInv, PositionsMatch
    <3>3. i # k
      BY <1>1, <1>3, <3>1, <3>2 DEF Top
    <3>4. i \in 1 .. k - 1
      BY <1>2, <1>4, <3>2, <3>3
    <3> QED BY <1>4, <3>2, <3>4
  <2>3. \A i, j \in DOMAIN positions_' : i < j => positions_'[i] < positions_'[j]
    BY <1>2, <1>4 DEF IInv, PositionsMatch
  <2> QED BY <2>1, <2>2, <2>3 DEF PositionsMatch
<1>7. LiveApart'
  BY <1>1 DEF IInv, LiveApart
<1>8. Base!BehindPosition'
  <2> SUFFICES ASSUME NEW c \in live'
               PROVE  Start <= c.p /\ End(c) <= position_'
    BY DEF Base!BehindPosition
  <2>1. c \in live /\ End(c) <= b.p /\ End(c) \in Int
    BY <1>1, <1>2, BlockFacts
  <2> QED BY <1>1, <1>3, <2>1, BlockFacts
<1> QED BY <1>5, <1>6, <1>7, <1>8 DEF IInv

(* The steps that leave the buffer alone: a request that throws, a block   *)
(* that is refused, a violation that ends the program.                     *)
LEMMA BufferUntouchedInv ==
  ASSUME IInv, UNCHANGED <<position_, live, positions_>>,
         total_requested_' \in 0 .. MaxRequested,
         total_discarded_' \in 0 .. MaxRequested,
         max_needed_' \in 0 .. MaxRequested,
         hits_' = hits_, stranded' = stranded, aborted' \in BOOLEAN
  PROVE  IInv'
<1>1. TypeOK'
  BY DEF IInv, TypeOK, Base!MonotonicTypeOK
<1>2. PositionsMatch' /\ LiveApart' /\ Base!BehindPosition'
  BY DEF IInv, PositionsMatch, LiveApart, Base!BehindPosition
<1> QED BY <1>1, <1>2 DEF IInv

LEMMA NextInv == IInv /\ [Next]_svars => IInv'
<1> SUFFICES ASSUME IInv, [Next]_svars PROVE IInv'
  OBVIOUS
<1>0. /\ total_requested_ \in 0 .. MaxRequested
      /\ total_discarded_ \in 0 .. MaxRequested
      /\ max_needed_ \in 0 .. MaxRequested
      /\ aborted \in BOOLEAN
  BY DEF IInv, TypeOK
<1>1. ASSUME NEW n \in Sizes, NEW align \in Aligns, Allocate(n, align)
      PROVE  IInv'
  BY <1>1, AllocateInv
<1>2. ASSUME NEW n \in Sizes, NEW align \in Aligns, AllocateThrows(n, align)
      PROVE  IInv'
  <2>1. UNCHANGED <<position_, live, positions_, hits_, stranded>>
    BY <1>2 DEF AllocateThrows, Base!Overflow, Base!mvars
  <2>2. /\ total_requested_' \in 0 .. MaxRequested
        /\ total_discarded_' \in 0 .. MaxRequested
        /\ max_needed_' \in 0 .. MaxRequested
        /\ aborted' \in BOOLEAN
    BY <1>0, <1>2 DEF AllocateThrows, Charge, Bigger
  <2> QED BY <2>1, <2>2, BufferUntouchedInv
<1>3. ASSUME NEW b \in live, DeallocateTop(b)
      PROVE  IInv'
  BY <1>3, DeallocateTopInv
<1>4. ASSUME NEW b \in live, StackViolation(b)
      PROVE  IInv'
  <2>1. b.n \in Nat
    BY DEF IInv, TypeOK, Base!MonotonicTypeOK
  <2> QED
    BY <1>0, <1>4, <2>1, BufferUntouchedInv DEF StackViolation, Discard
<1>5. ASSUME NEW b \in Foreign, DeallocateThrows(b)
      PROVE  IInv'
  BY <1>0, <1>5, BufferUntouchedInv DEF DeallocateThrows, Discard
<1>6. CASE UNCHANGED svars
  BY <1>0, <1>6, BufferUntouchedInv DEF svars, counters
<1>7. ASSUME NEW n \in Sizes, NEW align \in Aligns, PushThrows(n, align)
      PROVE  IInv'
  BY <1>7, PushThrowsInv
<1> QED BY <1>1, <1>2, <1>3, <1>4, <1>5, <1>6, <1>7 DEF Next

(* Reachable states satisfy the inductive invariant.                       *)
LEMMA InductiveInvariant == Spec => []IInv
BY InitInv, NextInv, PTL DEF Spec

(* Type correctness: position_ stays inside the buffer, the counters       *)
(* inside their bounds (memory/stack.hpp).                                 *)
THEOREM TypeCorrect == Spec => []TypeOK
<1>1. IInv => TypeOK
  BY DEF IInv
<1> QED BY <1>1, InductiveInvariant, PTL

(* Whatever the clients' order, no two blocks they hold share a byte.      *)
THEOREM StackLiveApart == Spec => []LiveApart
<1>1. IInv => LiveApart
  BY DEF IInv
<1> QED BY <1>1, InductiveInvariant, PTL

(* positions_ is the sorted list of the held blocks' addresses.            *)
THEOREM StackPositionsMatch == Spec => []PositionsMatch
<1>1. IInv => PositionsMatch
  BY DEF IInv
<1> QED BY <1>1, InductiveInvariant, PTL
-----------------------------------------------------------------------------
(* Refinement: every step of the stack resource is a step of the abstract  *)
(* resource on the same held blocks, or leaves them alone.                 *)
LEMMA StepRefines == IInv /\ [Next]_svars => [Abstract!Next]_live
<1> SUFFICES ASSUME IInv, [Next]_svars PROVE [Abstract!Next]_live
  OBVIOUS
<1> USE DEF Abstract!End, Abstract!Block
<1>1. ASSUME NEW n \in Sizes, NEW align \in Aligns, Allocate(n, align)
      PROVE  Abstract!Allocate(n, align)
  <2> DEFINE ret == AlignUp(position_, align)
  <2>1. /\ position_ \in Nat /\ Start <= position_
        /\ n \in Nat \ {0} /\ align \in Nat \ {0}
    BY DEF IInv, TypeOK, Base!MonotonicTypeOK
  <2>2. /\ ret \in Nat /\ position_ <= ret /\ ret % align = 0
        /\ ret + n <= Start + Size
    <3>1. Base!Advance(n, align)
      BY <1>1 DEF Allocate, Base!Allocate
    <3> QED BY <3>1, AdvanceFacts
  <2>3. live' = live \cup {Block(ret, n)}
    BY <1>1, SameAlignUp DEF Allocate, Base!Allocate
  <2>4. ret + n - 1 < Start + Size
    BY <2>1, <2>2
  <2>5. ret \in Start .. Start + Size - 1
    BY <2>1, <2>2, <2>4
  <2>6. ret .. ret + n - 1 \subseteq Start .. Start + Size - 1
    BY <2>1, <2>2, <2>4
  <2>7. \A b \in live : Abstract!Apart(Block(ret, n), b)
    BY <2>1, <2>2, BlockFacts DEF Abstract!Apart
  <2>8. Abstract!AllocateAt(ret, n, align)
    BY <2>2, <2>3, <2>6, <2>7 DEF Abstract!AllocateAt
  <2> QED BY <2>5, <2>8 DEF Abstract!Allocate
<1>2. ASSUME NEW b \in live, DeallocateTop(b)
      PROVE  Abstract!Deallocate(b)
  BY <1>2 DEF DeallocateTop, Abstract!Deallocate
<1>3. ASSUME \/ \E n \in Sizes, align \in Aligns : AllocateThrows(n, align)
             \/ \E n \in Sizes, align \in Aligns : PushThrows(n, align)
             \/ \E b \in live : StackViolation(b)
             \/ \E b \in Foreign : DeallocateThrows(b)
             \/ UNCHANGED svars
      PROVE  UNCHANGED live
  BY <1>3 DEF AllocateThrows, PushThrows, Base!Overflow, Base!mvars,
              StackViolation, DeallocateThrows, svars
<1> QED BY <1>1, <1>2, <1>3 DEF Next, Abstract!Next

(* The stack resource keeps the promise of a memory resource: an           *)
(* allocation that returns is aligned, inside the buffer and disjoint from *)
(* every block still held (stack::allocate, stack::deallocate).            *)
THEOREM StackImplementsResource == Spec => ImplementsResource
<1>1. Init => Abstract!Init
  BY DEF Init, Base!Init, Abstract!Init
<1> QED
  BY <1>1, InductiveInvariant, StepRefines, PTL
     DEF Spec, ImplementsResource, Abstract!Spec

-----------------------------------------------------------------------------
(* Multiples of an alignment are closed under sum and difference, and need *)
(* no rounding.                                                            *)
LEMMA MultipleFacts ==
  ASSUME NEW align \in Nat \ {0}, NEW p \in Nat, NEW n \in Nat,
         p % align = 0, n % align = 0
  PROVE  /\ (p + n) % align = 0
         /\ (p - n) % align = 0
         /\ AlignUp(p, align) = p
<1> DEFINE i == p \div align
           j == n \div align
<1>1. i \in Int /\ j \in Int /\ p = align * i /\ n = align * j
  OBVIOUS
<1>2. p + n = align * (i + j) /\ p - n = align * (i - j)
  BY <1>1
<1>3. \A k \in Int : (align * k) % align = 0
  OBVIOUS
<1>4. (p + n) % align = 0 /\ (p - n) % align = 0
  <2>1. i + j \in Int /\ i - j \in Int
    BY <1>1
  <2>2. (align * (i + j)) % align = 0 /\ (align * (i - j)) % align = 0
    BY <1>3, <2>1
  <2> HIDE DEF i, j
  <2> QED BY <1>2, <2>2
<1>5. \A k, r \in Int : r \in 0 .. align - 1 => (align * k + r) % align = r
  OBVIOUS
<1>6. (p + (align - 1)) % align = align - 1
  BY <1>1, <1>5
<1> QED BY <1>4, <1>6 DEF AlignUp

(* Without padding the buffer holds exactly what the counters say.         *)
HighWaterInv ==
  NoPadding /\ Foreign = {} =>
    /\ \A align \in Aligns : position_ % align = 0
    /\ ~ aborted => position_ - Start <= total_requested_ - total_discarded_
    /\ ~ aborted => total_requested_ - total_discarded_ <= max_needed_
    /\ position_ - Start <= max_needed_

LEMMA HighWaterStep ==
  IInv /\ HighWaterInv /\ [Next]_svars => HighWaterInv'
<1> SUFFICES ASSUME IInv, HighWaterInv, [Next]_svars, NoPadding, Foreign = {}
             PROVE  /\ \A align \in Aligns : position_' % align = 0
                    /\ ~ aborted' => position_' - Start
                                       <= total_requested_' - total_discarded_'
                    /\ ~ aborted' => total_requested_' - total_discarded_'
                                       <= max_needed_'
                    /\ position_' - Start <= max_needed_'
  BY DEF HighWaterInv, NoPadding
<1>0. /\ position_ \in Nat
      /\ total_requested_ \in Nat /\ total_discarded_ \in Nat /\ max_needed_ \in Nat
      /\ \A align \in Aligns : position_ % align = 0
      /\ ~ aborted => position_ - Start <= total_requested_ - total_discarded_
      /\ ~ aborted => total_requested_ - total_discarded_ <= max_needed_
      /\ position_ - Start <= max_needed_
  BY DEF IInv, TypeOK, Base!MonotonicTypeOK, HighWaterInv
<1>1. ASSUME NEW n \in Sizes, NEW align \in Aligns,
             Allocate(n, align) \/ PushThrows(n, align)
      PROVE  /\ position_' = position_ + n /\ n \in Nat /\ ~ aborted
             /\ total_requested_' = total_requested_ + n
             /\ total_discarded_' = total_discarded_
             /\ max_needed_' = Bigger(max_needed_, total_requested_' - total_discarded_)
  <2>1. AlignUp(position_, align) = position_ /\ n \in Nat /\ Start \in Nat
    BY <1>0, MultipleFacts DEF NoPadding
  <2> QED
    BY <1>1, <2>1, SameAlignUp
       DEF Allocate, PushThrows, Charge, Base!Allocate, Base!Advance
<1>2. ASSUME NEW n \in Sizes, NEW align \in Aligns, AllocateThrows(n, align)
      PROVE  /\ position_' = position_ /\ n \in Nat /\ ~ aborted
             /\ total_requested_' = total_requested_ + n
             /\ total_discarded_' = total_discarded_
             /\ max_needed_' = Bigger(max_needed_, total_requested_' - total_discarded_)
  BY <1>2 DEF AllocateThrows, Charge, Base!Overflow, Base!mvars
<1>3. ASSUME NEW n \in Sizes,
             \/ \E align \in Aligns : Allocate(n, align) \/ PushThrows(n, align)
             \/ \E align \in Aligns : AllocateThrows(n, align)
      PROVE  /\ \A align \in Aligns : position_' % align = 0
             /\ position_' - Start <= total_requested_' - total_discarded_'
             /\ total_requested_' - total_discarded_' <= max_needed_'
             /\ position_' - Start <= max_needed_'
  <2>1. \A align \in Aligns : (position_ + n) % align = 0
    BY <1>0, MultipleFacts DEF NoPadding
  <2> QED BY <1>0, <1>1, <1>2, <1>3, <2>1 DEF Bigger
<1>4. ASSUME NEW b \in live, DeallocateTop(b)
      PROVE  /\ \A align \in Aligns : position_' % align = 0
             /\ position_' - Start <= total_requested_' - total_discarded_'
             /\ total_requested_' - total_discarded_' <= max_needed_'
             /\ position_' - Start <= max_needed_'
  <2>1. /\ b.n \in Sizes /\ b.n \in Nat
        /\ position_' = position_ - b.n /\ ~ aborted
        /\ total_requested_' = total_requested_ /\ max_needed_' = max_needed_
        /\ total_discarded_' = total_discarded_ + b.n
    BY <1>4, BlockFacts DEF DeallocateTop, Discard
  <2>2. \A align \in Aligns : (position_ - b.n) % align = 0
    BY <1>0, <2>1, MultipleFacts DEF NoPadding
  <2> QED BY <1>0, <2>1, <2>2
<1>5. ASSUME NEW b \in live, StackViolation(b)
      PROVE  aborted' /\ UNCHANGED <<position_, max_needed_>>
  BY <1>5 DEF StackViolation, Discard
<1>6. CASE UNCHANGED svars
  BY <1>0, <1>6 DEF svars, counters
<1> QED BY <1>0, <1>3, <1>4, <1>5, <1>6 DEF Next

(* Of a stack resource on its own, that is given back no blocks of others, *)
(* max_needed() alone bounds what was ever used of the buffer, pushes that *)
(* threw included: what they took stays charged as long as it is lost      *)
(* (memory/stack.hpp max_needed_).                                         *)
THEOREM StackHighWater ==
  ASSUME Foreign = {}
  PROVE  Spec => [](NoPadding => position_ - Start <= max_needed_)
<1>1. Init => HighWaterInv
  BY DEF Init, Base!Init, HighWaterInv, NoPadding
<1>2. HighWaterInv => (NoPadding => position_ - Start <= max_needed_)
  BY Foreign = {} DEF HighWaterInv
<1> QED BY <1>1, <1>2, InductiveInvariant, HighWaterStep, PTL DEF Spec

(* A client that only returns the last block it was given is never         *)
(* stopped: the assertion fires only for a block below another one.        *)
THEOREM StackViolationNeedsOlderBlock == Spec => ViolationNeedsOlderBlock
<1>1. ASSUME IInv, NEW b \in live, StackViolation(b)
      PROVE  \E c \in live : b.p < c.p
  <2> DEFINE k == Len(positions_)
  <2>1. k \in Nat /\ DOMAIN positions_ = 1 .. k
    BY <1>1 DEF IInv, TypeOK
  <2>2. PICK i \in DOMAIN positions_ : positions_[i] = b.p
    BY <1>1 DEF IInv, PositionsMatch
  <2>3. i < k /\ k \in DOMAIN positions_
    BY <1>1, <2>1, <2>2 DEF StackViolation, Top
  <2>4. PICK c \in live : c.p = positions_[k]
    BY <1>1, <2>3 DEF IInv, PositionsMatch
  <2> QED BY <1>1, <2>2, <2>3, <2>4 DEF IInv, PositionsMatch
<1>2. IInv /\ [Next]_svars =>
        [aborted' # aborted =>
           \E b, c \in live : b.p < c.p /\ total_discarded_' = total_discarded_ + b.n]_svars
  <2> SUFFICES ASSUME IInv, Next, aborted' # aborted
               PROVE  \E b, c \in live :
                        b.p < c.p /\ total_discarded_' = total_discarded_ + b.n
    OBVIOUS
  <2>1. PICK b \in live : StackViolation(b)
    BY DEF Next, Allocate, AllocateThrows, PushThrows, Charge, DeallocateTop,
           DeallocateThrows
  <2> QED BY <1>1, <2>1 DEF StackViolation, Discard
<1> QED
  BY <1>2, InductiveInvariant, PTL DEF Spec, ViolationNeedsOlderBlock

(***************************************************************************)
(* The fallback resource.                                                  *)
(***************************************************************************)
(* Sums over finite sets.                                                  *)
Sums == INSTANCE LayoutProofs

(* The inductive invariant: the stack's own, next to blocks of back_ that  *)
(* stay on the addresses of back_.                                         *)
BackOK ==
  /\ back \subseteq [p : BackAddresses, n : Sizes]
  /\ \A b \in back : b.p .. End(b) - 1 \subseteq BackAddresses
  /\ \A b, c \in back : b # c => Apart(b, c)

FInv == IInv /\ BackOK

USE StackAssumption, FallbackAssumption
    DEF End, Base!End, Block, Base!Block, Back!End, Back!Block, Whole!End, Whole!Block,
        Contains, Base!Contains

(* Every address the stack handed out is one of the buffer ...             *)
LEMMA LiveInside ==
  ASSUME IInv, NEW b \in live
  PROVE  /\ Base!Owns(b.p)
         /\ b.p .. End(b) - 1 \subseteq Start .. Start + Size - 1
<1>1. /\ b.p \in Nat /\ b.n \in Nat \ {0} /\ position_ \in Nat
      /\ Start <= b.p /\ b.p + b.n <= position_ /\ position_ <= Start + Size
  BY BlockFacts
<1> QED BY <1>1 DEF Base!Owns

(* ... and none that back_ handed out is, so its address alone tells the   *)
(* owner of a block.                                                       *)
LEMMA BackOutside ==
  ASSUME BackOK, NEW b \in back
  PROVE  ~ Base!Owns(b.p)
<1>1. b.p \in BackAddresses /\ b.p \in Nat /\ b.p \notin Start .. Start + Size - 1
  BY DEF BackOK
<1> QED BY <1>1 DEF Base!Owns

LEMMA OwnersFollow == FInv => RoutedByOwner
BY LiveInside, BackOutside DEF FInv, RoutedByOwner

(* Seen from the stack, a fallback is a client like any other: it passes   *)
(* on requests, and tries blocks of back_ on the stack first.              *)
LEMMA StackStep == FInv /\ [FallbackNext]_fvars => [Next]_svars
<1> SUFFICES ASSUME FInv, [FallbackNext]_fvars PROVE [Next]_svars
  OBVIOUS
<1>1. ASSUME NEW n \in Sizes, NEW align \in Aligns,
             \/ AllocateFront(n, align)
             \/ AllocateBack(n, align)
             \/ AllocateNowhere(n, align)
      PROVE  Next
  BY <1>1 DEF AllocateFront, AllocateBack, AllocateNowhere, Next
<1>2. ASSUME NEW b \in live \cup back, DeallocateFront(b)
      PROVE  Next
  <2>1. Base!Owns(b.p)
    BY <1>2 DEF DeallocateFront, DeallocateTop, StackViolation
  <2>2. b \in live
    BY <2>1, BackOutside DEF FInv
  <2> QED BY <1>2, <2>2 DEF DeallocateFront, Next
<1>3. ASSUME NEW b \in live \cup back, DeallocateBack(b)
      PROVE  Next
  <2>1. b \in back
    BY <1>3 DEF DeallocateBack, Back!Deallocate
  <2>2. b \in Foreign
    BY <2>1 DEF FInv, BackOK
  <2> QED BY <1>3, <2>2 DEF DeallocateBack, Next
<1>4. CASE UNCHANGED fvars
  BY <1>4 DEF fvars
<1> QED BY <1>1, <1>2, <1>3, <1>4 DEF FallbackNext

(* back_ keeps its promise, and the stack's steps do not touch its blocks. *)
LEMMA BackStep == FInv /\ [FallbackNext]_fvars => BackOK'
<1> SUFFICES ASSUME FInv, [FallbackNext]_fvars PROVE BackOK'
  OBVIOUS
<1>1. ASSUME NEW n \in Sizes, NEW align \in Aligns, AllocateBack(n, align)
      PROVE  BackOK'
  <2>1. PICK p \in BackAddresses : Back!AllocateAt(p, n, align)
    BY <1>1 DEF AllocateBack, Back!Allocate
  <2> DEFINE new == Block(p, n)
  <2>2. /\ new \in [p : BackAddresses, n : Sizes] /\ new.p = p /\ new.n = n
        /\ back' = back \cup {new}
        /\ p .. p + n - 1 \subseteq BackAddresses
    BY <2>1 DEF Back!AllocateAt
  <2>3. \A b \in back : Apart(new, b) /\ Apart(b, new)
    BY <2>1 DEF Back!AllocateAt, Back!Apart, Apart
  <2>4. new.p .. End(new) - 1 \subseteq BackAddresses
    BY <2>2
  <2>5. back' \subseteq [p : BackAddresses, n : Sizes]
    BY <2>2 DEF FInv, BackOK
  <2>6. \A b \in back' : b.p .. End(b) - 1 \subseteq BackAddresses
    BY <2>2, <2>4 DEF FInv, BackOK
  <2>7. \A b, c \in back' : b # c => Apart(b, c)
    BY <2>2, <2>3 DEF FInv, BackOK
  <2> QED BY <2>5, <2>6, <2>7 DEF BackOK
<1>2. ASSUME NEW b \in live \cup back, DeallocateBack(b)
      PROVE  BackOK'
  BY <1>2 DEF DeallocateBack, Back!Deallocate, FInv, BackOK
<1>3. ASSUME back' = back
      PROVE  BackOK'
  BY <1>3 DEF FInv, BackOK
<1> QED
  BY <1>1, <1>2, <1>3
     DEF FallbackNext, AllocateFront, AllocateNowhere, DeallocateFront, fvars

LEMMA FallbackInitInv == FallbackInit => FInv
BY InitInv DEF FallbackInit, FInv, BackOK, Back!Init

LEMMA FallbackInductive == FallbackSpec => []FInv
<1>1. FInv /\ [FallbackNext]_fvars => FInv'
  BY StackStep, BackStep, NextInv DEF FInv
<1> QED BY <1>1, FallbackInitInv, PTL DEF FallbackSpec

(* The address of a block decides where deallocate() takes it back, and    *)
(* decides rightly: no block of the other resource looks like one of the   *)
(* buffer (fallback::deallocate).                                          *)
THEOREM FallbackRoutedByOwner == FallbackSpec => []RoutedByOwner
BY OwnersFollow, FallbackInductive, PTL

(* A fallback is a stack resource to everything that is proved of those:   *)
(* what goes on in its catch clauses never brings the stack into a state   *)
(* that its own clients could not (class fallback : stack).                *)
THEOREM FallbackIsStack == FallbackSpec => Spec
<1>1. FallbackInit => Init
  BY DEF FallbackInit
<1> QED BY <1>1, StackStep, FallbackInductive, PTL DEF FallbackSpec, Spec

-----------------------------------------------------------------------------
(* Two blocks of different resources share no byte: their first bytes, and *)
(* all the others, are addresses of different sets.                        *)
LEMMA SidesApart ==
  ASSUME NEW b, NEW c,
         b.p \in Nat, b.n \in Nat \ {0}, c.p \in Nat, c.n \in Nat \ {0},
         b.p .. End(b) - 1 \subseteq Start .. Start + Size - 1,
         c.p .. End(c) - 1 \subseteq BackAddresses
  PROVE  Apart(b, c) /\ Apart(c, b)
<1> SUFFICES ASSUME ~ (Apart(b, c) /\ Apart(c, b)) PROVE FALSE
  OBVIOUS
<1>1. c.p < b.p + b.n /\ b.p < c.p + c.n
  BY DEF Apart
<1>2. CASE b.p <= c.p
  <2>1. c.p \in b.p .. End(b) - 1 /\ c.p \in c.p .. End(c) - 1
    BY <1>1, <1>2
  <2> QED BY <2>1
<1>3. CASE c.p < b.p
  <2>1. b.p \in b.p .. End(b) - 1 /\ b.p \in c.p .. End(c) - 1
    BY <1>1, <1>3
  <2> QED BY <2>1
<1> QED BY <1>2, <1>3

LEMMA BackBlock ==
  ASSUME BackOK, NEW b \in back
  PROVE  b.p \in Nat /\ b.n \in Nat \ {0} /\ b.p .. End(b) - 1 \subseteq BackAddresses
BY DEF BackOK

(* What the stack's part of a step is, as a step of Resource on the whole. *)
LEMMA FrontAllocates ==
  ASSUME FInv, NEW n \in Sizes, NEW align \in Aligns, AllocateFront(n, align)
  PROVE  Whole!Allocate(n, align)
<1> DEFINE ret == AlignUp(position_, align)
           new == Block(ret, n)
<1>1. /\ position_ \in Nat /\ Start <= position_
      /\ n \in Nat \ {0} /\ align \in Nat \ {0}
  BY DEF FInv, IInv, TypeOK, Base!MonotonicTypeOK
<1>2. /\ ret \in Nat /\ position_ <= ret /\ ret % align = 0
      /\ ret + n <= Start + Size
  <2>1. Base!Advance(n, align)
    BY DEF AllocateFront, Allocate, Base!Allocate
  <2> QED BY <2>1, AdvanceFacts DEF FInv
<1>3. live' = live \cup {new} /\ back' = back
  BY SameAlignUp DEF AllocateFront, Allocate, Base!Allocate
<1>4. ret + n - 1 < Start + Size
  BY <1>1, <1>2
<1>5. ret .. End(new) - 1 \subseteq Start .. Start + Size - 1
  BY <1>1, <1>2, <1>4
<1>6. \A b \in live : Whole!Apart(new, b)
  BY <1>1, <1>2, BlockFacts DEF FInv, Whole!Apart
<1>7. \A b \in back : Whole!Apart(new, b)
  <2>1. new.p = ret /\ new.n = n
    OBVIOUS
  <2> HIDE DEF new
  <2>2. \A b \in back : Apart(new, b)
    BY <1>1, <1>2, <1>5, <2>1, SidesApart, BackBlock DEF FInv
  <2> QED BY <2>2 DEF Whole!Apart, Apart
<1>8. ret \in Start .. Start + Size - 1 \cup BackAddresses
  BY <1>1, <1>2, <1>4
<1>9. live' \cup back' = (live \cup back) \cup {new}
  BY <1>3
<1>10. Whole!AllocateAt(ret, n, align)
  BY <1>2, <1>5, <1>6, <1>7, <1>9 DEF Whole!AllocateAt
<1> QED BY <1>8, <1>10 DEF Whole!Allocate

LEMMA BackAllocates ==
  ASSUME FInv, NEW n \in Sizes, NEW align \in Aligns, AllocateBack(n, align)
  PROVE  Whole!Allocate(n, align)
<1>1. PICK p \in BackAddresses : Back!AllocateAt(p, n, align)
  BY DEF AllocateBack, Back!Allocate
<1> DEFINE new == Block(p, n)
<1>2. /\ p \in Nat /\ n \in Nat \ {0} /\ new.p = p /\ new.n = n
      /\ p % align = 0 /\ p .. p + n - 1 \subseteq BackAddresses
      /\ back' = back \cup {new} /\ live' = live
  BY <1>1 DEF Back!AllocateAt, AllocateBack, AllocateThrows, PushThrows,
              Base!Overflow, Base!mvars
<1>3. \A b \in back : Whole!Apart(new, b)
  BY <1>1 DEF Back!AllocateAt, Back!Apart, Whole!Apart
<1>4. \A b \in live : Whole!Apart(new, b)
  <2>1. new.p .. End(new) - 1 \subseteq BackAddresses
    BY <1>2
  <2> HIDE DEF new
  <2>2. \A b \in live : Apart(new, b)
    BY <1>2, <2>1, SidesApart, BlockFacts, LiveInside DEF FInv
  <2> QED BY <2>2 DEF Whole!Apart, Apart
<1>5. live' \cup back' = (live \cup back) \cup {new}
  BY <1>2
<1>6. Whole!AllocateAt(p, n, align)
  BY <1>2, <1>3, <1>4, <1>5 DEF Whole!AllocateAt
<1> QED BY <1>6 DEF Whole!Allocate

LEMMA WholeStep == FInv /\ [FallbackNext]_fvars => [Whole!Next]_(live \cup back)
<1> SUFFICES ASSUME FInv, [FallbackNext]_fvars
             PROVE  [Whole!Next]_(live \cup back)
  OBVIOUS
<1>0. live \cap back = {}
  BY LiveInside, BackOutside DEF FInv
<1>1. ASSUME NEW n \in Sizes, NEW align \in Aligns,
             AllocateFront(n, align) \/ AllocateBack(n, align)
      PROVE  Whole!Next
  BY <1>1, FrontAllocates, BackAllocates DEF Whole!Next
<1>2. ASSUME NEW n \in Sizes, NEW align \in Aligns, AllocateNowhere(n, align)
      PROVE  UNCHANGED (live \cup back)
  BY <1>2 DEF AllocateNowhere, AllocateThrows, PushThrows, Base!Overflow, Base!mvars
<1>3. ASSUME NEW b \in live \cup back, DeallocateFront(b)
      PROVE  [Whole!Next]_(live \cup back)
  <2>1. CASE StackViolation(b)
    BY <1>3, <2>1 DEF DeallocateFront, StackViolation
  <2>2. CASE DeallocateTop(b)
    <3>1. b \in live
      BY <2>2, BackOutside DEF DeallocateTop, FInv
    <3>2. live' \cup back' = (live \cup back) \ {b}
      BY <1>0, <1>3, <2>2, <3>1 DEF DeallocateFront, DeallocateTop
    <3> QED BY <3>2 DEF Whole!Next, Whole!Deallocate
  <2> QED BY <1>3, <2>1, <2>2 DEF DeallocateFront
<1>4. ASSUME NEW b \in live \cup back, DeallocateBack(b)
      PROVE  Whole!Next
  <2>1. live' \cup back' = (live \cup back) \ {b}
    BY <1>0, <1>4 DEF DeallocateBack, DeallocateThrows, Back!Deallocate
  <2> QED BY <2>1 DEF Whole!Next, Whole!Deallocate
<1>5. CASE UNCHANGED fvars
  BY <1>5 DEF fvars, svars
<1> QED BY <1>1, <1>2, <1>3, <1>4, <1>5 DEF FallbackNext

(* The two resources together are one memory resource: whichever side a    *)
(* block comes from, it is aligned, among the addresses of both, and       *)
(* shares no byte with a block that is still held (fallback::allocate).    *)
THEOREM FallbackImplementsWhole == FallbackSpec => ImplementsWhole
<1>1. FallbackInit => Whole!Init
  BY DEF FallbackInit, Init, Base!Init, Back!Init, Whole!Init
<1> QED
  BY <1>1, WholeStep, FallbackInductive, PTL
     DEF FallbackSpec, ImplementsWhole, Whole!Spec

-----------------------------------------------------------------------------
(* What is requested and not given back is what clients hold, summed block *)
(* by block, and what nobody could serve.                                  *)
Bytes == [b \in [p : Nat, n : Sizes] |-> b.n]

HeldInv ==
  /\ IsFiniteSet(live) /\ IsFiniteSet(back)
  /\ lost \in Nat
  /\ ~ aborted => total_requested_ - total_discarded_
                    = lost + Sums!Total(Bytes, live \cup back)

(* Below position_ the buffer holds nothing but blocks and what throwing   *)
(* pushes took, without padding.                                           *)
FullInv ==
  NoPadding =>
    /\ \A align \in Aligns : position_ % align = 0
    /\ position_ - Start = Sums!Total(Bytes, live) + stranded

(* What clients hold of the buffer has been charged to max_needed_, and    *)
(* stays so when the assertion has ended the program.                      *)
ChargedInv ==
  /\ ~ aborted => total_requested_ - total_discarded_ <= max_needed_
  /\ Sums!Total(Bytes, live) <= max_needed_

LEMMA SameFinite == \A S : Sums!IsFiniteSet(S) <=> IsFiniteSet(S)
BY DEF IsFiniteSet, Sums!IsFiniteSet

(* The sum MapThenSumSet computes is this one.                             *)
LEMMA BytesAre ==
  ASSUME NEW S \in SUBSET [p : Nat, n : Sizes], IsFiniteSet(S)
  PROVE  MapThenSumSet(LAMBDA b : b.n, S) = Sums!Total(Bytes, S)
<1> DEFINE Sum(h) == h = [s \in SUBSET S |->
                            IF s = {} THEN 0 ELSE Sums!One(s).n + h[s \ {Sums!One(s)}]]
           sum == CHOOSE h : Sum(h)
<1>1. MapThenSumSet(LAMBDA b : b.n, S) = sum[S]
  BY DEF MapThenSumSet, MapThenFoldSet, Sums!One
<1>2. Sums!IsFiniteSet(S)
  BY SameFinite
<1>3. PICK g : g = [s \in SUBSET S |-> Sums!SumStep(Bytes, g, s)]
  BY <1>2, Sums!SummingExists
<1>4. ASSUME NEW s \in SUBSET S, s # {}
      PROVE  Bytes[Sums!One(s)] = Sums!One(s).n
  <2>1. Sums!One(s) \in s
    BY <1>4, Sums!OneOf
  <2> QED BY <2>1 DEF Bytes
<1>5. Sum(g)
  <2>1. ASSUME NEW s \in SUBSET S
        PROVE  Sums!SumStep(Bytes, g, s)
                 = IF s = {} THEN 0 ELSE Sums!One(s).n + g[s \ {Sums!One(s)}]
    BY <1>4 DEF Sums!SumStep
  <2> QED BY <1>3, <2>1
<1>6. Sum(sum)
  BY <1>5
<1> HIDE DEF sum
<1>7. Sums!Summing(Bytes, S, sum)
  <2>1. ASSUME NEW s \in SUBSET S
        PROVE  sum[s] = Sums!SumStep(Bytes, sum, s)
    BY <1>4, <1>6 DEF Sums!SumStep
  <2> QED BY <2>1 DEF Sums!Summing
<1>8. PICK k : Sums!Summing(Bytes, S, k) /\ Sums!Total(Bytes, S) = k[S]
  BY <1>2, Sums!TotalSums
<1>9. \A s \in SUBSET S : sum[s] = k[s]
  BY <1>2, <1>7, <1>8, Sums!SummingSame
<1> QED BY <1>1, <1>8, <1>9

LEMMA SizeOf ==
  ASSUME NEW b \in [p : Nat, n : Sizes]
  PROVE  b.n \in Nat /\ b.n \in Int
<1>1. b.n \in Sizes
  OBVIOUS
<1>2. b.n \in Nat \ {0}
  BY ONLY <1>1, StackAssumption DEF StackAssumption
<1> QED BY ONLY <1>2

(* One block more, one block less.                                         *)
LEMMA BytesMore ==
  ASSUME NEW S \in SUBSET [p : Nat, n : Sizes], IsFiniteSet(S),
         NEW b \in [p : Nat, n : Sizes], b \notin S
  PROVE  /\ Sums!Total(Bytes, S) \in Int
         /\ Sums!Total(Bytes, S \cup {b}) = Sums!Total(Bytes, S) + b.n
<1>1. \A c \in [p : Nat, n : Sizes] : Bytes[c] = c.n /\ c.n \in Int
  BY SizeOf DEF Bytes
<1>2. (\A c \in S : Bytes[c] \in Int) /\ Bytes[b] \in Int /\ Bytes[b] = b.n
  BY <1>1
<1>3. Sums!IsFiniteSet(S)
  BY SameFinite
<1>4. Sums!Total(Bytes, S) \in Int
  BY <1>2, <1>3, Sums!TotalSplit
<1>5. Sums!Total(Bytes, S \cup {b}) = Sums!Total(Bytes, S) + Bytes[b]
  BY <1>2, <1>3, Sums!TotalMore
<1> QED BY <1>2, <1>4, <1>5

LEMMA BytesTotal ==
  ASSUME NEW S \in SUBSET [p : Nat, n : Sizes], IsFiniteSet(S)
  PROVE  Sums!Total(Bytes, S) \in Int
<1>1. \A c \in S : Bytes[c] \in Int
  BY SizeOf DEF Bytes
<1> QED BY <1>1, SameFinite, Sums!TotalSplit

LEMMA BytesLess ==
  ASSUME NEW S \in SUBSET [p : Nat, n : Sizes], IsFiniteSet(S), NEW b \in S
  PROVE  /\ Sums!Total(Bytes, S) \in Int
         /\ Sums!Total(Bytes, S \ {b}) = Sums!Total(Bytes, S) - b.n
<1> DEFINE T == S \ {b}
<1>1. /\ T \in SUBSET [p : Nat, n : Sizes] /\ IsFiniteSet(T)
      /\ b \in [p : Nat, n : Sizes] /\ b \notin T /\ T \cup {b} = S
  BY FS_Subset
<1> HIDE DEF T
<1>2. Sums!Total(Bytes, T) \in Int /\ Sums!Total(Bytes, T \cup {b}) = Sums!Total(Bytes, T) + b.n
  BY <1>1, BytesMore
<1>3. b.n \in Int
  BY <1>1, SizeOf
<1>4. T \cup {b} = S
  BY <1>1
<1>5. Sums!Total(Bytes, S) = Sums!Total(Bytes, T) + b.n
  BY <1>2, <1>4, Zenon
<1>6. Sums!Total(Bytes, T) = Sums!Total(Bytes, S) - b.n /\ Sums!Total(Bytes, S) \in Int
  BY ONLY <1>2, <1>3, <1>5
<1>7. T = S \ {b}
  BY DEF T
<1> QED BY <1>6, <1>7, Zenon

(* More blocks, not fewer bytes.                                           *)
LEMMA BytesGrow ==
  ASSUME NEW T \in SUBSET [p : Nat, n : Sizes], IsFiniteSet(T), NEW S \in SUBSET T
  PROVE  Sums!Total(Bytes, S) <= Sums!Total(Bytes, T)
<1> DEFINE Sum(s) == Sums!Total(Bytes, s)
           P == {u \in SUBSET T : S \subseteq u => Sum(S) <= Sum(u)}
<1>1. ASSUME NEW u \in SUBSET T, \A v \in SUBSET u : v # u => v \in P
      PROVE  u \in P
  <2> SUFFICES ASSUME S \subseteq u PROVE Sum(S) <= Sum(u)
    OBVIOUS
  <2>1. u \in SUBSET [p : Nat, n : Sizes] /\ IsFiniteSet(u)
    BY FS_Subset
  <2>2. Sum(u) \in Int
    BY <2>1, BytesTotal
  <2>3. CASE u = S
    BY <2>2, <2>3
  <2>4. CASE u # S
    <3>1. PICK b \in u : b \notin S
      BY <2>4
    <3> DEFINE v == u \ {b}
    <3>2. v \in SUBSET u /\ v # u /\ S \subseteq v
      BY <3>1
    <3>3. Sum(S) <= Sum(v)
      BY <1>1, <3>2
    <3>4. Sum(v) = Sum(u) - b.n
      BY <2>1, BytesLess
    <3>5. b.n \in Nat /\ S \in SUBSET [p : Nat, n : Sizes] /\ IsFiniteSet(S)
      BY <2>1, SizeOf, FS_Subset
    <3>6. Sum(S) \in Int
      BY <3>5, BytesTotal
    <3> HIDE DEF v, Sum
    <3> QED BY <2>2, <3>3, <3>4, <3>5, <3>6
  <2> QED BY <2>3, <2>4
<1> HIDE DEF P
<1>2. \A s \in SUBSET T : s \in P
  BY <1>1, SameFinite, Sums!SetInduction
<1>3. T \in P
  BY <1>2
<1> QED BY <1>3 DEF P

LEMMA BlocksTyped ==
  ASSUME FInv
  PROVE  live \cup back \in SUBSET [p : Nat, n : Sizes] /\ live \in SUBSET [p : Nat, n : Sizes]
BY DEF FInv, IInv, BackOK, TypeOK, Base!MonotonicTypeOK

(* A block handed out is none that is held: it would not be apart from it. *)
LEMMA NewBlock ==
  ASSUME FInv, NEW n \in Sizes, NEW align \in Aligns, Whole!Allocate(n, align)
  PROVE  \E b \in [p : Nat, n : Sizes] :
            b.n = n /\ b \notin live \cup back /\ live' \cup back' = (live \cup back) \cup {b}
<1>1. PICK p \in Start .. Start + Size - 1 \cup BackAddresses : Whole!AllocateAt(p, n, align)
  BY DEF Whole!Allocate
<1> DEFINE b == Block(p, n)
<1>2. /\ live' \cup back' = (live \cup back) \cup {b}
      /\ \A c \in live \cup back : Whole!Apart(b, c)
  BY <1>1 DEF Whole!AllocateAt
<1>3. p \in Nat /\ n \in Nat \ {0} /\ b.p = p /\ b.n = n
  OBVIOUS
<1>4. ~ Whole!Apart(b, b)
  BY <1>3 DEF Whole!Apart
<1>5. b \in [p : Nat, n : Sizes]
  BY <1>3
<1> HIDE DEF b
<1> QED BY <1>2, <1>3, <1>4, <1>5

(* A block that comes back is one of one side, and no longer held then.    *)
LEMMA ReturnsOne ==
  ASSUME FInv, NEW b \in live \cup back, DeallocateFront(b) \/ DeallocateBack(b),
         aborted' = aborted
  PROVE  /\ live' \cup back' = (live \cup back) \ {b} /\ lost' = lost
         /\ total_discarded_' = total_discarded_ + b.n /\ ~ aborted
         /\ total_requested_' = total_requested_
<1>1. live \cap back = {}
  BY LiveInside, BackOutside DEF FInv
<1>2. CASE DeallocateFront(b)
  <2>1. DeallocateTop(b) /\ UNCHANGED <<back, lost>>
    BY <1>2 DEF DeallocateFront, StackViolation, Discard
  <2>2. b \in live
    BY <2>1, BackOutside DEF DeallocateTop, FInv
  <2> QED BY <1>1, <2>1, <2>2 DEF DeallocateTop, Discard
<1>3. CASE DeallocateBack(b)
  BY <1>1, <1>3 DEF DeallocateBack, DeallocateThrows, Discard, Back!Deallocate
<1> QED BY <1>2, <1>3

LEMMA HeldStep == FInv /\ HeldInv /\ [FallbackNext]_fvars => HeldInv'
<1> SUFFICES ASSUME FInv, HeldInv, [FallbackNext]_fvars PROVE HeldInv'
  OBVIOUS
<1> DEFINE held == live \cup back
           Sum(s) == Sums!Total(Bytes, s)
<1>0. /\ total_requested_ \in Int /\ total_discarded_ \in Int /\ lost \in Nat
      /\ ~ aborted => total_requested_ - total_discarded_ = lost + Sum(held)
  BY DEF FInv, IInv, TypeOK, HeldInv
<1>1. held \in SUBSET [p : Nat, n : Sizes] /\ IsFiniteSet(held)
  BY BlocksTyped, FS_Union DEF HeldInv
<1> HIDE DEF held, Sum
<1>2. ASSUME NEW n \in Sizes, NEW align \in Aligns,
             AllocateFront(n, align) \/ AllocateBack(n, align)
      PROVE  HeldInv'
  <2>1. PICK b \in [p : Nat, n : Sizes] :
           b.n = n /\ b \notin held /\ live' \cup back' = held \cup {b}
    BY <1>2, FrontAllocates, BackAllocates, NewBlock DEF held
  <2>2. IsFiniteSet(held \cup {b})
    BY <1>1, FS_AddElement
  <2>3. IsFiniteSet(live') /\ IsFiniteSet(back')
    BY <2>1, <2>2, FS_Subset
  <2>4. Sum(held) \in Int /\ Sum(held \cup {b}) = Sum(held) + n /\ n \in Int
    BY <1>1, <2>1, BytesMore, SizeOf DEF Sum
  <2>5. /\ total_requested_' = total_requested_ + n /\ ~ aborted
        /\ total_discarded_' = total_discarded_ /\ lost' = lost
    BY <1>2 DEF AllocateFront, AllocateBack, Allocate, AllocateThrows, PushThrows, Charge
  <2>6. total_requested_' - total_discarded_' = lost' + Sum(held \cup {b})
    BY <1>0, <2>4, <2>5
  <2> QED BY <1>0, <2>1, <2>3, <2>5, <2>6 DEF HeldInv, Sum
<1>3. ASSUME NEW n \in Sizes, NEW align \in Aligns, AllocateNowhere(n, align)
      PROVE  HeldInv'
  <2>1. /\ total_requested_' = total_requested_ + n /\ ~ aborted
        /\ total_discarded_' = total_discarded_ /\ lost' = lost + n
        /\ live' = live /\ back' = back
    BY <1>3 DEF AllocateNowhere, AllocateThrows, PushThrows, Charge,
                Base!Overflow, Base!mvars
  <2>2. n \in Nat \ {0}
    OBVIOUS
  <2>3. Sum(held) \in Int
    BY <1>1, BytesTotal DEF Sum
  <2>4. total_requested_' - total_discarded_' = lost' + Sum(held) /\ lost' \in Nat
    BY <1>0, <2>1, <2>2, <2>3
  <2> QED BY <2>1, <2>4 DEF HeldInv, Sum, held
<1>4. ASSUME NEW b \in held, DeallocateFront(b) \/ DeallocateBack(b), aborted' = aborted
      PROVE  HeldInv'
  <2>1. /\ live' \cup back' = held \ {b} /\ lost' = lost
        /\ total_discarded_' = total_discarded_ + b.n /\ ~ aborted
        /\ total_requested_' = total_requested_
    BY <1>4, ReturnsOne DEF held
  <2>2. IsFiniteSet(held \ {b})
    BY <1>1, FS_Subset
  <2>3. IsFiniteSet(live') /\ IsFiniteSet(back')
    BY <2>1, <2>2, FS_Subset
  <2>4. Sum(held) \in Int /\ Sum(held \ {b}) = Sum(held) - b.n /\ b.n \in Int
    BY <1>1, BytesLess, SizeOf DEF Sum
  <2>5. total_requested_' - total_discarded_' = lost' + Sum(held \ {b})
    BY <1>0, <2>1, <2>4
  <2> QED BY <1>0, <2>1, <2>3, <2>5 DEF HeldInv, Sum
<1>5. ASSUME NEW b \in held, DeallocateFront(b) \/ DeallocateBack(b), aborted' # aborted
      PROVE  HeldInv'
  <2>1. StackViolation(b) /\ UNCHANGED <<back, lost>>
    BY <1>5 DEF DeallocateFront, DeallocateBack, DeallocateThrows, DeallocateTop
  <2> QED BY <2>1 DEF StackViolation, HeldInv
<1>6. CASE UNCHANGED fvars
  BY <1>6 DEF fvars, svars, counters, HeldInv
<1> QED BY <1>2, <1>3, <1>4, <1>5, <1>6 DEF FallbackNext, held

LEMMA FullStep == FInv /\ HeldInv /\ FullInv /\ [FallbackNext]_fvars => FullInv'
<1> SUFFICES ASSUME FInv, HeldInv, FullInv, [FallbackNext]_fvars, NoPadding
             PROVE  /\ \A align \in Aligns : position_' % align = 0
                    /\ position_' - Start = Sums!Total(Bytes, live') + stranded'
  BY DEF FullInv, NoPadding
<1> DEFINE Sum(s) == Sums!Total(Bytes, s)
           Goal == /\ \A align \in Aligns : position_' % align = 0
                   /\ position_' - Start = Sum(live') + stranded'
<1>0. /\ position_ \in Nat /\ Start \in Nat /\ stranded \in Nat
      /\ \A align \in Aligns : position_ % align = 0
      /\ position_ - Start = Sum(live) + stranded
      /\ live \in SUBSET [p : Nat, n : Sizes] /\ IsFiniteSet(live)
  BY BlocksTyped DEF FInv, IInv, TypeOK, Base!MonotonicTypeOK, FullInv, HeldInv
<1> HIDE DEF Sum
<1>1. ASSUME NEW n \in Sizes, NEW align \in Aligns
      PROVE  AlignUp(position_, align) = position_ /\ n \in Nat \ {0}
  BY <1>0, MultipleFacts DEF NoPadding
<1>2. ASSUME NEW n \in Sizes
      PROVE  \A align \in Aligns : (position_ + n) % align = 0 /\ (position_ - n) % align = 0
  BY <1>0, MultipleFacts DEF NoPadding
<1>3. ASSUME NEW n \in Sizes, NEW align \in Aligns, AllocateFront(n, align)
      PROVE  Goal
  <2>1. position_' = position_ + n /\ stranded' = stranded
    BY <1>1, <1>3, SameAlignUp DEF AllocateFront, Allocate, Base!Allocate, Base!Advance
  <2>2. PICK b \in [p : Nat, n : Sizes] : b.n = n /\ b \notin live /\ live' = live \cup {b}
    <3> DEFINE new == Block(position_, n)
    <3>1. live' = live \cup {new}
      BY <1>1, <1>3, SameAlignUp DEF AllocateFront, Allocate, Base!Allocate
    <3>2. new \in [p : Nat, n : Sizes] /\ new.n = n /\ new.p = position_
      BY <1>0
    <3>3. ASSUME NEW b \in live PROVE b.p < position_
      BY <1>0, BlockFacts DEF FInv
    <3>4. new \notin live
      BY <1>0, <3>2, <3>3
    <3> HIDE DEF new
    <3> QED BY <3>1, <3>2, <3>4
  <2>3. Sum(live) \in Int /\ Sum(live \cup {b}) = Sum(live) + n /\ n \in Int
    BY <1>0, <2>2, BytesMore, SizeOf DEF Sum
  <2>4. position_' - Start = Sum(live') + stranded'
    BY <1>0, <2>1, <2>2, <2>3
  <2>5. \A a \in Aligns : position_' % a = 0
    BY <1>2, <2>1
  <2> QED BY <2>4, <2>5
<1>4. ASSUME NEW b \in live \cup back, DeallocateFront(b), position_' # position_
      PROVE  Goal
  <2>1. DeallocateTop(b)
    BY <1>4 DEF DeallocateFront, StackViolation
  <2>2. b \in live
    BY <2>1, BackOutside DEF DeallocateTop, FInv
  <2>3. position_' = position_ - b.n /\ live' = live \ {b} /\ stranded' = stranded
    BY <2>1 DEF DeallocateTop, Discard
  <2>4. b \in [p : Nat, n : Sizes] /\ b.n \in Sizes
    BY <1>0, <2>2
  <2>5. Sum(live) \in Int /\ Sum(live \ {b}) = Sum(live) - b.n /\ b.n \in Int
    BY <1>0, <2>2, <2>4, BytesLess, SizeOf DEF Sum
  <2>6. position_' - Start = Sum(live') + stranded'
    BY <1>0, <2>3, <2>5
  <2>7. \A a \in Aligns : position_' % a = 0
    BY <1>2, <2>3, <2>4
  <2> QED BY <2>6, <2>7
<1>5. ASSUME UNCHANGED <<position_, live, stranded>> PROVE Goal
  BY <1>0, <1>5 DEF Sum
<1>6. ASSUME NEW n \in Sizes, NEW align \in Aligns,
             AllocateBack(n, align) \/ AllocateNowhere(n, align)
      PROVE  Goal
  <2>1. CASE AllocateThrows(n, align)
    <3>1. UNCHANGED <<position_, live, stranded>>
      BY <2>1 DEF AllocateThrows, Base!Overflow, Base!mvars
    <3> QED BY <1>5, <3>1
  <2>2. CASE PushThrows(n, align)
    <3>1. position_' = position_ + n /\ live' = live /\ stranded' = stranded + n
      BY <1>1, <2>2, SameAlignUp DEF PushThrows, Base!Advance
    <3>2. Sum(live) \in Int /\ n \in Nat
      BY <1>0, <1>1, BytesTotal DEF Sum
    <3>3. position_' - Start = Sum(live') + stranded'
      BY <1>0, <3>1, <3>2
    <3>4. \A a \in Aligns : position_' % a = 0
      BY <1>2, <3>1
    <3> QED BY <3>3, <3>4
  <2> QED BY <1>6, <2>1, <2>2 DEF AllocateBack, AllocateNowhere
<1>7. ASSUME NEW b \in live \cup back,
             DeallocateBack(b) \/ (DeallocateFront(b) /\ position_' = position_)
      PROVE  UNCHANGED <<position_, live, stranded>>
  <2>1. CASE DeallocateBack(b) \/ StackViolation(b)
    BY <2>1 DEF DeallocateBack, DeallocateThrows, StackViolation, Discard
  <2>2. ~ DeallocateTop(b) \/ position_' # position_
    <3> SUFFICES ASSUME DeallocateTop(b) PROVE position_' # position_
      OBVIOUS
    <3>1. b \in live /\ position_' = position_ - b.n
      BY BackOutside DEF DeallocateTop, FInv
    <3>2. b.n \in Nat \ {0}
      BY <3>1, BlockFacts DEF FInv
    <3> QED BY <1>0, <3>1, <3>2
  <2> QED BY <1>7, <2>1, <2>2 DEF DeallocateFront
<1>8. CASE UNCHANGED fvars
  <2>1. UNCHANGED <<position_, live, stranded>>
    BY <1>8 DEF fvars, svars
  <2> QED BY <1>5, <2>1 DEF Sum
<1> QED BY <1>3, <1>4, <1>5, <1>6, <1>7, <1>8 DEF FallbackNext, Sum

(* Nothing is held, and nothing has been charged.                          *)
LEMMA FallbackInitAccounts == FallbackInit => HeldInv /\ FullInv /\ ChargedInv
<1> SUFFICES ASSUME FallbackInit PROVE HeldInv /\ FullInv /\ ChargedInv
  OBVIOUS
<1>1. /\ live = {} /\ back = {} /\ lost = 0 /\ position_ = Start
      /\ total_requested_ = 0 /\ total_discarded_ = 0 /\ stranded = 0
      /\ max_needed_ = 0
  BY DEF FallbackInit, Init, Base!Init, Back!Init
<1>2. IsFiniteSet({}) /\ Sums!Total(Bytes, {}) = 0
  BY FS_EmptySet, Sums!TotalNone
<1>3. live \cup back = {}
  BY <1>1
<1>4. HeldInv
  BY <1>1, <1>2, <1>3 DEF HeldInv
<1>5. ChargedInv
  BY <1>1, <1>2 DEF ChargedInv
<1> QED BY <1>1, <1>2, <1>4, <1>5 DEF FullInv, NoPadding

(* A part of the blocks an amount accounts for is no more than the amount. *)
LEMMA PartCharged ==
  ASSUME NEW L \in SUBSET [p : Nat, n : Sizes], NEW K \in SUBSET [p : Nat, n : Sizes],
         IsFiniteSet(L), IsFiniteSet(K),
         NEW l \in Nat, NEW d, d = l + Sums!Total(Bytes, L \cup K)
  PROVE  Sums!Total(Bytes, L) \in Int /\ Sums!Total(Bytes, L) <= d
<1> DEFINE held == L \cup K
<1>1. held \in SUBSET [p : Nat, n : Sizes] /\ IsFiniteSet(held) /\ L \in SUBSET held
  BY FS_Union
<1>2. d = l + Sums!Total(Bytes, held)
  OBVIOUS
<1> HIDE DEF held
<1>3. Sums!Total(Bytes, held) \in Int /\ Sums!Total(Bytes, L) \in Int
  BY <1>1, BytesTotal
<1>4. Sums!Total(Bytes, L) <= Sums!Total(Bytes, held)
  BY <1>1, BytesGrow
<1> QED BY ONLY <1>2, <1>3, <1>4, l \in Nat

(* What clients hold of the buffer is part of what has been requested and  *)
(* not given back.                                                         *)
LEMMA LiveCharged ==
  ASSUME FInv, HeldInv, ~ aborted
  PROVE  /\ Sums!Total(Bytes, live) \in Int
         /\ Sums!Total(Bytes, live) <= total_requested_ - total_discarded_
BY BlocksTyped, PartCharged DEF HeldInv

(* A request charges max_needed_ with all that is held once it is served.  *)
LEMMA ChargedStep ==
  FInv /\ FInv' /\ HeldInv /\ HeldInv' /\ ChargedInv /\ [FallbackNext]_fvars => ChargedInv'
<1> SUFFICES ASSUME FInv, FInv', HeldInv, HeldInv', ChargedInv, [FallbackNext]_fvars
             PROVE  ChargedInv'
  OBVIOUS
<1>0. /\ total_requested_ \in Int /\ total_discarded_ \in Int /\ max_needed_ \in Int
      /\ total_requested_' \in Int /\ total_discarded_' \in Int /\ max_needed_' \in Int
      /\ ~ aborted => total_requested_ - total_discarded_ <= max_needed_
  BY DEF FInv, IInv, TypeOK, ChargedInv
<1>1. ASSUME ~ aborted', total_requested_' - total_discarded_' <= max_needed_'
      PROVE  ChargedInv'
  <2>1. /\ Sums!Total(Bytes, live') \in Int
        /\ Sums!Total(Bytes, live') <= total_requested_' - total_discarded_'
    <3>1. /\ live' \in SUBSET [p : Nat, n : Sizes] /\ back' \in SUBSET [p : Nat, n : Sizes]
          /\ IsFiniteSet(live') /\ IsFiniteSet(back') /\ lost' \in Nat
          /\ total_requested_' - total_discarded_' = lost' + Sums!Total(Bytes, live' \cup back')
      BY <1>1 DEF FInv, IInv, BackOK, TypeOK, Base!MonotonicTypeOK, HeldInv
    <3> QED BY <3>1, PartCharged
  <2>2. Sums!Total(Bytes, live') <= max_needed_'
    <3> DEFINE total == Sums!Total(Bytes, live')
               rest == total_requested_' - total_discarded_'
    <3>0. rest \in Int
      BY ONLY <1>0
    <3>1. total \in Int /\ rest \in Int /\ total <= rest /\ rest <= max_needed_'
      BY <1>1, <2>1, <3>0, Zenon
    <3> HIDE DEF total, rest
    <3>2. total <= max_needed_'
      BY ONLY <1>0, <3>1
    <3> QED BY <3>2 DEF total
  <2> QED BY <1>1, <2>2 DEF ChargedInv
<1>2. ASSUME NEW n \in Sizes, Charge(n)
      PROVE  ChargedInv'
  <2>1. /\ ~ aborted' /\ n \in Nat
        /\ total_requested_' = total_requested_ + n
        /\ total_discarded_' = total_discarded_
        /\ max_needed_' = Bigger(max_needed_, total_requested_' - total_discarded_)
    BY <1>2 DEF Charge
  <2> QED BY <1>0, <1>1, <2>1 DEF Bigger
<1>3. ASSUME NEW b \in live \cup back, Discard(b.n), aborted' = aborted
      PROVE  ChargedInv'
  <2>1. b.n \in Nat
    BY BlocksTyped, SizeOf
  <2>2. /\ ~ aborted' /\ ~ aborted /\ total_requested_' = total_requested_
        /\ total_discarded_' = total_discarded_ + b.n /\ max_needed_' = max_needed_
    BY <1>3 DEF Discard
  <2> QED BY <1>0, <1>1, <2>1, <2>2
<1>4. ASSUME NEW b \in live \cup back, StackViolation(b)
      PROVE  ChargedInv'
  BY <1>4 DEF StackViolation, Discard, ChargedInv
<1>5. CASE UNCHANGED fvars
  BY <1>5 DEF fvars, svars, counters, ChargedInv
<1>6. ASSUME NEW n \in Sizes, NEW align \in Aligns,
             \/ AllocateFront(n, align) \/ AllocateBack(n, align)
             \/ AllocateNowhere(n, align)
      PROVE  ChargedInv'
  <2>1. Charge(n)
    BY <1>6 DEF AllocateFront, AllocateBack, AllocateNowhere, Allocate,
                AllocateThrows, PushThrows
  <2> QED BY <1>2, <2>1
<1>7. ASSUME NEW b \in live \cup back, DeallocateFront(b) \/ DeallocateBack(b)
      PROVE  ChargedInv'
  <2>1. StackViolation(b) \/ (Discard(b.n) /\ aborted' = aborted)
    BY <1>7 DEF DeallocateFront, DeallocateBack, DeallocateTop, DeallocateThrows
  <2> QED BY <1>3, <1>4, <1>7, <2>1
<1> QED BY <1>5, <1>6, <1>7 DEF FallbackNext

(* A fallback loses count of nothing: what was requested and not given     *)
(* back is held or was refused by both resources, and a buffer without     *)
(* padding is free again as soon as its own blocks are back, but for what  *)
(* throwing pushes took, however many blocks of the other resource are     *)
(* still out (fallback::allocate, fallback::deallocate).                   *)
THEOREM FallbackNothingLost == FallbackSpec => []NothingLost
<1>1. FallbackInit => HeldInv /\ FullInv
  BY FallbackInitAccounts
<1>2. ASSUME FInv, HeldInv, FullInv PROVE NothingLost
  <2>1. IsFiniteSet(live \cup back)
    BY <1>2, FS_Union DEF HeldInv
  <2>2. MapThenSumSet(LAMBDA b : b.n, live \cup back) = Sums!Total(Bytes, live \cup back)
    BY <1>2, <2>1, BlocksTyped, BytesAre
  <2>3. HeldBytes
    BY <1>2, <2>2 DEF HeldInv, HeldBytes
  <2>4. Reclaimed
    <3> SUFFICES ASSUME NoPadding, live = {} PROVE position_ = Start + stranded
      BY DEF Reclaimed
    <3>1. Sums!Total(Bytes, live) = 0
      BY Sums!TotalNone
    <3>2. /\ position_ \in Nat /\ Start \in Nat /\ stranded \in Nat
          /\ position_ - Start = stranded
      BY <1>2, <3>1 DEF FullInv, FInv, IInv, TypeOK, Base!MonotonicTypeOK
    <3> QED BY <3>2
  <2> QED BY <2>3, <2>4 DEF NothingLost
<1>3. FInv /\ HeldInv /\ FullInv => NothingLost
  BY <1>2
<1> QED
  BY <1>1, <1>3, HeldStep, FullStep, FallbackInductive, PTL DEF FallbackSpec

(* The accounts of a fallback, all together.                               *)
LEMMA FallbackAccounts == FallbackSpec => [](FInv /\ HeldInv /\ FullInv /\ ChargedInv)
<1>1. FallbackInit => HeldInv /\ FullInv /\ ChargedInv
  BY FallbackInitAccounts
<1>2. FInv /\ HeldInv /\ FullInv /\ ChargedInv /\ [FallbackNext]_fvars /\ FInv'
        => HeldInv' /\ FullInv' /\ ChargedInv'
  BY HeldStep, FullStep, ChargedStep
<1> QED
  BY <1>1, <1>2, FallbackInductive, PTL DEF FallbackSpec

(* What the stack below a fallback has in use never exceeds the largest    *)
(* need it has reported by more than what throwing pushes took, although   *)
(* the counters also follow blocks of the other resource (max_needed_).    *)
THEOREM FallbackHighWater == FallbackSpec => []HighWater
<1>1. ASSUME FInv, FullInv, HeldInv, ChargedInv, NoPadding
      PROVE  position_ - Start <= max_needed_ + stranded
  <2>1. Sums!Total(Bytes, live) \in Int
    BY <1>1, BlocksTyped, BytesTotal DEF HeldInv
  <2>2. /\ position_ \in Nat /\ Start \in Nat /\ stranded \in Nat /\ max_needed_ \in Nat
    BY <1>1 DEF FInv, IInv, TypeOK, Base!MonotonicTypeOK
  <2>3. /\ position_ - Start = Sums!Total(Bytes, live) + stranded
        /\ Sums!Total(Bytes, live) <= max_needed_
    BY <1>1 DEF FullInv, ChargedInv
  <2> QED BY <2>1, <2>2, <2>3
<1>2. FInv /\ HeldInv /\ FullInv /\ ChargedInv => HighWater
  BY <1>1 DEF HighWater
<1> QED BY <1>2, FallbackAccounts, PTL

(* Sizing by experiment works as far as the stack is concerned: without    *)
(* padding, and with stranded bytes set aside, a request that a buffer of  *)
(* max_needed() bytes does not serve is one whose push threw (the examples *)
(* of memory/fallback.hpp).                                                *)
THEOREM FallbackNeededSuffices == FallbackSpec => NeededSuffices
<1>1. ASSUME FInv, HeldInv, FullInv, NoPadding, FallbackNext,
             stranded' = stranded, fallbacks_' # fallbacks_
      PROVE  ~ (max_needed_' + stranded <= Size)
  <2>1. PICK n \in Sizes, align \in Aligns :
          AllocateBack(n, align) \/ AllocateNowhere(n, align)
    BY <1>1 DEF FallbackNext, AllocateFront, DeallocateFront, DeallocateBack
  <2>2. /\ n \in Nat \ {0} /\ align \in Nat \ {0} /\ position_ \in Nat /\ Start \in Nat
        /\ Start <= position_ /\ Size \in Nat /\ stranded \in Nat
        /\ total_requested_ \in Nat /\ total_discarded_ \in Nat /\ max_needed_ \in Nat
    BY <1>1 DEF FInv, IInv, TypeOK, Base!MonotonicTypeOK
  <2>3. AllocateThrows(n, align)
    BY <1>1, <2>1, <2>2 DEF AllocateBack, AllocateNowhere, PushThrows
  <2>4. /\ ~ Base!Fits(n, align) /\ ~ aborted
        /\ total_requested_' = total_requested_ + n
        /\ max_needed_' = Bigger(max_needed_, total_requested_' - total_discarded_)
    BY <2>3 DEF AllocateThrows, Charge, Base!Overflow
  <2>5. AlignUp(position_, align) = position_
    <3>1. position_ % align = 0 /\ n % align = 0
      BY <1>1 DEF FullInv, NoPadding
    <3> QED BY <2>2, <3>1, MultipleFacts
  <2>6. position_ + n > Start + Size
    BY <2>2, <2>4, <2>5, SameAlignUp DEF Base!Fits
  <2>7. /\ Sums!Total(Bytes, live) \in Int
        /\ Sums!Total(Bytes, live) <= total_requested_ - total_discarded_
    BY <1>1, <2>4, LiveCharged
  <2>8. position_ - Start = Sums!Total(Bytes, live) + stranded
    BY <1>1 DEF FullInv
  <2>9. max_needed_' \in Int /\ total_requested_ + n - total_discarded_ <= max_needed_'
    BY <2>2, <2>4 DEF Bigger
  <2>10. max_needed_' + stranded > Size
    <3> DEFINE total == Sums!Total(Bytes, live)
               need == max_needed_'
    <3>1. total \in Int /\ total <= total_requested_ - total_discarded_
          /\ position_ - Start = total + stranded /\ need \in Int
          /\ total_requested_ + n - total_discarded_ <= need
      BY <2>7, <2>8, <2>9
    <3> HIDE DEF total, need
    <3>2. need + stranded > Size
      BY ONLY <2>2, <2>6, <3>1
    <3> QED BY <3>2 DEF need
  <2> DEFINE need == max_needed_'
  <2>11. need \in Int /\ need + stranded > Size /\ stranded \in Nat /\ Size \in Nat
    BY <2>2, <2>9, <2>10
  <2> HIDE DEF need
  <2>12. ~ (need + stranded <= Size)
    BY ONLY <2>11
  <2> QED BY <2>12 DEF need
<1>2. FInv /\ HeldInv /\ FullInv /\ ChargedInv /\ [FallbackNext]_fvars
        => [NoPadding /\ stranded' = stranded /\ max_needed_' + stranded <= Size
              => fallbacks_' = fallbacks_]_fvars
  BY <1>1
<1> QED
  BY <1>2, FallbackAccounts, PTL DEF FallbackSpec, NeededSuffices
=============================================================================
