------------------------- MODULE InstrumentedProofs -------------------------
(***************************************************************************)
(* Theorems about the leak detector, for every set of addresses, sizes and *)
(* alignments, every order of requests and returns, and a map that may run *)
(* out of memory at any new pointer.                                       *)
(***************************************************************************)
EXTENDS Instrumented, FiniteSetTheorems, TLAPS

(* Sums over finite sets.                                                  *)
Sums == INSTANCE LayoutProofs

(* The inductive invariant.  The balances alone do not say why a pointer   *)
(* at 0 may be booked again: that takes the disjointness of the blocks of  *)
(* back_, held and lost alike, by which one address belongs to at most one *)
(* of them.                                                                *)
BlocksOK ==
  /\ live \subseteq [p : Nat, n : Sizes]
  /\ lost \subseteq [p : Nat, n : Sizes]

AllApart == \A b, c \in live \cup lost : b # c => Apart(b, c)

Booked ==
  /\ \A b \in live : b.p \in DOMAIN blocks_ /\ blocks_[b.p] = b.n
  /\ \A p \in DOMAIN blocks_ : blocks_[p] # 0 => \E b \in live : b.p = p

IInv == BlocksOK /\ AllApart /\ Booked /\ LostUnseen

USE InstrumentedAssumption

(* Two blocks at one address share their first byte.                       *)
LEMMA OneBlockPerAddress ==
  ASSUME NEW b \in [p : Nat, n : Sizes], NEW c \in [p : Nat, n : Sizes], Apart(b, c)
  PROVE  b.p # c.p
<1>1. /\ b.p \in Nat /\ b.n \in Nat \ {0}
      /\ c.p \in Nat /\ c.n \in Nat \ {0}
  OBVIOUS
<1> QED BY <1>1 DEF Apart, End

(* What back_ promises of a block it hands out, whether or not the client  *)
(* gets it.                                                                *)
LEMMA Fresh ==
  ASSUME IInv, NEW p \in BackAddresses, NEW n \in Sizes, NEW align \in Aligns,
         Back!AllocateAt(p, n, align)
  PROVE  /\ Block(p, n) \in [p : Nat, n : Sizes]
         /\ \A b \in live \cup lost : Apart(Block(p, n), b) /\ b.p # p
         /\ \A b \in live \cup lost : Apart(b, Block(p, n))
<1>1. Block(p, n) \in [p : Nat, n : Sizes] /\ Block(p, n).p = p
  BY DEF Block
<1>2. \A b \in live \cup lost : Apart(Block(p, n), b)
  BY DEF Back!AllocateAt, Back!Apart, Back!End, Back!Block, Apart, End, Block
<1>3. \A b \in live \cup lost : b \in [p : Nat, n : Sizes]
  BY DEF IInv, BlocksOK
<1>4. \A b \in live \cup lost : b.p # p
  BY <1>1, <1>2, <1>3, OneBlockPerAddress
<1>5. \A b \in live \cup lost : Apart(b, Block(p, n))
  BY <1>2 DEF Apart
<1> QED BY <1>1, <1>2, <1>4, <1>5

LEMMA InitInv == Init => IInv
BY DEF Init, IInv, BlocksOK, AllApart, Booked, LostUnseen

(* What the map says of a pointer nobody holds.                            *)
LEMMA FreeBalance ==
  ASSUME IInv, NEW p, \A b \in live : b.p # p
  PROVE  Balance(p) = 0
BY DEF IInv, Booked, Balance

LEMMA AllocateInv ==
  ASSUME IInv, NEW n \in Sizes, NEW align \in Aligns, Allocate(n, align)
  PROVE  IInv'
<1>1. PICK p \in BackAddresses :
        /\ live' = live \cup {Block(p, n)} /\ lost' = lost
        /\ Back!AllocateAt(p, n, align) /\ blocks_' = Book(p, n)
  BY DEF Allocate
<1> DEFINE new == Block(p, n)
<1>2. /\ new \in [p : Nat, n : Sizes] /\ new.p = p /\ new.n = n
      /\ \A b \in live \cup lost : Apart(new, b) /\ Apart(b, new) /\ b.p # p
  BY <1>1, Fresh DEF Block
<1>3. /\ DOMAIN blocks_' = DOMAIN blocks_ \cup {p}
      /\ blocks_'[p] = n
      /\ \A q \in DOMAIN blocks_ : q # p => blocks_'[q] = blocks_[q]
  <2>1. Balance(p) = 0 /\ 0 + n = n
    BY <1>2, FreeBalance
  <2> QED BY <1>1, <2>1 DEF Book
<1>4. BlocksOK'
  BY <1>1, <1>2 DEF IInv, BlocksOK
<1>5. AllApart'
  BY <1>1, <1>2 DEF IInv, AllApart
<1>6. Booked'
  <2>1. ASSUME NEW b \in live'
        PROVE  b.p \in DOMAIN blocks_' /\ blocks_'[b.p] = b.n
    BY <1>1, <1>2, <1>3, <2>1 DEF IInv, Booked
  <2>2. ASSUME NEW q \in DOMAIN blocks_', blocks_'[q] # 0
        PROVE  \E b \in live' : b.p = q
    BY <1>1, <1>2, <1>3, <2>2 DEF IInv, Booked
  <2> QED BY <2>1, <2>2 DEF Booked
<1>7. LostUnseen'
  BY <1>1, <1>2, <1>3 DEF IInv, LostUnseen
<1> QED BY <1>4, <1>5, <1>6, <1>7 DEF IInv

LEMMA BookThrowsInv ==
  ASSUME IInv, NEW n \in Sizes, NEW align \in Aligns, BookThrows(n, align)
  PROVE  IInv'
<1>1. PICK p \in BackAddresses \ DOMAIN blocks_ :
        /\ lost' = lost \cup {Block(p, n)} /\ live' = live /\ blocks_' = blocks_
        /\ Back!AllocateAt(p, n, align)
  BY DEF BookThrows
<1> DEFINE new == Block(p, n)
<1>2. /\ new \in [p : Nat, n : Sizes] /\ new.p = p
      /\ \A b \in live \cup lost : Apart(new, b) /\ Apart(b, new)
  BY <1>1, Fresh DEF Block
<1>3. BlocksOK' /\ AllApart'
  BY <1>1, <1>2 DEF IInv, BlocksOK, AllApart
<1>4. Booked'
  BY <1>1 DEF IInv, Booked
<1>5. LostUnseen'
  BY <1>1, <1>2 DEF IInv, LostUnseen
<1> QED BY <1>3, <1>4, <1>5 DEF IInv

LEMMA DeallocateInv ==
  ASSUME IInv, NEW b \in live, Deallocate(b)
  PROVE  IInv'
<1>1. live' = live \ {b} /\ lost' = lost /\ blocks_' = Book(b.p, 0 - b.n)
  BY DEF Deallocate
<1>2. b.p \in Nat /\ b.n \in Nat /\ b.p \in DOMAIN blocks_ /\ blocks_[b.p] = b.n
  BY DEF IInv, BlocksOK, Booked
<1>3. /\ DOMAIN blocks_' = DOMAIN blocks_
      /\ blocks_'[b.p] = 0
      /\ \A q \in DOMAIN blocks_ : q # b.p => blocks_'[q] = blocks_[q]
  <2>1. Balance(b.p) = b.n /\ b.n + (0 - b.n) = 0
    BY <1>2 DEF Balance
  <2>2. DOMAIN blocks_ \cup {b.p} = DOMAIN blocks_
    BY <1>2
  <2> QED BY <1>1, <1>2, <2>1, <2>2 DEF Book
<1>4. \A c \in live' : c.p # b.p
  BY <1>1, OneBlockPerAddress DEF IInv, BlocksOK, AllApart
<1>5. BlocksOK' /\ AllApart'
  BY <1>1 DEF IInv, BlocksOK, AllApart
<1>6. Booked'
  <2>1. ASSUME NEW c \in live'
        PROVE  c.p \in DOMAIN blocks_' /\ blocks_'[c.p] = c.n
    BY <1>1, <1>3, <1>4, <2>1 DEF IInv, Booked
  <2>2. ASSUME NEW q \in DOMAIN blocks_', blocks_'[q] # 0
        PROVE  \E c \in live' : c.p = q
    BY <1>1, <1>3, <2>2 DEF IInv, Booked
  <2> QED BY <2>1, <2>2 DEF Booked
<1>7. LostUnseen'
  BY <1>1, <1>3 DEF IInv, LostUnseen
<1> QED BY <1>5, <1>6, <1>7 DEF IInv

LEMMA NextInv == IInv /\ [Next]_ivars => IInv'
<1> SUFFICES ASSUME IInv, [Next]_ivars PROVE IInv'
  OBVIOUS
<1>1. ASSUME UNCHANGED ivars PROVE IInv'
  BY <1>1 DEF ivars, IInv, BlocksOK, AllApart, Booked, LostUnseen
<1>2. ASSUME NEW n \in Sizes, NEW align \in Aligns,
             Allocate(n, align) \/ AllocateThrows(n, align) \/ BookThrows(n, align)
      PROVE  IInv'
  BY <1>1, <1>2, AllocateInv, BookThrowsInv DEF AllocateThrows
<1>3. ASSUME NEW b \in live, Deallocate(b) PROVE IInv'
  BY <1>3, DeallocateInv
<1> QED BY <1>1, <1>2, <1>3 DEF Next

LEMMA InductiveInvariant == Spec => []IInv
BY InitInv, NextInv, PTL DEF Spec

(* A block that is lost because blocks_ has no memory for its pointer has  *)
(* an address no client had before or ever gets (instrumented::allocate).  *)
THEOREM InstrumentedLostUnseen == Spec => []LostUnseen
<1>1. IInv => LostUnseen
  BY DEF IInv
<1> QED BY <1>1, InductiveInvariant, PTL

(* A balance that is not 0 is the size of the one block a client holds at  *)
(* that pointer, whatever sizes were held there before (instrumented).     *)
THEOREM InstrumentedBalanceOfHeld == Spec => []BalanceOfHeld
<1>1. IInv => BalanceOfHeld
  <2> SUFFICES ASSUME IInv, NEW p \in DOMAIN blocks_, blocks_[p] # 0
               PROVE  Block(p, blocks_[p]) \in live
    BY DEF BalanceOfHeld
  <2>1. PICK b \in live : b.p = p /\ blocks_[p] = b.n
    BY DEF IInv, Booked
  <2>2. b = Block(p, blocks_[p])
    BY <2>1 DEF IInv, BlocksOK, Block
  <2> QED BY <2>2
<1> QED BY <1>1, InductiveInvariant, PTL

-----------------------------------------------------------------------------
(* leak() adds up what was booked, pointer by pointer; what clients hold   *)
(* is a sum over blocks.  A call changes one term of each by as much.      *)
Bytes == [b \in [p : Nat, n : Sizes] |-> b.n]

LeakInv ==
  /\ IsFiniteSet(DOMAIN blocks_) /\ IsFiniteSet(live)
  /\ Sums!Total(blocks_, DOMAIN blocks_) = Sums!Total(Bytes, live)

LEMMA SameFinite == \A S : Sums!IsFiniteSet(S) <=> IsFiniteSet(S)
BY DEF IsFiniteSet, Sums!IsFiniteSet

LEMMA LeakIsTotal == leak = Sums!Total(blocks_, DOMAIN blocks_)
BY DEF leak, MapThenSumSet, MapThenFoldSet, Sums!Total, Sums!One

LEMMA HeldIsTotal ==
  ASSUME IInv, IsFiniteSet(live)
  PROVE  MapThenSumSet(LAMBDA b : b.n, live) = Sums!Total(Bytes, live)
<1> DEFINE Sum(h) == h = [s \in SUBSET live |->
                            IF s = {} THEN 0 ELSE Sums!One(s).n + h[s \ {Sums!One(s)}]]
           sum == CHOOSE h : Sum(h)
<1>1. MapThenSumSet(LAMBDA b : b.n, live) = sum[live]
  BY DEF MapThenSumSet, MapThenFoldSet, Sums!One
<1>2. Sums!IsFiniteSet(live)
  BY SameFinite
<1>3. PICK g : g = [s \in SUBSET live |-> Sums!SumStep(Bytes, g, s)]
  BY <1>2, Sums!SummingExists
<1>4. ASSUME NEW s \in SUBSET live, s # {}
      PROVE  Bytes[Sums!One(s)] = Sums!One(s).n
  <2>1. Sums!One(s) \in s
    BY <1>4, Sums!OneOf
  <2> QED BY <2>1 DEF IInv, BlocksOK, Bytes
<1>5. Sum(g)
  <2>1. ASSUME NEW s \in SUBSET live
        PROVE  Sums!SumStep(Bytes, g, s)
                 = IF s = {} THEN 0 ELSE Sums!One(s).n + g[s \ {Sums!One(s)}]
    BY <1>4 DEF Sums!SumStep
  <2> QED BY <1>3, <2>1
<1>6. Sum(sum)
  BY <1>5
<1> HIDE DEF sum
<1>7. Sums!Summing(Bytes, live, sum)
  <2>1. ASSUME NEW s \in SUBSET live
        PROVE  sum[s] = Sums!SumStep(Bytes, sum, s)
    BY <1>4, <1>6 DEF Sums!SumStep
  <2> QED BY <2>1 DEF Sums!Summing
<1>8. PICK k : Sums!Summing(Bytes, live, k) /\ Sums!Total(Bytes, live) = k[live]
  BY <1>2, Sums!TotalSums
<1>9. \A s \in SUBSET live : sum[s] = k[s]
  BY <1>2, <1>7, <1>8, Sums!SummingSame
<1> QED BY <1>1, <1>8, <1>9

LEMMA SizesOfHeld ==
  ASSUME IInv
  PROVE  /\ \A b \in live : Bytes[b] = b.n /\ b.n \in Int
         /\ \A p \in DOMAIN blocks_ : blocks_[p] \in Int
<1>1. ASSUME NEW b \in live
      PROVE  b \in [p : Nat, n : Sizes] /\ b.n \in Int
  <2>1. b \in [p : Nat, n : Sizes]
    BY DEF IInv, BlocksOK
  <2>2. b.n \in Sizes
    BY <2>1
  <2>3. b.n \in Nat
    BY <2>2
  <2> QED BY <2>1, <2>3
<1>2. ASSUME NEW p \in DOMAIN blocks_
      PROVE  blocks_[p] \in Int
  BY <1>1 DEF IInv, Booked
<1> QED BY <1>1, <1>2 DEF Bytes

LEMMA AllocateLeak ==
  ASSUME IInv, LeakInv, NEW n \in Sizes, NEW align \in Aligns, Allocate(n, align)
  PROVE  LeakInv'
<1>1. PICK p \in BackAddresses :
        /\ live' = live \cup {Block(p, n)}
        /\ Back!AllocateAt(p, n, align) /\ blocks_' = Book(p, n)
  BY DEF Allocate
<1> DEFINE new == Block(p, n)
           D == DOMAIN blocks_
<1>2. /\ new \in [p : Nat, n : Sizes] /\ new.p = p /\ new.n = n /\ n \in Int
      /\ \A b \in live : b.p # p
  <2>1. new \in [p : Nat, n : Sizes] /\ \A b \in live : b.p # p
    BY <1>1, Fresh
  <2> QED BY <2>1 DEF Block
<1>3. Balance(p) = 0
  BY <1>2, FreeBalance
<1>4. /\ DOMAIN blocks_' = D \cup {p} /\ blocks_'[p] = n
      /\ \A q \in D \ {p} : blocks_'[q] = blocks_[q]
      /\ p \in D => blocks_[p] = 0
  BY <1>1, <1>2, <1>3 DEF Book, Balance
<1>5. IsFiniteSet(D) /\ IsFiniteSet(live) /\ Sums!IsFiniteSet(D) /\ Sums!IsFiniteSet(live)
  BY SameFinite DEF LeakInv
<1>6. /\ \A b \in live : Bytes[b] \in Int
      /\ \A q \in D : blocks_[q] \in Int
  BY SizesOfHeld
<1>7. Bytes[new] = n /\ new \notin live
  BY <1>2 DEF Bytes
<1> HIDE DEF new, D
<1>8. /\ p \in D => Sums!Total(blocks_', D) = Sums!Total(blocks_, D) + n - blocks_[p]
      /\ p \notin D => Sums!Total(blocks_', D \cup {p}) = Sums!Total(blocks_, D) + n
  <2>0. PICK h : h = blocks_'
    OBVIOUS
  <2>1. h[p] = n /\ h[p] \in Int /\ \A q \in D \ {p} : h[q] = blocks_[q]
    BY <1>2, <1>4, <2>0
  <2>2. /\ p \in D => Sums!Total(h, D) = Sums!Total(blocks_, D) + h[p] - blocks_[p]
        /\ p \notin D => Sums!Total(h, D \cup {p}) = Sums!Total(blocks_, D) + h[p]
    <3>1. Sums!Changes(blocks_, h, D, p)
      BY <1>6, <2>1 DEF Sums!Changes
    <3>2. Sums!Changed(blocks_, h, D, p)
      BY <1>5, <3>1, Sums!TotalChanged
    <3> QED BY <3>2 DEF Sums!Changed
  <2> QED BY <2>0, <2>1, <2>2
<1>9. Sums!Total(Bytes, live \cup {new}) = Sums!Total(Bytes, live) + n
  <2>1. Bytes[new] \in Int
    BY <1>2, <1>7
  <2>2. Sums!Total(Bytes, live \cup {new}) = Sums!Total(Bytes, live) + Bytes[new]
    BY <1>5, <1>6, <1>7, <2>1, Sums!TotalMore
  <2> QED BY <1>7, <2>2
<1>10. Sums!Total(blocks_, D) \in Int
  BY <1>5, <1>6, Sums!TotalSplit
<1>11. Sums!Total(blocks_, D) = Sums!Total(Bytes, live)
  BY DEF LeakInv, D
<1>12. Sums!Total(blocks_', D \cup {p}) = Sums!Total(blocks_, D) + n
  <2>1. CASE p \in D
    <3>1. D \cup {p} = D
      BY <2>1
    <3>2. blocks_[p] = 0
      BY <1>4, <2>1
    <3>3. Sums!Total(blocks_', D) = Sums!Total(blocks_, D) + n - blocks_[p]
      BY <1>8, <2>1
    <3>4. Sums!Total(blocks_', D) = Sums!Total(blocks_, D) + n
      BY <1>2, <1>10, <3>2, <3>3
    <3> QED BY <3>1, <3>4
  <2>2. CASE p \notin D
    BY <1>8, <2>2
  <2> QED BY <2>1, <2>2
<1>13. IsFiniteSet(D \cup {p}) /\ IsFiniteSet(live \cup {new})
  BY <1>5, FS_AddElement
<1> QED BY <1>1, <1>4, <1>9, <1>11, <1>12, <1>13 DEF LeakInv, new

LEMMA DeallocateLeak ==
  ASSUME IInv, LeakInv, NEW b \in live, Deallocate(b)
  PROVE  LeakInv'
<1> DEFINE D == DOMAIN blocks_
<1>1. live' = live \ {b} /\ blocks_' = Book(b.p, 0 - b.n)
  BY DEF Deallocate
<1>2. b.n \in Int /\ b.p \in D /\ blocks_[b.p] = b.n /\ Bytes[b] = b.n
  BY SizesOfHeld DEF IInv, Booked
<1>3. /\ DOMAIN blocks_' = D /\ D \cup {b.p} = D /\ blocks_'[b.p] = 0
      /\ \A q \in D \ {b.p} : blocks_'[q] = blocks_[q]
  BY <1>1, <1>2 DEF Book, Balance
<1>4. IsFiniteSet(D) /\ IsFiniteSet(live) /\ Sums!IsFiniteSet(D) /\ Sums!IsFiniteSet(live)
  BY SameFinite DEF LeakInv
<1>5. /\ \A c \in live : Bytes[c] \in Int
      /\ \A q \in D : blocks_[q] \in Int
  BY SizesOfHeld
<1> HIDE DEF D
<1>6. Sums!Total(blocks_', D) = Sums!Total(blocks_, D) - b.n
  <2>0. PICK h, x : h = blocks_' /\ x = b.p
    OBVIOUS
  <2>1. h[x] = 0 /\ h[x] \in Int /\ \A q \in D \ {x} : h[q] = blocks_[q]
    BY <1>3, <2>0
  <2>2. x \in D /\ blocks_[x] = b.n
    BY <1>2, <2>0
  <2>3. Sums!Total(h, D) = Sums!Total(blocks_, D) + h[x] - blocks_[x]
    <3>1. Sums!Changes(blocks_, h, D, x)
      BY <1>5, <2>1 DEF Sums!Changes
    <3>2. Sums!Changed(blocks_, h, D, x)
      BY <1>4, <3>1, Sums!TotalChanged
    <3> QED BY <2>2, <3>2 DEF Sums!Changed
  <2>4. Sums!Total(blocks_, D) \in Int
    BY <1>4, <1>5, Sums!TotalSplit
  <2>5. Sums!Total(h, D) = Sums!Total(blocks_, D) - b.n
    BY <1>2, <2>1, <2>2, <2>3, <2>4
  <2> QED BY <2>0, <2>5
<1>7. Sums!Total(Bytes, live \ {b}) = Sums!Total(Bytes, live) - b.n
  <2>1. Sums!Total(Bytes, live) = Bytes[b] + Sums!Total(Bytes, live \ {b})
    BY <1>4, <1>5, Sums!TotalSplit
  <2>2. Sums!Total(Bytes, live \ {b}) \in Int
    <3> DEFINE T == live \ {b}
    <3>1. Sums!IsFiniteSet(T) /\ \A c \in T : Bytes[c] \in Int
      BY <1>4, <1>5, SameFinite, FS_Subset
    <3> HIDE DEF T
    <3>2. Sums!Total(Bytes, T) \in Int
      BY <3>1, Sums!TotalSplit
    <3> QED BY <3>2 DEF T
  <2> QED BY <1>2, <2>1, <2>2
<1>8. IsFiniteSet(live \ {b})
  BY <1>4, FS_Subset
<1> QED BY <1>1, <1>3, <1>4, <1>6, <1>7, <1>8 DEF LeakInv, D

LEMMA LeakStep == IInv /\ LeakInv /\ [Next]_ivars => LeakInv'
<1> SUFFICES ASSUME IInv, LeakInv, [Next]_ivars PROVE LeakInv'
  OBVIOUS
<1>1. ASSUME UNCHANGED <<blocks_, live>> PROVE LeakInv'
  BY <1>1 DEF LeakInv
<1>2. ASSUME NEW n \in Sizes, NEW align \in Aligns, Allocate(n, align)
      PROVE  LeakInv'
  BY <1>2, AllocateLeak
<1>3. ASSUME NEW b \in live, Deallocate(b) PROVE LeakInv'
  BY <1>3, DeallocateLeak
<1> QED BY <1>1, <1>2, <1>3 DEF Next, AllocateThrows, BookThrows, ivars

(* leak() is the number of bytes that clients hold, and 0 exactly when     *)
(* they have returned everything, although its map forgets no pointer and  *)
(* addresses come again with other sizes (instrumented::leak).             *)
THEOREM InstrumentedLeak == Spec => []LeakIsHeldBytes
<1>1. Init => LeakInv
  <2> SUFFICES ASSUME Init PROVE LeakInv
    OBVIOUS
  <2>1. DOMAIN blocks_ = {} /\ live = {}
    BY DEF Init
  <2>2. IsFiniteSet({})
    BY FS_EmptySet
  <2>3. Sums!Total(blocks_, {}) = 0 /\ Sums!Total(Bytes, {}) = 0
    BY Sums!TotalNone
  <2> QED BY <2>1, <2>2, <2>3 DEF LeakInv
<1>2. IInv /\ LeakInv => leak = MapThenSumSet(LAMBDA b : b.n, live)
  BY LeakIsTotal, HeldIsTotal DEF LeakInv
<1>3. IInv /\ LeakInv /\ BalanceOfHeld => LeakIsHeldBytes
  BY <1>2 DEF LeakIsHeldBytes
<1> QED
  BY <1>1, <1>3, LeakStep, InductiveInvariant, InstrumentedBalanceOfHeld, PTL DEF Spec
=============================================================================
