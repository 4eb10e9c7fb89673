---------------------------- MODULE Instrumented ----------------------------
(***************************************************************************)
(* memory/instrumented.hpp: class instrumented, the leak detector.  It     *)
(* passes every call on to back_ and keeps, per pointer, the balance of    *)
(* the bytes requested and returned there.  Pointers are never erased from *)
(* blocks_, and back_ hands out the same address again and again.          *)
(***************************************************************************)
EXTENDS Blocks, FiniteSetsExt

CONSTANTS
  BackAddresses,   \* the bytes back_ may hand out
  Sizes,           \* the sizes clients request
  Aligns           \* the alignments clients request

ASSUME InstrumentedAssumption ==
  /\ BackAddresses \subseteq Nat
  /\ Sizes \subseteq Nat \ {0}
  /\ Aligns \subseteq Nat \ {0}

VARIABLES
  blocks_,         \* std::map<void*, ptrdiff_t>
  live,            \* the blocks of back_ clients hold (a history variable)
  lost             \* the blocks of back_ that nobody got (a history variable)

ivars == <<blocks_, live, lost>>

(* back_, an external resource that keeps the promise of Resource.         *)
Back == INSTANCE Resource WITH Addresses <- BackAddresses, live <- live \cup lost

Init == blocks_ = [p \in {} |-> 0] /\ live = {} /\ lost = {}

(* std::map::operator[]: the balance of p, 0 when p is new.                *)
Balance(p) == IF p \in DOMAIN blocks_ THEN blocks_[p] ELSE 0

(* Mutant: = for +=.                                                       *)
Overwrite(p, n) == [q \in DOMAIN blocks_ \cup {p} |-> IF q = p THEN n ELSE blocks_[q]]

Book(p, n) == [q \in DOMAIN blocks_ \cup {p} |-> IF q = p THEN Balance(p) + n ELSE blocks_[q]]

Allocate(n, align) ==
  \E p \in BackAddresses :
    /\ live' = live \cup {Block(p, n)}
    /\ UNCHANGED lost
    /\ Back!AllocateAt(p, n, align)
    /\ blocks_' = Book(p, n)

(* back_ throws: nothing is booked.                                        *)
AllocateThrows(n, align) == UNCHANGED ivars

(* Mutant: a pointer that is known throws, too.                            *)
BookThrowsAnywhere(n, align) ==
  \E p \in BackAddresses :
    /\ lost' = lost \cup {Block(p, n)}
    /\ UNCHANGED <<blocks_, live>>
    /\ Back!AllocateAt(p, n, align)

(* back_ has answered, and blocks_ has no memory for a pointer it does not *)
(* know: the exception takes the block away from everyone.                 *)
BookThrows(n, align) ==
  \E p \in BackAddresses \ DOMAIN blocks_ :
    /\ lost' = lost \cup {Block(p, n)}
    /\ UNCHANGED <<blocks_, live>>
    /\ Back!AllocateAt(p, n, align)

Deallocate(b) ==
  /\ live' = live \ {b}
  /\ UNCHANGED lost
  /\ Back!Deallocate(b)
  /\ blocks_' = Book(b.p, 0 - b.n)

leak == MapThenSumSet(LAMBDA p : blocks_[p], DOMAIN blocks_)

Next ==
  \/ \E n \in Sizes, align \in Aligns :
        Allocate(n, align) \/ AllocateThrows(n, align) \/ BookThrows(n, align)
  \/ \E b \in live : Deallocate(b)

Spec == Init /\ [][Next]_ivars

-----------------------------------------------------------------------------
(* A pointer whose balance is not zero is a block a client holds, of that  *)
(* size, however often the address was reused with other sizes; so leak()  *)
(* is the number of bytes clients still hold, and 0 exactly when           *)
(* everything was returned, which every test asserts at the end of a scope *)
(* (instrumented.hpp: assert( not im.leak() )).                            *)
BalanceOfHeld ==
  \A p \in DOMAIN blocks_ : blocks_[p] # 0 => Block(p, blocks_[p]) \in live
LeakIsHeldBytes ==
  BalanceOfHeld /\ leak = MapThenSumSet(LAMBDA b : b.n, live)

(* What leak() cannot see was lost when it was requested: its address is   *)
(* none that clients had before or ever get, so the failure of the map     *)
(* costs the block and disturbs no balance.                                *)
LostUnseen == \A b \in lost : b.p \notin DOMAIN blocks_
=============================================================================
