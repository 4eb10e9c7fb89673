------------------------------ MODULE Fallback ------------------------------
(***************************************************************************)
(* memory/fallback.hpp: class fallback<stack>, a stack resource (its base  *)
(* class) that turns to a second resource, back_, whenever the stack       *)
(* throws.  Which of the two a returned block belongs to is not recorded:  *)
(* deallocate() tries the stack and lets its refusal, an address outside   *)
(* the buffer, lead to back_.                                              *)
(*                                                                         *)
(* back_ is an external resource (std::pmr or aligned_alloc): it keeps the *)
(* promise of Resource on addresses outside the buffer, and may throw.     *)
(***************************************************************************)
EXTENDS Stack, FiniteSetsExt

CONSTANT BackAddresses      \* the bytes back_ may hand out

ASSUME FallbackAssumption ==
  /\ BackAddresses \subseteq Nat
  /\ BackAddresses \cap (Start .. Start + Size - 1) = {}
  /\ Foreign = [p : BackAddresses, n : Sizes]

VARIABLES
  fallbacks_,   \* requests the stack could not serve
  back,         \* the blocks of back_ clients hold (a history variable)
  lost          \* bytes requested that nobody could serve (history)

fvars == <<svars, fallbacks_, back, lost>>

Back == INSTANCE Resource WITH live <- back, Addresses <- BackAddresses

FallbackInit ==
  /\ Init
  /\ fallbacks_ = 0
  /\ Back!Init
  /\ lost = 0

(* allocate(): the stack, and in its catch(...) clause back_, which may    *)
(* throw in turn.  fallbacks_ counts the attempt either way, and the       *)
(* clause does not ask what was thrown, nor what the stack had done first. *)
AllocateFront(n, align) ==
  Allocate(n, align) /\ UNCHANGED <<fallbacks_, back, lost>>

AllocateBack(n, align) ==
  /\ AllocateThrows(n, align) \/ PushThrows(n, align)
  /\ fallbacks_' = fallbacks_ + 1
  /\ Back!Allocate(n, align)
  /\ UNCHANGED lost

AllocateNowhere(n, align) ==
  /\ AllocateThrows(n, align) \/ PushThrows(n, align)
  /\ fallbacks_' = fallbacks_ + 1
  /\ lost' = lost + n
  /\ UNCHANGED back

(* deallocate(): the stack, and in its catch(...) clause back_.            *)
DeallocateFront(b) ==
  /\ DeallocateTop(b) \/ StackViolation(b)
  /\ UNCHANGED <<fallbacks_, back, lost>>

DeallocateBack(b) ==
  /\ DeallocateThrows(b)
  /\ Back!Deallocate(b)
  /\ UNCHANGED <<fallbacks_, lost>>

FallbackNext ==
  \/ \E n \in Sizes, align \in Aligns :
        \/ AllocateFront(n, align)
        \/ AllocateBack(n, align)
        \/ AllocateNowhere(n, align)
  \/ \E b \in live \cup back : DeallocateFront(b) \/ DeallocateBack(b)

FallbackSpec == FallbackInit /\ [][FallbackNext]_fvars

-----------------------------------------------------------------------------
(* A block goes back to the resource it came from, although only its       *)
(* address decides (fallback::deallocate).                                 *)
RoutedByOwner ==
  /\ \A b \in live : Base!Owns(b.p)
  /\ \A b \in back : ~ Base!Owns(b.p)

(* The counters of the stack follow the blocks of both resources: a block  *)
(* the stack refused is counted once when requested and once when given    *)
(* back (stack::allocate, stack::deallocate below a fallback).             *)
HeldBytes ==
  ~ aborted => total_requested_ - total_discarded_
                 = lost + MapThenSumSet(LAMBDA b : b.n, live \cup back)

(* Where sizes need no padding the buffer, too, is accounted for: once all *)
(* its blocks are back, in the order the assertion demands, all of it is   *)
(* free but what the pushes that threw took, whatever back_ served in      *)
(* their place or was asked for in between, and whatever came back first.  *)
Reclaimed == NoPadding /\ live = {} => position_ = Start + stranded
NothingLost == HeldBytes /\ Reclaimed

(* What a fallback would promise if the stack undid what it had begun: all *)
(* of the buffer is free.  It does not, and this formula is false.         *)
AllReclaimed == NoPadding /\ live = {} => position_ = Start

(* The examples of fallback.hpp resize the buffer to max_needed(): with    *)
(* sizes that need no padding, and stranded bytes set aside, a buffer of   *)
(* max_needed() bytes never falls back, but for a push that throws.  Both  *)
(* sides of the comparison only grow, so it is enough to compare at the    *)
(* fallback.                                                               *)
NeededSuffices ==
  [][NoPadding /\ stranded' = stranded /\ max_needed_' + stranded <= Size
       => fallbacks_' = fallbacks_]_fvars

(* Together the two resources are one: blocks held are disjoint whichever  *)
(* side they came from.                                                    *)
Whole == INSTANCE Resource WITH
  live <- live \cup back,
  Addresses <- Start .. Start + Size - 1 \cup BackAddresses
ImplementsWhole == Whole!Spec
=============================================================================
