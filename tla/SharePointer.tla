---------------------------- MODULE SharePointer ----------------------------
(***************************************************************************)
(* library::share_pointer and library::weak_pointer (library/pointer.h) to  *)
(* one object, and their intrusive twins: the life of the object and of the *)
(* memory of its two counts, while threads copy, move, lock and drop        *)
(* pointers.  All share pointers together hold one of the weak count.       *)
(*                                                                          *)
(* A pointer variable belongs to one thread at a time; every interlocked    *)
(* operation on a count is a step.                                          *)
(***************************************************************************)
EXTENDS Naturals, FiniteSets, FiniteSetsExt

CONSTANTS
  Threads,
  PointerLimit   \* pointers of both kinds that exist at a time

ASSUME SharePointerAssumption ==
  /\ PointerLimit \in Nat \ {0}
  /\ IsFiniteSet(Threads)

VARIABLES
  use,      \* reference._use
  weak,     \* reference._weak
  object,   \* destroy_object: "alive", "destroyed"
  memory,   \* destroy_reference: "allocated", "freed"
  shares,   \* share pointers each thread holds
  weaks,    \* weak pointers each thread holds
  pc,
  seen      \* the _use a thread in lock has read

vars == <<use, weak, object, memory, shares, weaks, pc, seen>>

TypeOK ==
  /\ use \in Nat
  /\ weak \in Nat
  /\ object \in {"alive", "destroyed"}
  /\ memory \in {"allocated", "freed"}
  /\ shares \in [Threads -> Nat]
  /\ weaks \in [Threads -> Nat]
  /\ pc \in [Threads -> {"idle", "destroy_object", "release_weak", "destroy_reference", "lock"}]
  /\ seen \in [Threads -> Nat]

-----------------------------------------------------------------------------

Goto(t, label) == pc' = [pc EXCEPT ![t] = label]

\* allocate_share, or the constructor that takes a plain pointer.
Init ==
  /\ use = 1
  /\ weak = 1
  /\ object = "alive"
  /\ memory = "allocated"
  /\ \E t \in Threads : shares = [u \in Threads |-> IF u = t THEN 1 ELSE 0]
  /\ weaks = [t \in Threads |-> 0]
  /\ pc = [t \in Threads |-> "idle"]
  /\ seen = [t \in Threads |-> 0]

Room == MapThenSumSet(LAMBDA t : shares[t] + weaks[t], Threads) < PointerLimit

\* Copies, from a share pointer for the first and from either kind for the
\* second; share_pointer_this counts like the first.
CopyShare(t) ==
  /\ pc[t] = "idle" /\ Room
  /\ shares[t] > 0
  /\ use' = use + 1
  /\ shares' = [shares EXCEPT ![t] = @ + 1]
  /\ UNCHANGED <<weak, object, memory, weaks, pc, seen>>

CopyWeak(t) ==
  /\ pc[t] = "idle" /\ Room
  /\ shares[t] + weaks[t] > 0
  /\ weak' = weak + 1
  /\ weaks' = [weaks EXCEPT ![t] = @ + 1]
  /\ UNCHANGED <<use, object, memory, shares, pc, seen>>

\* Moves into a pointer of another thread change no count.
MoveShare(t, u) ==
  /\ pc[t] = "idle" /\ t # u
  /\ shares[t] > 0
  /\ shares' = [shares EXCEPT ![t] = @ - 1, ![u] = @ + 1]
  /\ UNCHANGED <<use, weak, object, memory, weaks, pc, seen>>

MoveWeak(t, u) ==
  /\ pc[t] = "idle" /\ t # u
  /\ weaks[t] > 0
  /\ weaks' = [weaks EXCEPT ![t] = @ - 1, ![u] = @ + 1]
  /\ UNCHANGED <<use, weak, object, memory, shares, pc, seen>>

\* ~share_pointer: the last one destroys the object and then gives up the
\* weak count the share pointers hold.
DropShare(t) ==
  /\ pc[t] = "idle"
  /\ shares[t] > 0
  /\ shares' = [shares EXCEPT ![t] = @ - 1]
  /\ use' = use - 1
  /\ Goto(t, IF use = 1 THEN "destroy_object" ELSE "idle")
  /\ UNCHANGED <<weak, object, memory, weaks, seen>>

DestroyObjectOnly(t) ==
  /\ pc[t] = "destroy_object"
  /\ object' = "destroyed"
  /\ Goto(t, "idle")
  /\ UNCHANGED <<use, weak, memory, shares, weaks, seen>>

DestroyObject(t) ==
  /\ pc[t] = "destroy_object"
  /\ object' = "destroyed"
  /\ Goto(t, "release_weak")
  /\ UNCHANGED <<use, weak, memory, shares, weaks, seen>>

ReleaseWeak(t) ==
  /\ pc[t] = "release_weak"
  /\ weak' = weak - 1
  /\ Goto(t, IF weak = 1 THEN "destroy_reference" ELSE "idle")
  /\ UNCHANGED <<use, object, memory, shares, weaks, seen>>

\* ~weak_pointer.
DropWeak(t) ==
  /\ pc[t] = "idle"
  /\ weaks[t] > 0
  /\ weaks' = [weaks EXCEPT ![t] = @ - 1]
  /\ weak' = weak - 1
  /\ Goto(t, IF weak = 1 THEN "destroy_reference" ELSE "idle")
  /\ UNCHANGED <<use, object, memory, shares, seen>>

DestroyReference(t) ==
  /\ pc[t] = "destroy_reference"
  /\ memory' = "freed"
  /\ Goto(t, "idle")
  /\ UNCHANGED <<use, weak, object, shares, weaks, seen>>

\* weak_pointer::lock, and the intrusive share_pointer made from a weak one.
LockLoad(t) ==
  /\ pc[t] = "idle" /\ Room
  /\ weaks[t] > 0
  /\ use > 0
  /\ seen' = [seen EXCEPT ![t] = use]
  /\ Goto(t, "lock")
  /\ UNCHANGED <<use, weak, object, memory, shares, weaks>>

LockBlind(t) ==
  /\ pc[t] = "lock"
  /\ use' = use + 1
  /\ shares' = [shares EXCEPT ![t] = @ + 1]
  /\ seen' = [seen EXCEPT ![t] = 0]
  /\ Goto(t, "idle")
  /\ UNCHANGED <<weak, object, memory, weaks>>

LockExchange(t) ==
  /\ pc[t] = "lock"
  /\ use = seen[t]
  /\ use' = use + 1
  /\ shares' = [shares EXCEPT ![t] = @ + 1]
  /\ seen' = [seen EXCEPT ![t] = 0]
  /\ Goto(t, "idle")
  /\ UNCHANGED <<weak, object, memory, weaks>>

\* A failed exchange yields the count to retry with; zero ends the loop with
\* an empty share pointer.
LockRetry(t) ==
  /\ pc[t] = "lock"
  /\ use # seen[t]
  /\ seen' = [seen EXCEPT ![t] = use]
  /\ Goto(t, IF use = 0 THEN "idle" ELSE "lock")
  /\ UNCHANGED <<use, weak, object, memory, shares, weaks>>

Next ==
  \E t \in Threads :
    \/ CopyShare(t) \/ CopyWeak(t)
    \/ \E u \in Threads : MoveShare(t, u) \/ MoveWeak(t, u)
    \/ DropShare(t) \/ DestroyObject(t) \/ ReleaseWeak(t)
    \/ DropWeak(t) \/ DestroyReference(t)
    \/ LockLoad(t) \/ LockExchange(t) \/ LockRetry(t)

Spec == Init /\ [][Next]_vars

-----------------------------------------------------------------------------

Destroyers == {t \in Threads : pc[t] \in {"destroy_object", "release_weak"}}
Freers     == {t \in Threads : pc[t] = "destroy_reference"}

\* Whoever holds a share pointer, one obtained by lock() included, finds the
\* object alive.
SharedIsAlive ==
  /\ TypeOK
  /\ (\E t \in Threads : shares[t] > 0) => object = "alive"

\* The memory of the counts outlives every pointer of either kind, every
\* lock() in progress and the destructor of the object.
CountsOutlivePointers ==
  memory = "freed" =>
    /\ Freers = {} /\ Destroyers = {}
    /\ \A t \in Threads : shares[t] = 0 /\ weaks[t] = 0 /\ pc[t] # "lock"

\* What a pointer refers to is there: the object for a share pointer, the counts
\* for a pointer of either kind, and for a call that is between two accesses
\* (pointer.h:126, :306).
PointersAreSafe == SharedIsAlive /\ CountsOutlivePointers

\* When all pointers are gone and no call is in progress nothing is left.
NoLeak ==
  (\A t \in Threads : pc[t] = "idle" /\ shares[t] = 0 /\ weaks[t] = 0) =>
    object = "destroyed" /\ memory = "freed"

=============================================================================
