------------------------------- MODULE Arena -------------------------------
(***************************************************************************)
(* grc::arena (library/grc/arena.h): objects addressed by handles and kept  *)
(* alive by a reference count that sits in a slot of a fixed array.         *)
(*                                                                          *)
(* A node's 32-bit _reference is modelled as its high bit, dead, and its    *)
(* low 31 bits, count.  A 64-bit _key is the slot index and a generation:   *)
(* the index never changes, so only the generation is kept, in key.  Every  *)
(* interlocked operation is one step; plain accesses are merged into the    *)
(* step of the same thread next to them only when nobody else looks at      *)
(* those fields meanwhile.  The slot allocator is the set free here; module *)
(* LockfreePool models it.                                                  *)
(*                                                                          *)
(* acquire() counts the caller even when it answers no, and the caller must *)
(* release() in every case: a stale handle leaves a stray reference on      *)
(* whatever the slot holds now, be it a dead slot, one under construction   *)
(* or another object.                                                       *)
(***************************************************************************)
EXTENDS Naturals, FiniteSets

CONSTANTS
  Slots,      \* indices of the nodes of _slot
  Threads,
  KeyLimit    \* generations available per slot: the 48 bits of the code

ASSUME ArenaAssumption ==
  /\ KeyLimit \in Nat
  /\ Slots # {}
  /\ IsFiniteSet(Threads)

VARIABLES
  key,        \* generation part of node._key
  dead,       \* bit 31 of node._reference
  count,      \* bits 0..30 of node._reference
  free,       \* slots held by the fixed_pool
  pc,
  slot,       \* the node each thread works on
  gen,        \* generation in the handle each thread was called with
  issued,     \* handles returned by attach so far (history)
  attached,   \* slots whose count includes attach's own reference (history)
  deleted     \* objects whose _deleter was called (history)

vars == <<key, dead, count, free, pc, slot, gen, issued, attached, deleted>>

Handle(s, g) == [slot |-> s, gen |-> g]
Handles      == [slot : Slots, gen : 1..KeyLimit]
Object(s)    == Handle(s, key[s])

Constructing == {"attach_write", "attach_increment", "attach_and"}
Destroying   == {"delete", "deallocate"}
Exclusive    == Constructing \union Destroying
Using        == {"using", "retired"}
Counted      == {"compare", "refused"} \union Using
PCs          == {"idle", "increment", "mark"} \union Exclusive \union Counted

TypeOK ==
  /\ key \in [Slots -> Nat]
  /\ dead \in [Slots -> BOOLEAN]
  /\ count \in [Slots -> Nat]
  /\ free \subseteq Slots
  /\ pc \in [Threads -> PCs]
  /\ slot \in [Threads -> Slots]
  /\ gen \in [Threads -> Nat]
  /\ issued \subseteq [slot : Slots, gen : Nat]
  /\ attached \subseteq Slots
  /\ deleted \subseteq [slot : Slots, gen : Nat]

-----------------------------------------------------------------------------

Goto(t, label) == pc' = [pc EXCEPT ![t] = label]

Init ==
  /\ key = [s \in Slots |-> 0]
  /\ dead = [s \in Slots |-> TRUE]
  /\ count = [s \in Slots |-> 0]
  /\ free = Slots
  /\ pc = [t \in Threads |-> "idle"]
  /\ slot = [t \in Threads |-> CHOOSE s \in Slots : TRUE]
  /\ gen = [t \in Threads |-> 0]
  /\ issued = {}
  /\ attached = {}
  /\ deleted = {}

\* arena::allocate.  With no slot left the callers stop the program.
Allocate(t, s) ==
  /\ pc[t] = "idle"
  /\ s \in free
  /\ key[s] < KeyLimit
  /\ free' = free \ {s}
  /\ slot' = [slot EXCEPT ![t] = s]
  /\ Goto(t, "attach_write")
  /\ UNCHANGED <<key, dead, count, gen, issued, attached, deleted>>

AttachWriteSameKey(t) ==
  /\ pc[t] = "attach_write"
  /\ Goto(t, "attach_increment")
  /\ UNCHANGED <<key, dead, count, free, slot, gen, issued, attached, deleted>>

\* node::attach: the object, its deleter and the new generation.  A thread
\* reads them only after an increment that found the dead bit clear.
AttachWrite(t) ==
  /\ pc[t] = "attach_write"
  /\ key' = [key EXCEPT ![slot[t]] = @ + 1]
  /\ Goto(t, "attach_increment")
  /\ UNCHANGED <<dead, count, free, slot, gen, issued, attached, deleted>>

AttachIncrement(t) ==
  /\ pc[t] = "attach_increment"
  /\ count' = [count EXCEPT ![slot[t]] = @ + 1]
  /\ attached' = attached \union {slot[t]}
  /\ Goto(t, "attach_and")
  /\ UNCHANGED <<key, dead, free, slot, gen, issued, deleted>>

AttachStoresOne(t) ==
  /\ pc[t] = "attach_and"
  /\ dead' = [dead EXCEPT ![slot[t]] = FALSE]
  /\ count' = [count EXCEPT ![slot[t]] = 1]
  /\ issued' = issued \union {Object(slot[t])}
  /\ Goto(t, "idle")
  /\ UNCHANGED <<key, free, slot, gen, attached, deleted>>

\* The mask keeps the stray references counted while the slot was dead.
AttachAnd(t) ==
  /\ pc[t] = "attach_and"
  /\ dead' = [dead EXCEPT ![slot[t]] = FALSE]
  /\ issued' = issued \union {Object(slot[t])}
  /\ Goto(t, "idle")
  /\ UNCHANGED <<key, count, free, slot, gen, attached, deleted>>

\* arena::get(key), then node::acquire(key), with any handle ever returned.
Get(t, h) ==
  /\ pc[t] = "idle"
  /\ h \in issued
  /\ slot' = [slot EXCEPT ![t] = h.slot]
  /\ gen' = [gen EXCEPT ![t] = h.gen]
  /\ Goto(t, "increment")
  /\ UNCHANGED <<key, dead, count, free, issued, attached, deleted>>

AcquireIncrement(t) ==
  /\ pc[t] = "increment"
  /\ count' = [count EXCEPT ![slot[t]] = @ + 1]
  /\ Goto(t, IF dead[slot[t]] THEN "refused" ELSE "compare")
  /\ UNCHANGED <<key, dead, free, slot, gen, issued, attached, deleted>>

AcquireCompareNoKey(t) ==
  /\ pc[t] = "compare"
  /\ Goto(t, "using")
  /\ UNCHANGED <<key, dead, count, free, slot, gen, issued, attached, deleted>>

AcquireCompare(t) ==
  /\ pc[t] = "compare"
  /\ Goto(t, IF key[slot[t]] = gen[t] THEN "using" ELSE "refused")
  /\ UNCHANGED <<key, dead, count, free, slot, gen, issued, attached, deleted>>

\* The user that ends the object's life drops the reference of attach: the
\* first of the two releases at the end of entity_loop.  Its result is
\* ignored: the caller still holds a reference of its own.
Retire(t) ==
  /\ pc[t] = "using"
  /\ slot[t] \in attached
  /\ count' = [count EXCEPT ![slot[t]] = @ - 1]
  /\ attached' = attached \ {slot[t]}
  /\ Goto(t, "retired")
  /\ UNCHANGED <<key, dead, free, slot, gen, issued, deleted>>

ReleaseRefusedNeverLast(t) ==
  /\ pc[t] \in {"refused"} \union Using
  /\ count' = [count EXCEPT ![slot[t]] = @ - 1]
  /\ Goto(t, IF pc[t] # "refused" /\ count[slot[t]] = 1 /\ ~dead[slot[t]]
             THEN "mark" ELSE "idle")
  /\ UNCHANGED <<key, dead, free, slot, gen, issued, attached, deleted>>

\* node::release, first half.  The decremented word is zero when the dead
\* bit is clear and no reference is left.
ReleaseDecrement(t) ==
  /\ pc[t] \in {"refused"} \union Using
  /\ count' = [count EXCEPT ![slot[t]] = @ - 1]
  /\ Goto(t, IF count[slot[t]] = 1 /\ ~dead[slot[t]] THEN "mark" ELSE "idle")
  /\ UNCHANGED <<key, dead, free, slot, gen, issued, attached, deleted>>

\* node::release, second half: compare-exchange of the whole word from 0.
ReleaseMark(t) ==
  /\ pc[t] = "mark"
  /\ LET last == count[slot[t]] = 0 /\ ~dead[slot[t]]
     IN  /\ dead' = IF last THEN [dead EXCEPT ![slot[t]] = TRUE] ELSE dead
         /\ Goto(t, IF last THEN "delete" ELSE "idle")
  /\ UNCHANGED <<key, count, free, slot, gen, issued, attached, deleted>>

Delete(t) ==
  /\ pc[t] = "delete"
  /\ deleted' = deleted \union {Object(slot[t])}
  /\ Goto(t, "deallocate")
  /\ UNCHANGED <<key, dead, count, free, slot, gen, issued, attached>>

\* arena::deallocate, by the caller of a release that answered true.
Deallocate(t) ==
  /\ pc[t] = "deallocate"
  /\ free' = free \union {slot[t]}
  /\ Goto(t, "idle")
  /\ UNCHANGED <<key, dead, count, slot, gen, issued, attached, deleted>>

Attach(t)  == AttachWrite(t) \/ AttachIncrement(t) \/ AttachAnd(t)
Acquire(t) == AcquireIncrement(t) \/ AcquireCompare(t)
Release(t) == ReleaseDecrement(t) \/ ReleaseMark(t) \/ Delete(t) \/ Deallocate(t)

Next ==
  \E t \in Threads :
    \/ \E s \in Slots : Allocate(t, s)
    \/ \E h \in issued : Get(t, h)
    \/ Attach(t)
    \/ Acquire(t)
    \/ Retire(t)
    \/ Release(t)

Spec == Init /\ [][Next]_vars

-----------------------------------------------------------------------------

Holders(s) == {t \in Threads : slot[t] = s /\ pc[t] \in Counted}

\* The count is exactly the callers between acquire and release, the refused
\* ones included, and the reference of attach: a stray increment on a dead or
\* reused slot is neither lost by attach's mask nor counted twice.
CountIsExact ==
  \A s \in Slots :
    count[s] = Cardinality(Holders(s)) + IF s \in attached THEN 1 ELSE 0

\* A caller told that its handle is valid works on the object the handle was
\* issued for, and that object is neither dead, nor deleted, nor is its slot
\* back in the pool, however stale references come and go.
UseIsSafe ==
  \A t \in Threads : pc[t] \in Using =>
    /\ key[slot[t]] = gen[t]
    /\ ~dead[slot[t]]
    /\ slot[t] \notin free
    /\ Object(slot[t]) \notin deleted

\* Of the threads that race to drop the last reference, or that see a count
\* pass through zero, one alone runs the deleter and returns the slot, once.
DestroyOnce ==
  /\ \A t, u \in Threads :
       pc[t] \in Exclusive /\ pc[u] \in Exclusive /\ slot[t] = slot[u] => t = u
  /\ \A t \in Threads : pc[t] = "delete" => Object(slot[t]) \notin deleted
  /\ \A t \in Threads : pc[t] \in Exclusive => slot[t] \notin free

\* When no call is in progress every slot is either in the pool or holds an
\* object that nobody has retired: no interleaving of releases leaves an
\* object without a thread that destroys it.
NoLeak ==
  (\A t \in Threads : pc[t] = "idle") =>
    \A s \in Slots : IF dead[s] THEN s \in free /\ (key[s] = 0 \/ Object(s) \in deleted)
                                ELSE s \in attached

-----------------------------------------------------------------------------

\* The handle table this arena implements.
Live   == {h \in issued : key[h.slot] = h.gen /\ ~dead[h.slot]}
Rooted == {h \in Live : h.slot \in attached}
StatusOf(t) ==
  LET h == Handle(slot[t], gen[t])
  IN  CASE pc[t] \in Using   -> [kind |-> "opened", handle |-> h]
        [] pc[t] = "refused" -> [kind |-> "refused", handle |-> h]
        [] OTHER             -> [kind |-> "idle"]
Status == [t \in Threads |-> StatusOf(t)]
Table  == INSTANCE HandleTable WITH live <- Live, rooted <- Rooted, status <- Status

\* The slots, generations and counts of the code implement the handle table.
ImplementsTable == Table!HSpec

=============================================================================
