--------------------------- MODULE OwnersProofs ---------------------------
(***************************************************************************)
(* The owners of MCOwners, for any number of threads and pointers: the      *)
(* share and weak pointers that threads share are safe, and every owner     *)
(* that one thread uses at a time owns exactly what it is said to own.      *)
(* The pointers that threads share come first.  The argument: _use is the   *)
(* number of share pointers, and _weak the number of weak pointers and one  *)
(* more until the last share pointer has destroyed the object and given     *)
(* that one up; so each count reaches zero once, and the thread that        *)
(* brought it there alone destroys.                                         *)
(***************************************************************************)
EXTENDS MCOwners, FiniteSetTheorems, SequenceTheorems, TLAPS

\* The pointers of a kind as a set: thread t holds had[t] of them.
PointersOf(had) == {p \in Threads \X Nat : 1 <= p[2] /\ p[2] <= had[p[1]]}

\* _use counts the share pointers.
UseIsExact ==
  /\ IsFiniteSet(PointersOf(shares))
  /\ use = Cardinality(PointersOf(shares))

\* _weak counts the weak pointers, and the share pointers together as one.
Shared == use > 0 \/ Destroyers # {}

WeakIsExact ==
  /\ IsFiniteSet(PointersOf(weaks))
  /\ weak = Cardinality(PointersOf(weaks)) + (IF Shared THEN 1 ELSE 0)

\* One thread destroys the object, once, after the last share pointer has gone.
ObjectIsRight ==
  /\ \A t, u \in Destroyers : t = u
  /\ Destroyers # {} => use = 0
  /\ object = "alive" <=> use > 0 \/ \E t \in Threads : pc[t] = "destroy_object"

\* One thread frees the counts, once, after the last pointer has gone.
MemoryIsRight ==
  /\ \A t, u \in Freers : t = u
  /\ weak = 0 <=> memory = "freed" \/ Freers # {}
  /\ memory = "freed" => Freers = {}

\* A thread in lock() holds a weak pointer and has seen a live object.
LocksAreRight ==
  \A t \in Threads : pc[t] = "lock" => weaks[t] > 0 /\ seen[t] > 0

IInv ==
  /\ TypeOK
  /\ UseIsExact
  /\ WeakIsExact
  /\ ObjectIsRight
  /\ MemoryIsRight
  /\ LocksAreRight

-----------------------------------------------------------------------------

\* One pointer more.
LEMMA PointerAdded ==
  ASSUME NEW f \in [Threads -> Nat], NEW t \in Threads, IsFiniteSet(PointersOf(f)),
         NEW g, g = [f EXCEPT ![t] = @ + 1]
  PROVE  /\ IsFiniteSet(PointersOf(g))
         /\ Cardinality(PointersOf(f)) \in Nat
         /\ Cardinality(PointersOf(g)) = Cardinality(PointersOf(f)) + 1
<1> DEFINE p == <<t, f[t] + 1>>
<1>1. PointersOf(g) = PointersOf(f) \union {p}
  <2>1. \A q \in Threads \X Nat : q \in PointersOf(g) <=> q \in PointersOf(f) \/ q = p
    BY DEF PointersOf
  <2>2. p \in Threads \X Nat
    OBVIOUS
  <2>3. QED
    BY <2>1, <2>2 DEF PointersOf
<1>2. p \notin PointersOf(f)
  BY DEF PointersOf
<1> HIDE DEF p
<1>3. /\ IsFiniteSet(PointersOf(f) \union {p})
      /\ Cardinality(PointersOf(f) \union {p}) = Cardinality(PointersOf(f)) + 1
  BY <1>2, FS_AddElement
<1>4. Cardinality(PointersOf(f)) \in Nat
  BY FS_CardinalityType
<1>5. QED
  BY <1>1, <1>3, <1>4

\* One pointer less.
LEMMA PointerRemoved ==
  ASSUME NEW f \in [Threads -> Nat], NEW t \in Threads, IsFiniteSet(PointersOf(f)), f[t] > 0,
         NEW g, g = [f EXCEPT ![t] = @ - 1]
  PROVE  /\ IsFiniteSet(PointersOf(g))
         /\ Cardinality(PointersOf(g)) \in Nat
         /\ Cardinality(PointersOf(f)) = Cardinality(PointersOf(g)) + 1
<1>1. g \in [Threads -> Nat] /\ f = [g EXCEPT ![t] = @ + 1]
  <2>1. f[t] \in Nat /\ f[t] - 1 \in Nat /\ f[t] - 1 + 1 = f[t]
    OBVIOUS
  <2>2. g \in [Threads -> Nat] /\ g[t] + 1 = f[t] /\ \A u \in Threads \ {t} : g[u] = f[u]
    BY <2>1
  <2>3. QED
    BY <2>2
<1>2. IsFiniteSet(PointersOf(g))
  <2>1. PointersOf(g) \subseteq PointersOf(f)
    BY DEF PointersOf
  <2>2. QED
    BY <2>1, FS_Subset
<1>3. QED
  BY <1>1, <1>2, PointerAdded

\* No pointers, no count.
LEMMA NoPointers ==
  ASSUME NEW f \in [Threads -> Nat], IsFiniteSet(PointersOf(f))
  PROVE  /\ Cardinality(PointersOf(f)) \in Nat
         /\ Cardinality(PointersOf(f)) = 0 <=> \A t \in Threads : f[t] = 0
<1>1. PointersOf(f) = {} <=> \A t \in Threads : f[t] = 0
  <2>1. ASSUME NEW t \in Threads, f[t] > 0 PROVE <<t, 1>> \in PointersOf(f)
    BY <2>1 DEF PointersOf
  <2>2. ASSUME NEW p \in PointersOf(f) PROVE p[1] \in Threads /\ f[p[1]] > 0
    BY DEF PointersOf
  <2>3. \A t \in Threads : f[t] \in Nat /\ (f[t] = 0 \/ f[t] > 0)
    OBVIOUS
  <2>4. (\E p \in PointersOf(f) : TRUE) <=> \E t \in Threads : f[t] > 0
    BY <2>1, <2>2
  <2>5. QED
    BY <2>3, <2>4
<1>2. QED
  BY <1>1, FS_EmptySet, FS_CardinalityType

\* What the counts say of the pointers that are held.
LEMMA CountsSay ==
  ASSUME IInv
  PROVE  /\ \A t \in Threads : shares[t] > 0 => use > 0
         /\ use = 0 => \A t \in Threads : shares[t] = 0
         /\ (\A t \in Threads : shares[t] = 0) => use = 0
         /\ \A t \in Threads : weaks[t] > 0 => weak > 0
         /\ Shared => weak > 0
         /\ weak = 0 => ~Shared /\ \A t \in Threads : weaks[t] = 0
         /\ ~Shared /\ (\A t \in Threads : weaks[t] = 0) => weak = 0
<1> USE DEF IInv, TypeOK
<1>1. use = 0 <=> \A t \in Threads : shares[t] = 0
  BY NoPointers DEF UseIsExact
<1>2. /\ Cardinality(PointersOf(weaks)) \in Nat
      /\ Cardinality(PointersOf(weaks)) = 0 <=> \A t \in Threads : weaks[t] = 0
  BY NoPointers DEF WeakIsExact
<1>3. weak = Cardinality(PointersOf(weaks)) + (IF Shared THEN 1 ELSE 0)
  BY DEF WeakIsExact
<1>4. \A t \in Threads : shares[t] > 0 => shares[t] # 0
  OBVIOUS
<1>5. \A t \in Threads : weaks[t] > 0 => weaks[t] # 0
  OBVIOUS
<1>6. use \in Nat /\ weak \in Nat
  OBVIOUS
<1>7. weak = 0 <=> ~Shared /\ \A t \in Threads : weaks[t] = 0
  BY <1>2, <1>3
<1>8. QED
  BY <1>1, <1>4, <1>5, <1>6, <1>7

\* No count is taken below zero.
LEMMA TypeStep ==
  ASSUME IInv, [Next]_vars
  PROVE  TypeOK'
<1> USE DEF IInv, TypeOK, Goto
<1>1. ASSUME NEW t \in Threads, CopyShare(t) PROVE TypeOK'
  BY <1>1, CountsSay DEF CopyShare
<1>2. ASSUME NEW t \in Threads, CopyWeak(t) PROVE TypeOK'
  BY <1>2, CountsSay DEF CopyWeak
<1>3. ASSUME NEW t \in Threads, NEW u \in Threads, MoveShare(t, u) PROVE TypeOK'
  <2>1. shares' \in [Threads -> Nat]
    BY <1>3 DEF MoveShare
  <2>2. QED
    BY <1>3, <2>1 DEF MoveShare
<1>4. ASSUME NEW t \in Threads, NEW u \in Threads, MoveWeak(t, u) PROVE TypeOK'
  <2>1. weaks' \in [Threads -> Nat]
    BY <1>4 DEF MoveWeak
  <2>2. QED
    BY <1>4, <2>1 DEF MoveWeak
<1>5. ASSUME NEW t \in Threads, DropShare(t) PROVE TypeOK'
  BY <1>5, CountsSay DEF DropShare
<1>6. ASSUME NEW t \in Threads, DestroyObject(t) PROVE TypeOK'
  BY <1>6, CountsSay DEF DestroyObject
<1>7. ASSUME NEW t \in Threads, ReleaseWeak(t) PROVE TypeOK'
  <2>1. Shared
    BY <1>7 DEF ReleaseWeak, Shared, Destroyers
  <2>2. weak - 1 \in Nat
    BY <2>1, CountsSay
  <2>3. QED
    BY <1>7, <2>2 DEF ReleaseWeak
<1>8. ASSUME NEW t \in Threads, DropWeak(t) PROVE TypeOK'
  BY <1>8, CountsSay DEF DropWeak
<1>9. ASSUME NEW t \in Threads, DestroyReference(t) PROVE TypeOK'
  BY <1>9, CountsSay DEF DestroyReference
<1>10. ASSUME NEW t \in Threads, LockLoad(t) PROVE TypeOK'
  BY <1>10, CountsSay DEF LockLoad
<1>11. ASSUME NEW t \in Threads, LockExchange(t) PROVE TypeOK'
  BY <1>11, CountsSay DEF LockExchange
<1>12. ASSUME NEW t \in Threads, LockRetry(t) PROVE TypeOK'
  BY <1>12, CountsSay DEF LockRetry
<1>13. CASE UNCHANGED vars
  BY <1>13 DEF vars
<1>14. QED
  BY <1>1, <1>2, <1>3, <1>4, <1>5, <1>6, <1>7, <1>8, <1>9, <1>10, <1>11, <1>12, <1>13
  DEF Next

\* _use moves with the share pointers.
LEMMA UseStep ==
  ASSUME IInv, [Next]_vars
  PROVE  UseIsExact'
<1> USE DEF IInv, TypeOK, UseIsExact, Goto
<1>1. ASSUME NEW t \in Threads, CopyShare(t) PROVE UseIsExact'
  <2>1. shares' = [shares EXCEPT ![t] = @ + 1]
    BY <1>1 DEF CopyShare
  <2>2. QED
    BY <1>1, <2>1, PointerAdded DEF CopyShare
<1>2. ASSUME NEW t \in Threads, CopyWeak(t) PROVE UseIsExact'
  BY <1>2 DEF CopyWeak
<1>3. ASSUME NEW t \in Threads, NEW u \in Threads, MoveShare(t, u) PROVE UseIsExact'
  <2> DEFINE less == [shares EXCEPT ![t] = @ - 1]
  <2>0. shares[t] > 0 /\ t # u /\ shares[t] - 1 \in Nat
    BY <1>3 DEF MoveShare
  <2>1. less \in [Threads -> Nat] /\ shares' = [less EXCEPT ![u] = @ + 1]
    <3>1. less \in [Threads -> Nat]
      BY <2>0
    <3>2. QED
      BY <1>3, <2>0, <3>1 DEF MoveShare
  <2>2. /\ IsFiniteSet(PointersOf(less)) /\ Cardinality(PointersOf(less)) \in Nat
        /\ Cardinality(PointersOf(shares)) = Cardinality(PointersOf(less)) + 1
    BY <2>0, PointerRemoved
  <2> HIDE DEF less
  <2>3. /\ IsFiniteSet(PointersOf(shares'))
        /\ Cardinality(PointersOf(shares')) = Cardinality(PointersOf(less)) + 1
    BY <2>1, <2>2, PointerAdded
  <2>4. QED
    BY <1>3, <2>2, <2>3 DEF MoveShare
<1>4. ASSUME NEW t \in Threads, NEW u \in Threads, MoveWeak(t, u) PROVE UseIsExact'
  BY <1>4 DEF MoveWeak
<1>5. ASSUME NEW t \in Threads, DropShare(t) PROVE UseIsExact'
  <2>1. shares' = [shares EXCEPT ![t] = @ - 1] /\ shares[t] > 0
    BY <1>5 DEF DropShare
  <2>2. /\ IsFiniteSet(PointersOf(shares')) /\ Cardinality(PointersOf(shares')) \in Nat
        /\ Cardinality(PointersOf(shares)) = Cardinality(PointersOf(shares')) + 1
    BY <2>1, PointerRemoved
  <2>3. QED
    BY <1>5, <2>2 DEF DropShare
<1>6. ASSUME NEW t \in Threads, DestroyObject(t) PROVE UseIsExact'
  BY <1>6 DEF DestroyObject
<1>7. ASSUME NEW t \in Threads, ReleaseWeak(t) PROVE UseIsExact'
  BY <1>7 DEF ReleaseWeak
<1>8. ASSUME NEW t \in Threads, DropWeak(t) PROVE UseIsExact'
  BY <1>8 DEF DropWeak
<1>9. ASSUME NEW t \in Threads, DestroyReference(t) PROVE UseIsExact'
  BY <1>9 DEF DestroyReference
<1>10. ASSUME NEW t \in Threads, LockLoad(t) PROVE UseIsExact'
  BY <1>10 DEF LockLoad
<1>11. ASSUME NEW t \in Threads, LockExchange(t) PROVE UseIsExact'
  <2>1. shares' = [shares EXCEPT ![t] = @ + 1]
    BY <1>11 DEF LockExchange
  <2>2. QED
    BY <1>11, <2>1, PointerAdded DEF LockExchange
<1>12. ASSUME NEW t \in Threads, LockRetry(t) PROVE UseIsExact'
  BY <1>12 DEF LockRetry
<1>13. CASE UNCHANGED vars
  BY <1>13 DEF vars
<1>14. QED
  BY <1>1, <1>2, <1>3, <1>4, <1>5, <1>6, <1>7, <1>8, <1>9, <1>10, <1>11, <1>12, <1>13
  DEF Next

\* _weak moves with the weak pointers, and once with the last destroyer.
LEMMA WeakStep ==
  ASSUME IInv, [Next]_vars
  PROVE  WeakIsExact'
<1> USE DEF IInv, TypeOK, WeakIsExact, Goto
<1>q. ASSUME weak' = weak, weaks' = weaks, Shared' <=> Shared PROVE WeakIsExact'
  BY <1>q
<1>1. ASSUME NEW t \in Threads, CopyShare(t) PROVE WeakIsExact'
  <2>1. Shared' <=> Shared
    BY <1>1, CountsSay DEF CopyShare, Shared, Destroyers
  <2>2. QED
    BY <1>1, <2>1, <1>q DEF CopyShare
<1>2. ASSUME NEW t \in Threads, CopyWeak(t) PROVE WeakIsExact'
  <2>1. Shared' <=> Shared
    BY <1>2 DEF CopyWeak, Shared, Destroyers
  <2>2. weaks' = [weaks EXCEPT ![t] = @ + 1] /\ weak' = weak + 1
    BY <1>2 DEF CopyWeak
  <2>3. /\ IsFiniteSet(PointersOf(weaks')) /\ Cardinality(PointersOf(weaks)) \in Nat
        /\ Cardinality(PointersOf(weaks')) = Cardinality(PointersOf(weaks)) + 1
    BY <2>2, PointerAdded
  <2>4. QED
    BY <2>1, <2>2, <2>3
<1>3. ASSUME NEW t \in Threads, NEW u \in Threads, MoveShare(t, u) PROVE WeakIsExact'
  <2>1. Shared' <=> Shared
    BY <1>3, CountsSay DEF MoveShare, Shared, Destroyers
  <2>2. QED
    BY <1>3, <2>1, <1>q DEF MoveShare
<1>4. ASSUME NEW t \in Threads, NEW u \in Threads, MoveWeak(t, u) PROVE WeakIsExact'
  <2>s. Shared' <=> Shared
    BY <1>4 DEF MoveWeak, Shared, Destroyers
  <2> DEFINE less == [weaks EXCEPT ![t] = @ - 1]
  <2>0. weaks[t] > 0 /\ t # u /\ weaks[t] - 1 \in Nat
    BY <1>4 DEF MoveWeak
  <2>1. less \in [Threads -> Nat] /\ weaks' = [less EXCEPT ![u] = @ + 1]
    <3>1. less \in [Threads -> Nat]
      BY <2>0
    <3>2. QED
      BY <1>4, <2>0, <3>1 DEF MoveWeak
  <2>2. /\ IsFiniteSet(PointersOf(less)) /\ Cardinality(PointersOf(less)) \in Nat
        /\ Cardinality(PointersOf(weaks)) = Cardinality(PointersOf(less)) + 1
    BY <2>0, PointerRemoved
  <2> HIDE DEF less
  <2>3. /\ IsFiniteSet(PointersOf(weaks'))
        /\ Cardinality(PointersOf(weaks')) = Cardinality(PointersOf(less)) + 1
    BY <2>1, <2>2, PointerAdded
  <2>4. QED
    BY <1>4, <2>s, <2>2, <2>3 DEF MoveWeak
<1>5. ASSUME NEW t \in Threads, DropShare(t) PROVE WeakIsExact'
  <2>1. Shared' <=> Shared
    BY <1>5, CountsSay DEF DropShare, Shared, Destroyers
  <2>2. QED
    BY <1>5, <2>1, <1>q DEF DropShare
<1>6. ASSUME NEW t \in Threads, DestroyObject(t) PROVE WeakIsExact'
  <2>1. Shared' <=> Shared
    BY <1>6, CountsSay DEF DestroyObject, Shared, Destroyers
  <2>2. QED
    BY <1>6, <2>1, <1>q DEF DestroyObject
<1>7. ASSUME NEW t \in Threads, ReleaseWeak(t) PROVE WeakIsExact'
  <2>1. Shared /\ ~Shared'
    BY <1>7 DEF ReleaseWeak, Shared, Destroyers, ObjectIsRight
  <2>2. weaks' = weaks /\ weak' = weak - 1
    BY <1>7 DEF ReleaseWeak
  <2>3. Cardinality(PointersOf(weaks)) \in Nat
    BY FS_CardinalityType
  <2>4. QED
    BY <2>1, <2>2, <2>3
<1>8. ASSUME NEW t \in Threads, DropWeak(t) PROVE WeakIsExact'
  <2>1. Shared' <=> Shared
    BY <1>8 DEF DropWeak, Shared, Destroyers
  <2>2. weaks' = [weaks EXCEPT ![t] = @ - 1] /\ weaks[t] > 0 /\ weak' = weak - 1
    BY <1>8 DEF DropWeak
  <2>3. /\ IsFiniteSet(PointersOf(weaks')) /\ Cardinality(PointersOf(weaks')) \in Nat
        /\ Cardinality(PointersOf(weaks)) = Cardinality(PointersOf(weaks')) + 1
    BY <2>2, PointerRemoved
  <2>4. QED
    BY <2>1, <2>2, <2>3
<1>9. ASSUME NEW t \in Threads, DestroyReference(t) PROVE WeakIsExact'
  <2>1. Shared' <=> Shared
    BY <1>9, CountsSay DEF DestroyReference, Shared, Destroyers
  <2>2. QED
    BY <1>9, <2>1, <1>q DEF DestroyReference
<1>10. ASSUME NEW t \in Threads, LockLoad(t) PROVE WeakIsExact'
  <2>1. Shared' <=> Shared
    BY <1>10, CountsSay DEF LockLoad, Shared, Destroyers
  <2>2. QED
    BY <1>10, <2>1, <1>q DEF LockLoad
<1>11. ASSUME NEW t \in Threads, LockExchange(t) PROVE WeakIsExact'
  <2>1. Shared' <=> Shared
    BY <1>11, CountsSay DEF LockExchange, LocksAreRight, Shared, Destroyers
  <2>2. QED
    BY <1>11, <2>1, <1>q DEF LockExchange
<1>12. ASSUME NEW t \in Threads, LockRetry(t) PROVE WeakIsExact'
  <2>1. Shared' <=> Shared
    BY <1>12, CountsSay DEF LockRetry, Shared, Destroyers
  <2>2. QED
    BY <1>12, <2>1, <1>q DEF LockRetry
<1>13. CASE UNCHANGED vars
  <2>1. Shared' <=> Shared
    BY <1>13 DEF vars, Shared, Destroyers
  <2>2. QED
    BY <1>13, <2>1, <1>q DEF vars
<1>14. QED
  BY <1>1, <1>2, <1>3, <1>4, <1>5, <1>6, <1>7, <1>8, <1>9, <1>10, <1>11, <1>12, <1>13
  DEF Next

\* The object is destroyed by the thread that took _use to zero.
LEMMA ObjectStep ==
  ASSUME IInv, [Next]_vars
  PROVE  ObjectIsRight'
<1> USE DEF IInv, TypeOK, ObjectIsRight, Destroyers, Goto
<1>1. ASSUME NEW t \in Threads, CopyShare(t) PROVE ObjectIsRight'
  BY <1>1, CountsSay DEF CopyShare
<1>2. ASSUME NEW t \in Threads, CopyWeak(t) PROVE ObjectIsRight'
  BY <1>2, CountsSay DEF CopyWeak
<1>3. ASSUME NEW t \in Threads, NEW u \in Threads, MoveShare(t, u) PROVE ObjectIsRight'
  BY <1>3, CountsSay DEF MoveShare
<1>4. ASSUME NEW t \in Threads, NEW u \in Threads, MoveWeak(t, u) PROVE ObjectIsRight'
  BY <1>4, CountsSay DEF MoveWeak
<1>5. ASSUME NEW t \in Threads, DropShare(t) PROVE ObjectIsRight'
  BY <1>5, CountsSay DEF DropShare
<1>6. ASSUME NEW t \in Threads, DestroyObject(t) PROVE ObjectIsRight'
  BY <1>6, CountsSay DEF DestroyObject
<1>7. ASSUME NEW t \in Threads, ReleaseWeak(t) PROVE ObjectIsRight'
  BY <1>7, CountsSay DEF ReleaseWeak
<1>8. ASSUME NEW t \in Threads, DropWeak(t) PROVE ObjectIsRight'
  BY <1>8, CountsSay DEF DropWeak
<1>9. ASSUME NEW t \in Threads, DestroyReference(t) PROVE ObjectIsRight'
  BY <1>9, CountsSay DEF DestroyReference
<1>10. ASSUME NEW t \in Threads, LockLoad(t) PROVE ObjectIsRight'
  BY <1>10, CountsSay DEF LockLoad
<1>11. ASSUME NEW t \in Threads, LockExchange(t) PROVE ObjectIsRight'
  BY <1>11, CountsSay DEF LockExchange, LocksAreRight
<1>12. ASSUME NEW t \in Threads, LockRetry(t) PROVE ObjectIsRight'
  BY <1>12, CountsSay DEF LockRetry
<1>13. CASE UNCHANGED vars
  BY <1>13 DEF vars
<1>14. QED
  BY <1>1, <1>2, <1>3, <1>4, <1>5, <1>6, <1>7, <1>8, <1>9, <1>10, <1>11, <1>12, <1>13
  DEF Next

\* The counts are freed by the thread that took _weak to zero.
LEMMA MemoryStep ==
  ASSUME IInv, [Next]_vars
  PROVE  MemoryIsRight'
<1> USE DEF IInv, TypeOK, MemoryIsRight, Freers, Goto
<1>1. ASSUME NEW t \in Threads, CopyShare(t) PROVE MemoryIsRight'
  BY <1>1, CountsSay DEF CopyShare
<1>2. ASSUME NEW t \in Threads, CopyWeak(t) PROVE MemoryIsRight'
  <2>1. weak > 0
    BY <1>2, CountsSay DEF CopyWeak, Shared
  <2>2. QED
    BY <1>2, <2>1 DEF CopyWeak
<1>3. ASSUME NEW t \in Threads, NEW u \in Threads, MoveShare(t, u) PROVE MemoryIsRight'
  BY <1>3, CountsSay DEF MoveShare
<1>4. ASSUME NEW t \in Threads, NEW u \in Threads, MoveWeak(t, u) PROVE MemoryIsRight'
  BY <1>4, CountsSay DEF MoveWeak
<1>5. ASSUME NEW t \in Threads, DropShare(t) PROVE MemoryIsRight'
  BY <1>5, CountsSay DEF DropShare
<1>6. ASSUME NEW t \in Threads, DestroyObject(t) PROVE MemoryIsRight'
  BY <1>6, CountsSay DEF DestroyObject
<1>7. ASSUME NEW t \in Threads, ReleaseWeak(t) PROVE MemoryIsRight'
  <2>1. weak > 0
    BY <1>7, CountsSay DEF ReleaseWeak, Shared, Destroyers
  <2>2. QED
    BY <1>7, <2>1 DEF ReleaseWeak
<1>8. ASSUME NEW t \in Threads, DropWeak(t) PROVE MemoryIsRight'
  BY <1>8, CountsSay DEF DropWeak
<1>9. ASSUME NEW t \in Threads, DestroyReference(t) PROVE MemoryIsRight'
  BY <1>9, CountsSay DEF DestroyReference
<1>10. ASSUME NEW t \in Threads, LockLoad(t) PROVE MemoryIsRight'
  BY <1>10, CountsSay DEF LockLoad
<1>11. ASSUME NEW t \in Threads, LockExchange(t) PROVE MemoryIsRight'
  BY <1>11, CountsSay DEF LockExchange
<1>12. ASSUME NEW t \in Threads, LockRetry(t) PROVE MemoryIsRight'
  BY <1>12, CountsSay DEF LockRetry
<1>13. CASE UNCHANGED vars
  BY <1>13 DEF vars
<1>14. QED
  BY <1>1, <1>2, <1>3, <1>4, <1>5, <1>6, <1>7, <1>8, <1>9, <1>10, <1>11, <1>12, <1>13
  DEF Next

\* lock() takes nothing from its weak pointer.
LEMMA LocksStep ==
  ASSUME IInv, [Next]_vars
  PROVE  LocksAreRight'
<1> USE DEF IInv, TypeOK, LocksAreRight, Goto
<1>1. ASSUME NEW t \in Threads, CopyShare(t) PROVE LocksAreRight'
  BY <1>1 DEF CopyShare
<1>2. ASSUME NEW t \in Threads, CopyWeak(t) PROVE LocksAreRight'
  BY <1>2 DEF CopyWeak
<1>3. ASSUME NEW t \in Threads, NEW u \in Threads, MoveShare(t, u) PROVE LocksAreRight'
  BY <1>3 DEF MoveShare
<1>4. ASSUME NEW t \in Threads, NEW u \in Threads, MoveWeak(t, u) PROVE LocksAreRight'
  BY <1>4 DEF MoveWeak
<1>5. ASSUME NEW t \in Threads, DropShare(t) PROVE LocksAreRight'
  BY <1>5 DEF DropShare
<1>6. ASSUME NEW t \in Threads, DestroyObject(t) PROVE LocksAreRight'
  BY <1>6 DEF DestroyObject
<1>7. ASSUME NEW t \in Threads, ReleaseWeak(t) PROVE LocksAreRight'
  BY <1>7 DEF ReleaseWeak
<1>8. ASSUME NEW t \in Threads, DropWeak(t) PROVE LocksAreRight'
  BY <1>8 DEF DropWeak
<1>9. ASSUME NEW t \in Threads, DestroyReference(t) PROVE LocksAreRight'
  BY <1>9 DEF DestroyReference
<1>10. ASSUME NEW t \in Threads, LockLoad(t) PROVE LocksAreRight'
  BY <1>10 DEF LockLoad
<1>11. ASSUME NEW t \in Threads, LockExchange(t) PROVE LocksAreRight'
  BY <1>11 DEF LockExchange
<1>12. ASSUME NEW t \in Threads, LockRetry(t) PROVE LocksAreRight'
  BY <1>12 DEF LockRetry
<1>13. CASE UNCHANGED vars
  BY <1>13 DEF vars
<1>14. QED
  BY <1>1, <1>2, <1>3, <1>4, <1>5, <1>6, <1>7, <1>8, <1>9, <1>10, <1>11, <1>12, <1>13
  DEF Next

\* One share pointer and nothing else.
LEMMA IInvInit == Init => IInv
<1> SUFFICES ASSUME Init PROVE IInv
  OBVIOUS
<1>1. PICK t \in Threads : shares = [u \in Threads |-> IF u = t THEN 1 ELSE 0]
  BY DEF Init
<1>2. TypeOK
  BY <1>1 DEF Init, TypeOK
<1>3. UseIsExact
  <2>1. PointersOf(shares) = {<<t, 1>>}
    BY <1>1 DEF PointersOf
  <2>2. QED
    BY <2>1, FS_Singleton DEF Init, UseIsExact
<1>4. WeakIsExact
  <2>1. PointersOf(weaks) = {}
    BY DEF Init, PointersOf
  <2>2. QED
    BY <2>1, FS_EmptySet DEF Init, WeakIsExact, Shared
<1>5. ObjectIsRight /\ MemoryIsRight /\ LocksAreRight
  BY DEF Init, ObjectIsRight, MemoryIsRight, LocksAreRight, Destroyers, Freers
<1>6. QED
  BY <1>2, <1>3, <1>4, <1>5 DEF IInv

\* The conjunction above holds in every state.
THEOREM Invariance == Spec => []IInv
<1>1. IInv /\ [Next]_vars => IInv'
  BY TypeStep, UseStep, WeakStep, ObjectStep, MemoryStep, LocksStep DEF IInv
<1>2. QED
  BY IInvInit, <1>1, PTL DEF Spec

\* A share pointer finds its object alive, one obtained by lock() included, and
\* the counts are there for every pointer, lock() and destructor in progress
\* (share_pointer, weak_pointer::lock, reference).
THEOREM PointersCorrect == Spec => []PointersAreSafe
<1>1. IInv => SharedIsAlive
  BY CountsSay DEF IInv, SharedIsAlive, ObjectIsRight
<1>2. IInv => CountsOutlivePointers
  <2> SUFFICES ASSUME IInv, memory = "freed"
               PROVE  /\ Freers = {} /\ Destroyers = {}
                      /\ \A t \in Threads : shares[t] = 0 /\ weaks[t] = 0 /\ pc[t] # "lock"
    BY DEF CountsOutlivePointers
  <2>1. weak = 0 /\ Freers = {}
    BY DEF IInv, MemoryIsRight
  <2>2. ~Shared /\ \A t \in Threads : weaks[t] = 0
    BY <2>1, CountsSay
  <2>3. use = 0 /\ Destroyers = {}
    BY <2>2 DEF IInv, TypeOK, Shared
  <2>4. \A t \in Threads : shares[t] = 0
    BY <2>3, CountsSay
  <2>5. QED
    BY <2>1, <2>2, <2>3, <2>4 DEF IInv, LocksAreRight
<1>3. QED
  BY Invariance, <1>1, <1>2, PTL DEF PointersAreSafe

\* Nothing is left when the last pointer of both kinds has gone: the object was
\* destroyed and the counts were freed.
THEOREM NoLeakCorrect == Spec => []NoLeak
<1>1. IInv => NoLeak
  <2> SUFFICES ASSUME IInv,
                      \A t \in Threads : pc[t] = "idle" /\ shares[t] = 0 /\ weaks[t] = 0
               PROVE  object = "destroyed" /\ memory = "freed"
    BY DEF NoLeak
  <2>1. use = 0
    BY CountsSay
  <2>2. Destroyers = {} /\ Freers = {}
    BY DEF Destroyers, Freers
  <2>3. weak = 0
    BY <2>1, <2>2, CountsSay DEF Shared
  <2>4. object # "alive"
    BY <2>1 DEF IInv, ObjectIsRight
  <2>5. QED
    BY <2>2, <2>3, <2>4 DEF IInv, TypeOK, MemoryIsRight
<1>2. QED
  BY Invariance, <1>1, PTL

-----------------------------------------------------------------------------
(* The objects that own a number of the system (module Handles, as Handle). *)
(* What they hold, what is open and what was overwritten is inductive as it *)
(* is stated; the calls are seven, under many names.                        *)

LEMMA HandleStarts ==
  ASSUME Handle!Init
  PROVE  Handle!OwnedOnce
<1>1. /\ holds \in [Handle!Objects -> Numbers \union {Invalid, Absent}]
      /\ \A o \in Handle!Objects : holds[o] = Absent
  BY DEF Handle!Init
<1>2. \A o \in Handle!Objects : ~Handle!Owns(o)
  BY <1>1, HandlesAssumed DEF Handle!HandlesAssumption, Handle!Owns
<1>3. open = {} /\ lost = {}
  BY DEF Handle!Init
<1>4. QED
  BY <1>1, <1>2, <1>3 DEF Handle!OwnedOnce, Handle!TypeOK

\* An object gets a value it may hold, the numbers that are open follow it.
LEMMA HandleConstructKeeps ==
  ASSUME Handle!OwnedOnce, NEW o \in Handle!Objects, Handle!Construct(o)
  PROVE  Handle!OwnedOnce'
BY HandlesAssumed DEF Handle!HandlesAssumption, Handle!OwnedOnce, Handle!TypeOK, Handle!Owns, Handle!Exists, Handle!Construct

LEMMA HandleOpenKeeps ==
  ASSUME Handle!OwnedOnce, NEW o \in Handle!Objects, Handle!ConstructOpen(o)
  PROVE  Handle!OwnedOnce'
<1>1. PICK n \in Numbers \ open :
        holds' = [holds EXCEPT ![o] = n] /\ open' = open \union {n} /\ lost' = lost /\ holds[o] = Absent
  BY DEF Handle!ConstructOpen, Handle!Exists
<1>2. QED
  BY <1>1, HandlesAssumed DEF Handle!HandlesAssumption, Handle!OwnedOnce, Handle!TypeOK, Handle!Owns

LEMMA HandleMoveKeeps ==
  ASSUME Handle!OwnedOnce, NEW o \in Handle!Objects, NEW from \in Handle!Objects,
         Handle!MoveConstruct(o, from)
  PROVE  Handle!OwnedOnce'
BY HandlesAssumed DEF Handle!HandlesAssumption, Handle!OwnedOnce, Handle!TypeOK, Handle!Owns, Handle!Exists, Handle!MoveConstruct

LEMMA HandleAssignKeeps ==
  ASSUME Handle!OwnedOnce, NEW o \in Handle!Objects, NEW from \in Handle!Objects,
         Handle!MoveAssign(o, from)
  PROVE  Handle!OwnedOnce'
BY HandlesAssumed DEF Handle!HandlesAssumption, Handle!OwnedOnce, Handle!TypeOK, Handle!Owns, Handle!Exists, Handle!MoveAssign

LEMMA HandleDestroyKeeps ==
  ASSUME Handle!OwnedOnce, NEW o \in Handle!Objects, Handle!Destroy(o)
  PROVE  Handle!OwnedOnce'
BY HandlesAssumed DEF Handle!HandlesAssumption, Handle!OwnedOnce, Handle!TypeOK, Handle!Owns, Handle!Exists, Handle!Destroy

LEMMA HandleCreateKeeps ==
  ASSUME Handle!OwnedOnce, NEW o \in Handle!Objects, Handle!Create(o)
  PROVE  Handle!OwnedOnce'
<1>1. PICK n \in Numbers \ open :
        /\ holds' = [holds EXCEPT ![o] = n] /\ open' = open \union {n}
        /\ lost' = lost \union ({holds[o]} \ {Invalid}) /\ holds[o] # Absent
  BY DEF Handle!Create, Handle!Exists
<1>2. QED
  BY <1>1, HandlesAssumed DEF Handle!HandlesAssumption, Handle!OwnedOnce, Handle!TypeOK, Handle!Owns

LEMMA HandleCloseKeeps ==
  ASSUME Handle!OwnedOnce, NEW o \in Handle!Objects, Handle!Close(o)
  PROVE  Handle!OwnedOnce'
BY HandlesAssumed DEF Handle!HandlesAssumption, Handle!OwnedOnce, Handle!TypeOK, Handle!Owns, Handle!Exists, Handle!Close

LEMMA HandlesStep ==
  ASSUME Handle!OwnedOnce, Handle!Next
  PROVE  Handle!OwnedOnce'
<1>1. Sockets \subseteq Handle!Objects /\ Others \subseteq Handle!Objects
  BY DEF Handle!Objects
<1>2. ASSUME NEW o \in Handle!Objects, Handle!Construct(o) \/ Handle!ConstructOpen(o)
      PROVE  Handle!OwnedOnce'
  BY <1>2, HandleConstructKeeps, HandleOpenKeeps
<1>3. ASSUME NEW o \in Handle!Objects, (Handle!Destroy(o) \/ Handle!Create(o)) \/ Handle!Close(o)
      PROVE  Handle!OwnedOnce'
  BY <1>3, HandleDestroyKeeps, HandleCreateKeeps, HandleCloseKeeps
<1>4. ASSUME NEW o \in Handle!Objects, NEW from \in Handle!Objects,
             Handle!MoveConstruct(o, from) \/ Handle!MoveAssign(o, from)
      PROVE  Handle!OwnedOnce'
  BY <1>4, HandleMoveKeeps, HandleAssignKeeps
<1>5. ASSUME NEW s \in Sockets,
             \/ ((Handle!ConstructOpen(s) \/ Handle!Destroy(s)) \/ Handle!Create(s)) \/ Handle!Close(s)
             \/ (Handle!Connect(s) \/ Handle!Receive(s)) \/ (Handle!ReceiveBuffer(s) \/ Handle!Send(s))
             \/ Handle!SendBuffer(s)
      PROVE  Handle!OwnedOnce'
  BY <1>1, <1>2, <1>3, <1>5
     DEF Handle!Connect, Handle!Receive, Handle!ReceiveBuffer, Handle!Send, Handle!SendBuffer, Handle!EndInside
<1>6. ASSUME NEW s \in Sockets, NEW t \in Sockets,
             (Handle!Accept(s, t) \/ Handle!MoveConstruct(s, t)) \/ Handle!MoveAssign(s, t)
      PROVE  Handle!OwnedOnce'
  BY <1>1, <1>2, <1>4, <1>6 DEF Handle!Accept
<1>7. ASSUME NEW o \in Others,
             \/ ((Handle!StartThread(o) \/ Handle!BeginThread(o)) \/ Handle!ConstructPort(o)) \/ Handle!CreatePort(o)
             \/ (Handle!ConstructEvent(o) \/ Handle!CreateEvent(o)) \/ Handle!ConstructProcess(o)
             \/ Handle!HandleDestroy(o) \/ Handle!HandleClose(o)
      PROVE  Handle!OwnedOnce'
  BY <1>1, <1>2, <1>3, <1>7
     DEF Handle!StartThread, Handle!BeginThread, Handle!ConstructPort, Handle!CreatePort, Handle!ConstructEvent,
         Handle!CreateEvent, Handle!ConstructProcess, Handle!HandleDestroy, Handle!HandleClose
<1>8. ASSUME NEW o \in Others, NEW from \in Others,
             (Handle!OpenToken(from, o) \/ Handle!HandleMoveConstruct(o, from)) \/ Handle!HandleMoveAssign(o, from)
      PROVE  Handle!OwnedOnce'
  BY <1>1, <1>2, <1>4, <1>8 DEF Handle!OpenToken, Handle!HandleMoveConstruct, Handle!HandleMoveAssign
<1>9. QED
  BY <1>2, <1>5, <1>6, <1>7, <1>8 DEF Handle!Next

-----------------------------------------------------------------------------
(* The owners of heap blocks (module Blocks, as Block).  Of an array the     *)
(* proof sees its block f[a], its size z[a] and its items; one that does not *)
(* exist is like one that was moved away.                                    *)

MaybeBlock == HeapMemory \union {NoMemory}
BlockIn(z) == IF z = Gone THEN NoMemory ELSE z.block
SizeIn(z) == IF z = Gone THEN 0 ELSE z.size
BlockOf(r) == [a \in Arrays |-> BlockIn(r[a])]
SizeOf(r) == [a \in Arrays |-> SizeIn(r[a])]

Put(f, a, x) == [f EXCEPT ![a] = x]
Exchanged(f, a, c) == [f EXCEPT ![a] = f[c], ![c] = f[a]]

\* No block is in two arrays, and these are the blocks of arrays.
Distinct(f) ==
  /\ f \in [Arrays -> MaybeBlock]
  /\ \A a, c \in Arrays : a # c /\ f[a] = f[c] => f[a] = NoMemory
BlocksIn(f) == {b \in HeapMemory : \E a \in Arrays : f[a] = b}

\* The blocks but b and c have what they had.
KeepsBut(d, e, b, c) == \A x \in HeapMemory : x # b /\ x # c => d[x] = e[x]
KeepsAllBut(d, e, c) == \A x \in HeapMemory : x # c => d[x] = e[x]

\* Every array has its size and holds what was put in.
Contents(f, z, i, e) ==
  /\ i \in [Arrays -> Seq(Items)] /\ e \in [HeapMemory -> Seq(Items)]
  /\ \A a \in Arrays : z[a] = Len(i[a]) /\ i[a] = IF f[a] = NoMemory THEN <<>> ELSE e[f[a]]

LEMMA BlockReplaced ==
  ASSUME NEW f, Distinct(f), NEW a \in Arrays, NEW b \in MaybeBlock, b \notin BlocksIn(f) \ {f[a]},
         NEW g, g = Put(f, a, b)
  PROVE  Distinct(g) /\ BlocksIn(g) = (BlocksIn(f) \ {f[a]}) \union ({b} \ {NoMemory})
<1>1. g \in [Arrays -> MaybeBlock] /\ g[a] = b /\ \A c \in Arrays : c # a => g[c] = f[c]
  BY DEF Distinct, Put
<1>2. NoMemory \notin HeapMemory
  BY BlocksAssumed DEF Block!BlocksAssumption
<1>3. ASSUME NEW c \in Arrays, c # a, f[c] = b
      PROVE  b = NoMemory
  <2>1. CASE b \in HeapMemory
    <3>1. b \in BlocksIn(f)
      BY <1>3, <2>1 DEF BlocksIn
    <3>2. b = f[a]
      BY <3>1
    <3>3. QED
      BY <1>3, <3>2 DEF Distinct
  <2>2. QED
    BY <2>1 DEF MaybeBlock
<1>4. Distinct(g)
  <2>1. ASSUME NEW c \in Arrays, NEW d \in Arrays, c # d, g[c] = g[d]
        PROVE  g[c] = NoMemory
    <3>1. CASE c = a
      BY <1>1, <1>3, <2>1, <3>1
    <3>2. CASE d = a
      BY <1>1, <1>3, <2>1, <3>2
    <3>3. CASE c # a /\ d # a
      BY <1>1, <2>1, <3>3 DEF Distinct
    <3>4. QED
      BY <3>1, <3>2, <3>3
  <2>2. QED
    BY <1>1, <2>1 DEF Distinct
<1>5. ASSUME NEW x \in HeapMemory
      PROVE  x \in BlocksIn(g) <=> x \in (BlocksIn(f) \ {f[a]}) \union ({b} \ {NoMemory})
  <2>1. x \in BlocksIn(g) <=> x = b \/ \E c \in Arrays : c # a /\ f[c] = x
    BY <1>1 DEF BlocksIn
  <2>2. (\E c \in Arrays : c # a /\ f[c] = x) <=> x \in BlocksIn(f) /\ x # f[a]
    BY <1>2 DEF BlocksIn, Distinct
  <2>3. QED
    BY <1>2, <2>1, <2>2
<1>6. BlocksIn(g) \subseteq HeapMemory /\ (BlocksIn(f) \ {f[a]}) \union ({b} \ {NoMemory}) \subseteq HeapMemory
  BY DEF BlocksIn, MaybeBlock
<1>7. QED
  BY <1>4, <1>5, <1>6

LEMMA BlocksExchanged ==
  ASSUME NEW f, Distinct(f), NEW a \in Arrays, NEW c \in Arrays,
         NEW g, g = Exchanged(f, a, c)
  PROVE  Distinct(g) /\ BlocksIn(g) = BlocksIn(f)
<1>1. g \in [Arrays -> MaybeBlock] /\ g[a] = f[c] /\ g[c] = f[a] /\ \A d \in Arrays : d # a /\ d # c => g[d] = f[d]
  BY DEF Distinct, Exchanged
<1>2. Distinct(g)
  BY <1>1 DEF Distinct
<1>3. BlocksIn(g) = BlocksIn(f)
  BY <1>1 DEF BlocksIn
<1>4. QED
  BY <1>2, <1>3

\* The array a gets the block b with the items s.
LEMMA ContentsReplaced ==
  ASSUME NEW f, NEW z, NEW i, NEW e, Distinct(f), Contents(f, z, i, e), NEW a \in Arrays,
         NEW b \in HeapMemory, b \notin BlocksIn(f) \ {f[a]}, NEW s \in Seq(Items), NEW n, n = Len(s),
         NEW g, g = Put(f, a, b), NEW y, y = Put(z, a, n), NEW j, j = Put(i, a, s),
         NEW d \in [HeapMemory -> Seq(Items)], d[b] = s,
         KeepsBut(d, e, b, f[a]), z \in [Arrays -> Nat]
  PROVE  Contents(g, y, j, d)
<1>1. NoMemory \notin HeapMemory
  BY BlocksAssumed DEF Block!BlocksAssumption
<1>2. j \in [Arrays -> Seq(Items)] /\ j[a] = s /\ y[a] = Len(s) /\ g[a] = b
  BY DEF Contents, Distinct, Put
<1>3. ASSUME NEW c \in Arrays, c # a
      PROVE  y[c] = Len(j[c]) /\ j[c] = IF g[c] = NoMemory THEN <<>> ELSE d[g[c]]
  <2>1. y[c] = z[c] /\ j[c] = i[c] /\ g[c] = f[c]
    BY <1>3 DEF Contents, Distinct, Put
  <2>2. CASE f[c] = NoMemory
    BY <2>1, <2>2 DEF Contents
  <2>3. CASE f[c] # NoMemory
    <3>1. f[c] \in HeapMemory /\ f[c] # f[a]
      BY <1>3, <2>3 DEF Distinct, MaybeBlock
    <3>2. f[c] \in BlocksIn(f)
      BY <3>1 DEF BlocksIn
    <3>3. f[c] # b
      BY <3>1, <3>2
    <3>4. d[f[c]] = e[f[c]]
      BY <3>1, <3>3 DEF KeepsBut
    <3>5. QED
      BY <2>1, <2>3, <3>4 DEF Contents
  <2>4. QED
    BY <2>2, <2>3
<1>4. QED
  BY <1>1, <1>2, <1>3 DEF Contents

\* The array a loses its block.
LEMMA ContentsDropped ==
  ASSUME NEW f, NEW z, NEW i, NEW e, Distinct(f), Contents(f, z, i, e), NEW a \in Arrays,
         NEW g, g = Put(f, a, NoMemory), NEW y, y = Put(z, a, 0), NEW j, j = Put(i, a, <<>>),
         NEW d \in [HeapMemory -> Seq(Items)],
         \A x \in HeapMemory : x # f[a] => d[x] = e[x], z \in [Arrays -> Nat]
  PROVE  Contents(g, y, j, d)
<1>1. <<>> \in Seq(Items) /\ Len(<<>>) = 0
  OBVIOUS
<1>2. j \in [Arrays -> Seq(Items)] /\ j[a] = <<>> /\ y[a] = 0 /\ g[a] = NoMemory
  BY <1>1 DEF Contents, Distinct, Put
<1>3. ASSUME NEW c \in Arrays, c # a
      PROVE  y[c] = Len(j[c]) /\ j[c] = IF g[c] = NoMemory THEN <<>> ELSE d[g[c]]
  <2>1. y[c] = z[c] /\ j[c] = i[c] /\ g[c] = f[c]
    BY <1>3 DEF Contents, Distinct, Put
  <2>2. CASE f[c] = NoMemory
    BY <2>1, <2>2 DEF Contents
  <2>3. CASE f[c] # NoMemory
    <3>1. f[c] \in HeapMemory /\ f[c] # f[a]
      BY <1>3, <2>3 DEF Distinct, MaybeBlock
    <3>2. d[f[c]] = e[f[c]]
      BY <3>1
    <3>3. QED
      BY <2>1, <2>3, <3>2 DEF Contents
  <2>4. QED
    BY <2>2, <2>3
<1>4. QED
  BY <1>1, <1>2, <1>3 DEF Contents

LEMMA ContentsExchanged ==
  ASSUME NEW f, NEW z, NEW i, NEW e, Distinct(f), Contents(f, z, i, e), NEW a \in Arrays, NEW c \in Arrays,
         NEW g, g = Exchanged(f, a, c), NEW y, y = Exchanged(z, a, c),
         NEW j, j = Exchanged(i, a, c), z \in [Arrays -> Nat]
  PROVE  Contents(g, y, j, e)
<1>1. j \in [Arrays -> Seq(Items)]
  BY DEF Contents, Exchanged
<1>2. \A b \in Arrays : \E d \in Arrays : g[b] = f[d] /\ y[b] = z[d] /\ j[b] = i[d]
  BY DEF Contents, Distinct, Exchanged
<1>3. ASSUME NEW b \in Arrays
      PROVE  y[b] = Len(j[b]) /\ j[b] = IF g[b] = NoMemory THEN <<>> ELSE e[g[b]]
  <2>1. PICK d \in Arrays : g[b] = f[d] /\ y[b] = z[d] /\ j[b] = i[d]
    BY <1>2
  <2>2. z[d] = Len(i[d]) /\ i[d] = IF f[d] = NoMemory THEN <<>> ELSE e[f[d]]
    BY DEF Contents
  <2>3. QED
    BY <2>1, <2>2
<1>4. e \in [HeapMemory -> Seq(Items)]
  BY DEF Contents
<1>5. QED
  BY <1>1, <1>3, <1>4 DEF Contents

-----------------------------------------------------------------------------
(* Of a pool it sees its list.                                              *)

ListOf(r) == [p \in FreeLists |-> IF r[p] = Gone THEN <<>> ELSE r[p]]

\* No node is in two lists or in one of them twice.
Apart(l) ==
  /\ l \in [FreeLists -> Seq(HeapMemory)]
  /\ \A p \in FreeLists : Block!IsInjective(l[p])
  /\ \A p, q \in FreeLists : p # q => Block!ToSet(l[p]) \intersect Block!ToSet(l[q]) = {}
NodesIn(l) == {b \in HeapMemory : \E p \in FreeLists : b \in Block!ToSet(l[p])}

LEMMA ListReplaced ==
  ASSUME NEW l, Apart(l), NEW p \in FreeLists, NEW s \in Seq(HeapMemory), Block!IsInjective(s),
         Block!ToSet(s) \subseteq HeapMemory, Block!ToSet(s) \intersect (NodesIn(l) \ Block!ToSet(l[p])) = {},
         NEW k, k = Put(l, p, s)
  PROVE  Apart(k) /\ NodesIn(k) = (NodesIn(l) \ Block!ToSet(l[p])) \union Block!ToSet(s)
<1>1. k \in [FreeLists -> Seq(HeapMemory)] /\ k[p] = s /\ \A q \in FreeLists : q # p => k[q] = l[q]
  BY DEF Apart, Put
<1>2. ASSUME NEW q \in FreeLists, q # p, NEW b \in HeapMemory, b \in Block!ToSet(l[q])
      PROVE  b \in NodesIn(l) \ Block!ToSet(l[p])
  BY <1>2 DEF Apart, NodesIn
<1>3. \A q \in FreeLists : Block!ToSet(l[q]) \subseteq HeapMemory
  BY DEF Apart, Block!ToSet
<1>4. \A q \in FreeLists : q # p => Block!ToSet(l[q]) \intersect Block!ToSet(s) = {}
  BY <1>2, <1>3
<1>5. Apart(k)
  BY <1>1, <1>4 DEF Apart
<1>6. ASSUME NEW b \in HeapMemory
      PROVE  b \in NodesIn(k) <=> b \in (NodesIn(l) \ Block!ToSet(l[p])) \union Block!ToSet(s)
  <2>1. b \in NodesIn(k) <=> b \in Block!ToSet(s) \/ \E q \in FreeLists : q # p /\ b \in Block!ToSet(l[q])
    BY <1>1 DEF NodesIn
  <2>2. (\E q \in FreeLists : q # p /\ b \in Block!ToSet(l[q])) <=> b \in NodesIn(l) \ Block!ToSet(l[p])
    BY <1>2 DEF NodesIn
  <2>3. QED
    BY <2>1, <2>2
<1>7. NodesIn(k) \subseteq HeapMemory /\ NodesIn(l) \subseteq HeapMemory
  BY DEF NodesIn
<1>8. QED
  BY <1>5, <1>6, <1>7

LEMMA ListsExchanged ==
  ASSUME NEW l, Apart(l), NEW p \in FreeLists, NEW q \in FreeLists,
         NEW k, k = Exchanged(l, p, q)
  PROVE  Apart(k) /\ NodesIn(k) = NodesIn(l)
<1>1. k \in [FreeLists -> Seq(HeapMemory)] /\ k[p] = l[q] /\ k[q] = l[p]
      /\ \A r \in FreeLists : r # p /\ r # q => k[r] = l[r]
  BY DEF Apart, Exchanged
<1>2. Apart(k)
  <2>1. \A r \in FreeLists : \E o \in FreeLists : k[r] = l[o]
    BY <1>1
  <2>2. \A r \in FreeLists : Block!IsInjective(k[r])
    BY <2>1 DEF Apart
  <2>3. ASSUME NEW r \in FreeLists, NEW t \in FreeLists, r # t
        PROVE  Block!ToSet(k[r]) \intersect Block!ToSet(k[t]) = {}
    <3>1. PICK o \in FreeLists, u \in FreeLists : k[r] = l[o] /\ k[t] = l[u] /\ o # u
      <4>1. CASE r = p
        BY <1>1, <2>3, <4>1
      <4>2. CASE r = q
        BY <1>1, <2>3, <4>2
      <4>3. CASE r # p /\ r # q
        BY <1>1, <2>3, <4>3
      <4>4. QED
        BY <4>1, <4>2, <4>3
    <3>2. Block!ToSet(l[o]) \intersect Block!ToSet(l[u]) = {}
      BY <3>1 DEF Apart
    <3>3. QED
      BY <3>1, <3>2
  <2>4. QED
    BY <1>1, <2>2, <2>3 DEF Apart
<1>3. NodesIn(k) = NodesIn(l)
  BY <1>1 DEF NodesIn
<1>4. QED
  BY <1>2, <1>3

LEMMA EmptyList ==
  /\ <<>> \in Seq(HeapMemory) /\ Block!IsInjective(<<>>) /\ Block!ToSet(<<>>) = {}
BY DEF Block!IsInjective, Block!ToSet

\* The first node is taken out of a list, or put in front of it.
LEMMA ListPopped ==
  ASSUME NEW s \in Seq(HeapMemory), s # <<>>, Block!IsInjective(s)
  PROVE  /\ Tail(s) \in Seq(HeapMemory) /\ Block!IsInjective(Tail(s))
         /\ Head(s) \in Block!ToSet(s) /\ Head(s) \in HeapMemory
         /\ Block!ToSet(Tail(s)) = Block!ToSet(s) \ {Head(s)}
<1>1. PICK n \in Nat : n = Len(s)
  OBVIOUS
<1>2. n > 0 /\ DOMAIN s = 1 .. n /\ Head(s) = s[1]
  BY <1>1
<1>3. Tail(s) \in Seq(HeapMemory) /\ DOMAIN Tail(s) = 1 .. n - 1 /\ \A i \in 1 .. n - 1 : Tail(s)[i] = s[i + 1]
  BY <1>1, <1>2
<1>4. Block!IsInjective(Tail(s))
  BY <1>2, <1>3 DEF Block!IsInjective
<1>5. Head(s) \in Block!ToSet(s)
  BY <1>2 DEF Block!ToSet
<1>6. ASSUME NEW x
      PROVE  x \in Block!ToSet(Tail(s)) <=> x \in Block!ToSet(s) /\ x # Head(s)
  <2>1. ASSUME x \in Block!ToSet(Tail(s))
        PROVE  x \in Block!ToSet(s) /\ x # Head(s)
    <3>1. PICK i \in 1 .. n - 1 : x = s[i + 1]
      BY <1>3, <2>1 DEF Block!ToSet
    <3>2. i + 1 \in 1 .. n /\ i + 1 # 1
      BY <1>2, <3>1
    <3>3. QED
      BY <1>2, <3>1, <3>2 DEF Block!ToSet, Block!IsInjective
  <2>2. ASSUME x \in Block!ToSet(s), x # Head(s)
        PROVE  x \in Block!ToSet(Tail(s))
    <3>1. PICK i \in 1 .. n : x = s[i]
      BY <1>2, <2>2 DEF Block!ToSet
    <3>2. i - 1 \in 1 .. n - 1 /\ (i - 1) + 1 = i
      BY <1>2, <2>2, <3>1
    <3>3. QED
      BY <1>3, <3>1, <3>2 DEF Block!ToSet
  <2>3. QED
    BY <2>1, <2>2
<1>7. QED
  BY <1>2, <1>3, <1>4, <1>5, <1>6

LEMMA ListPushed ==
  ASSUME NEW s \in Seq(HeapMemory), Block!IsInjective(s), NEW b \in HeapMemory, b \notin Block!ToSet(s)
  PROVE  /\ <<b>> \o s \in Seq(HeapMemory) /\ Block!IsInjective(<<b>> \o s)
         /\ Block!ToSet(<<b>> \o s) = Block!ToSet(s) \union {b}
<1>1. PICK n \in Nat : n = Len(s)
  OBVIOUS
<1>2. PICK t : t = <<b>> \o s
  OBVIOUS
<1>3. t \in Seq(HeapMemory) /\ DOMAIN t = 1 .. n + 1 /\ t[1] = b /\ \A i \in 1 .. n : t[i + 1] = s[i]
  BY <1>1, <1>2
<1>4. \A i \in 2 .. n + 1 : i - 1 \in 1 .. n /\ t[i] = s[i - 1]
  <2>1. ASSUME NEW i \in 2 .. n + 1
        PROVE  i - 1 \in 1 .. n /\ t[i] = s[i - 1]
    <3>1. i - 1 \in 1 .. n /\ (i - 1) + 1 = i
      OBVIOUS
    <3>2. QED
      BY <1>3, <3>1
  <2>2. QED
    BY <2>1
<1>5. DOMAIN s = 1 .. n /\ \A i \in 1 .. n : s[i] # b
  BY <1>1 DEF Block!ToSet
<1>6. Block!IsInjective(t)
  <2>1. ASSUME NEW i \in 1 .. n + 1, NEW j \in 1 .. n + 1, t[i] = t[j]
        PROVE  i = j
    <3>1. CASE i = 1
      BY <1>3, <1>4, <1>5, <2>1, <3>1
    <3>2. CASE j = 1
      BY <1>3, <1>4, <1>5, <2>1, <3>2
    <3>3. CASE i # 1 /\ j # 1
      <4>1. i \in 2 .. n + 1 /\ j \in 2 .. n + 1
        BY <3>3
      <4>2. s[i - 1] = s[j - 1] /\ i - 1 \in 1 .. n /\ j - 1 \in 1 .. n
        BY <1>4, <2>1, <4>1
      <4>3. i - 1 = j - 1
        BY <1>5, <4>2 DEF Block!IsInjective
      <4>4. QED
        BY <4>1, <4>3
    <3>4. QED
      BY <3>1, <3>2, <3>3
  <2>2. QED
    BY <1>3, <2>1 DEF Block!IsInjective
<1>7. ASSUME NEW x
      PROVE  x \in Block!ToSet(t) <=> x \in Block!ToSet(s) \/ x = b
  <2>1. ASSUME x \in Block!ToSet(t)
        PROVE  x \in Block!ToSet(s) \/ x = b
    <3>1. PICK i \in 1 .. n + 1 : x = t[i]
      BY <1>3, <2>1 DEF Block!ToSet
    <3>2. CASE i = 1
      BY <1>3, <3>1, <3>2
    <3>3. CASE i # 1
      <4>1. i \in 2 .. n + 1
        BY <3>3
      <4>2. QED
        BY <1>4, <1>5, <3>1, <4>1 DEF Block!ToSet
    <3>4. QED
      BY <3>2, <3>3
  <2>2. ASSUME x \in Block!ToSet(s)
        PROVE  x \in Block!ToSet(t)
    <3>1. PICK i \in 1 .. n : x = s[i]
      BY <1>5, <2>2 DEF Block!ToSet
    <3>2. i + 1 \in 1 .. n + 1 /\ t[i + 1] = x
      BY <1>3, <3>1
    <3>3. QED
      BY <1>3, <3>2 DEF Block!ToSet
  <2>3. b \in Block!ToSet(t)
    BY <1>3 DEF Block!ToSet
  <2>4. QED
    BY <2>1, <2>2, <2>3
<1>8. QED
  BY <1>2, <1>3, <1>6, <1>7

-----------------------------------------------------------------------------
(* The states of both.                                                      *)

ArrayValues == [size : Nat, block : MaybeBlock]

ArraysKept(r, i, e) ==
  /\ r \in [Arrays -> ArrayValues \union {Gone}]
  /\ Distinct(BlockOf(r)) /\ Contents(BlockOf(r), SizeOf(r), i, e)

LEMMA ArrayValuesExist ==
  NoMemory \notin HeapMemory /\ \A z \in ArrayValues : z # Gone
BY BlocksAssumed DEF Block!BlocksAssumption, ArrayValues, MaybeBlock

LEMMA ArrayViews ==
  ASSUME NEW r \in [Arrays -> ArrayValues \union {Gone}], NEW a \in Arrays, NEW z \in ArrayValues \union {Gone},
         NEW q, q = Put(r, a, z)
  PROVE  /\ q \in [Arrays -> ArrayValues \union {Gone}]
         /\ BlockOf(q) = Put(BlockOf(r), a, BlockIn(z))
         /\ SizeOf(q) = Put(SizeOf(r), a, SizeIn(z))
         /\ SizeOf(r) \in [Arrays -> Nat] /\ BlockOf(r) \in [Arrays -> MaybeBlock]
<1>1. q \in [Arrays -> ArrayValues \union {Gone}]
  BY DEF Put
<1>2. BlockOf(q) = Put(BlockOf(r), a, BlockIn(z))
  BY DEF BlockOf, Put
<1>3. SizeOf(q) = Put(SizeOf(r), a, SizeIn(z))
  BY DEF SizeOf, Put
<1>4. SizeOf(r) \in [Arrays -> Nat] /\ BlockOf(r) \in [Arrays -> MaybeBlock]
  BY DEF SizeOf, BlockOf, SizeIn, BlockIn, ArrayValues, MaybeBlock
<1>5. QED
  BY <1>1, <1>2, <1>3, <1>4

LEMMA ArrayGets ==
  ASSUME NEW r, NEW i, NEW e, ArraysKept(r, i, e), NEW a \in Arrays, NEW b \in HeapMemory,
         b \notin BlocksIn(BlockOf(r)) \ {BlockOf(r)[a]}, NEW s \in Seq(Items),
         NEW z \in ArrayValues, z.size = Len(s), z.block = b, NEW q, q = Put(r, a, z), NEW j, j = Put(i, a, s),
         NEW d \in [HeapMemory -> Seq(Items)], d[b] = s,
         KeepsBut(d, e, b, BlockOf(r)[a])
  PROVE  ArraysKept(q, j, d) /\ BlocksIn(BlockOf(q)) = (BlocksIn(BlockOf(r)) \ {BlockOf(r)[a]}) \union {b}
<1>3. /\ z \in ArrayValues \union {Gone} /\ BlockIn(z) = b /\ SizeIn(z) = Len(s)
      /\ b \in MaybeBlock /\ b # NoMemory
  BY ArrayValuesExist DEF BlockIn, SizeIn, MaybeBlock
<1>4. PICK f, g, y, w : f = BlockOf(r) /\ g = BlockOf(q) /\ y = SizeOf(r) /\ w = SizeOf(q)
  OBVIOUS
<1>5. r \in [Arrays -> ArrayValues \union {Gone}] /\ q = Put(r, a, z)
  BY DEF ArraysKept
<1>6. /\ q \in [Arrays -> ArrayValues \union {Gone}] /\ g = Put(f, a, b)
      /\ w = Put(y, a, Len(s)) /\ y \in [Arrays -> Nat]
  <2>1. /\ q \in [Arrays -> ArrayValues \union {Gone}] /\ SizeOf(r) \in [Arrays -> Nat]
        /\ BlockOf(q) = Put(BlockOf(r), a, BlockIn(z)) /\ SizeOf(q) = Put(SizeOf(r), a, SizeIn(z))
    BY <1>3, <1>5, ArrayViews
  <2>2. QED
    BY <1>3, <1>4, <2>1
<1>7. Distinct(f) /\ Contents(f, y, i, e) /\ b \notin BlocksIn(f) \ {f[a]}
  BY <1>4 DEF ArraysKept
<1>8. Distinct(g) /\ BlocksIn(g) = (BlocksIn(f) \ {f[a]}) \union ({b} \ {NoMemory})
  BY <1>3, <1>6, <1>7, BlockReplaced
<1>9. KeepsBut(d, e, b, f[a])
  BY <1>4
<1>10. Contents(g, w, j, d)
  <2>1. PICK n : n = Len(s)
    OBVIOUS
  <2>2. w = Put(y, a, n)
    BY <1>6, <2>1
  <2>3. g = Put(f, a, b) /\ y \in [Arrays -> Nat]
    BY <1>6
  <2>4. QED
    BY <1>7, <1>9, <2>1, <2>2, <2>3, ContentsReplaced
<1>11. BlocksIn(g) = (BlocksIn(f) \ {f[a]}) \union {b}
  BY <1>3, <1>8
<1>12. QED
  BY <1>4, <1>6, <1>8, <1>10, <1>11 DEF ArraysKept

LEMMA ArrayLoses ==
  ASSUME NEW r, NEW i, NEW e, ArraysKept(r, i, e), NEW a \in Arrays, NEW z \in {Gone, Block!NoArray},
         NEW q, q = Put(r, a, z), NEW j, j = Put(i, a, <<>>),
         NEW d \in [HeapMemory -> Seq(Items)], \A x \in HeapMemory : x # BlockOf(r)[a] => d[x] = e[x]
  PROVE  ArraysKept(q, j, d) /\ BlocksIn(BlockOf(q)) = BlocksIn(BlockOf(r)) \ {BlockOf(r)[a]}
<1>1. z \in ArrayValues \union {Gone} /\ BlockIn(z) = NoMemory
      /\ SizeIn(z) = 0
  BY DEF Block!NoArray, ArrayValues, MaybeBlock, BlockIn, SizeIn
<1>2. PICK f, g, y, w : f = BlockOf(r) /\ g = BlockOf(q) /\ y = SizeOf(r) /\ w = SizeOf(q)
  OBVIOUS
<1>3. r \in [Arrays -> ArrayValues \union {Gone}]
  BY DEF ArraysKept
<1>4. /\ q \in [Arrays -> ArrayValues \union {Gone}] /\ g = Put(f, a, NoMemory)
      /\ w = Put(y, a, 0) /\ y \in [Arrays -> Nat]
  BY <1>1, <1>2, <1>3, ArrayViews
<1>5. Distinct(f) /\ Contents(f, y, i, e) /\ NoMemory \in MaybeBlock /\ NoMemory \notin BlocksIn(f)
  BY <1>2, ArrayValuesExist DEF ArraysKept, MaybeBlock, BlocksIn
<1>6. Distinct(g) /\ BlocksIn(g) = (BlocksIn(f) \ {f[a]}) \union ({NoMemory} \ {NoMemory})
  BY <1>4, <1>5, BlockReplaced
<1>7. \A x \in HeapMemory : x # f[a] => d[x] = e[x]
  BY <1>2
<1>8. Contents(g, w, j, d)
  BY <1>4, <1>5, <1>7, ContentsDropped
<1>9. BlocksIn(g) = BlocksIn(f) \ {f[a]}
  BY <1>6
<1>10. QED
  BY <1>2, <1>4, <1>6, <1>8, <1>9 DEF ArraysKept

\* The array c takes over what a has, and a what c has or nothing when that is
\* the same.
LEMMA ArraysTrade ==
  ASSUME NEW r, NEW i, NEW e, ArraysKept(r, i, e), NEW a \in Arrays, NEW c \in Arrays, a # c,
         NEW z \in ArrayValues \union {Gone}, z = r[a] \/ (r[a] \in {Gone, Block!NoArray} /\ z \in {Gone, Block!NoArray}),
         NEW q, q = Put(Put(r, a, r[c]), c, z), NEW j, j = Exchanged(i, a, c)
  PROVE  ArraysKept(q, j, e) /\ BlocksIn(BlockOf(q)) = BlocksIn(BlockOf(r))
<1>1. PICK f, g, y, w : f = BlockOf(r) /\ g = BlockOf(q) /\ y = SizeOf(r) /\ w = SizeOf(q)
  OBVIOUS
<1>2. r \in [Arrays -> ArrayValues \union {Gone}] /\ Distinct(f) /\ Contents(f, y, i, e)
  BY <1>1 DEF ArraysKept
<1>3. PICK n, h : n = r[c] /\ h = Put(r, a, n)
  OBVIOUS
<1>4. n \in ArrayValues \union {Gone} /\ q = Put(h, c, z)
  BY <1>2, <1>3
<1>5. /\ h \in [Arrays -> ArrayValues \union {Gone}] /\ y \in [Arrays -> Nat] /\ f \in [Arrays -> MaybeBlock]
      /\ BlockOf(h) = Put(f, a, BlockIn(n))
      /\ SizeOf(h) = Put(y, a, SizeIn(n))
  BY <1>1, <1>2, <1>3, <1>4, ArrayViews
<1>6. /\ q \in [Arrays -> ArrayValues \union {Gone}]
      /\ g = Put(BlockOf(h), c, BlockIn(z))
      /\ w = Put(SizeOf(h), c, SizeIn(z))
  BY <1>1, <1>4, <1>5, ArrayViews
<1>7. /\ BlockIn(n) = f[c] /\ BlockIn(z) = f[a]
      /\ SizeIn(n) = y[c] /\ SizeIn(z) = y[a]
  BY <1>1, <1>3 DEF BlockOf, SizeOf, BlockIn, SizeIn, Block!NoArray
<1>8. g = Exchanged(f, a, c) /\ w = Exchanged(y, a, c)
  BY <1>5, <1>6, <1>7 DEF Put, Exchanged
<1>9. Distinct(g) /\ BlocksIn(g) = BlocksIn(f)
  BY <1>2, <1>8, BlocksExchanged
<1>10. Contents(g, w, j, e)
  BY <1>2, <1>5, <1>8, ContentsExchanged
<1>11. QED
  BY <1>1, <1>6, <1>9, <1>10 DEF ArraysKept

ListsKept(l) == l \in [FreeLists -> Seq(HeapMemory) \union {Gone}] /\ Apart(ListOf(l))

\* The taken blocks T are in an array, in a list or in use, and only there.
OwnedApart(A, L, B, T) ==
  /\ A \subseteq HeapMemory /\ L \subseteq HeapMemory /\ B \subseteq HeapMemory
  /\ A \intersect L = {} /\ A \intersect B = {} /\ L \intersect B = {}
  /\ T = (A \union L) \union B

BlocksKept ==
  /\ ArraysKept(array, items, cell) /\ ListsKept(list)
  /\ OwnedApart(BlocksIn(BlockOf(array)), NodesIn(ListOf(list)), busy, taken)

LEMMA BlocksStart ==
  ASSUME Block!Init
  PROVE  BlocksKept
<1>1. /\ array \in [Arrays -> ArrayValues \union {Gone}]
      /\ \A a \in Arrays : BlockOf(array)[a] = NoMemory /\ SizeOf(array)[a] = 0 /\ items[a] = <<>>
  BY DEF Block!Init, BlockOf, SizeOf, BlockIn, SizeIn
<1>2. BlockOf(array) \in [Arrays -> MaybeBlock] /\ NoMemory \notin HeapMemory
  BY <1>1, ArrayValuesExist DEF BlockOf, MaybeBlock
<1>3. Distinct(BlockOf(array)) /\ BlocksIn(BlockOf(array)) = {}
  BY <1>1, <1>2 DEF Distinct, BlocksIn
<1>4. <<>> \in Seq(Items) /\ Len(<<>>) = 0
  OBVIOUS
<1>5. items \in [Arrays -> Seq(Items)] /\ cell \in [HeapMemory -> Seq(Items)]
  BY <1>4 DEF Block!Init
<1>6. Contents(BlockOf(array), SizeOf(array), items, cell)
  BY <1>1, <1>4, <1>5 DEF Contents
<1>7. /\ list \in [FreeLists -> Seq(HeapMemory) \union {Gone}]
      /\ ListOf(list) \in [FreeLists -> Seq(HeapMemory)] /\ \A p \in FreeLists : ListOf(list)[p] = <<>>
  BY EmptyList DEF Block!Init, ListOf
<1>8. Apart(ListOf(list)) /\ NodesIn(ListOf(list)) = {}
  BY <1>7, EmptyList DEF Apart, NodesIn
<1>9. busy = {} /\ taken = {}
  BY DEF Block!Init
<1>10. QED
  BY <1>1, <1>3, <1>6, <1>7, <1>8, <1>9 DEF BlocksKept, ArraysKept, ListsKept, OwnedApart

\* The invariant says what Blocks does.
LEMMA BlocksAreRight ==
  ASSUME BlocksKept
  PROVE  Block!BlocksHaveOneOwner
<1>1. PICK f, l, y : f = BlockOf(array) /\ l = ListOf(list) /\ y = SizeOf(array)
  OBVIOUS
<1>2. /\ Distinct(f) /\ Contents(f, y, items, cell) /\ Apart(l)
      /\ OwnedApart(BlocksIn(f), NodesIn(l), busy, taken)
  BY <1>1 DEF BlocksKept, ArraysKept, ListsKept
<1>3. PICK inArray : inArray = [a \in Arrays |-> IF Block!ArrayExists(a) THEN {array[a].block} \ {NoMemory} ELSE {}]
  OBVIOUS
<1>4. PICK inList : inList = [p \in FreeLists |-> IF Block!PoolExists(p) THEN Block!ToSet(list[p]) ELSE {}]
  OBVIOUS
<1>5. \A a \in Arrays : inArray[a] = {f[a]} \ {NoMemory}
  BY <1>1, <1>3 DEF BlockOf, BlockIn, Block!ArrayExists
<1>6. \A p \in FreeLists : inList[p] = Block!ToSet(l[p])
  BY <1>1, <1>4, EmptyList DEF ListOf, Block!PoolExists
<1>7. UNION {inArray[a] : a \in Arrays} = BlocksIn(f)
  <2>1. \A a \in Arrays : f[a] \in HeapMemory \/ f[a] = NoMemory
    BY <1>2 DEF Distinct, MaybeBlock
  <2>2. ASSUME NEW b
        PROVE  b \in BlocksIn(f) <=> \E a \in Arrays : b \in inArray[a]
    BY <1>5, <2>1, ArrayValuesExist DEF BlocksIn
  <2>3. QED
    BY <2>2
<1>8. UNION {inList[p] : p \in FreeLists} = NodesIn(l)
  <2>1. \A p \in FreeLists : Block!ToSet(l[p]) \subseteq HeapMemory
    BY <1>2 DEF Apart, Block!ToSet
  <2>2. ASSUME NEW b
        PROVE  b \in NodesIn(l) <=> \E p \in FreeLists : b \in inList[p]
    BY <1>6, <2>1 DEF NodesIn
  <2>3. QED
    BY <2>2
<1>9. \A a, c \in Arrays : a # c => inArray[a] \intersect inArray[c] = {}
  BY <1>2, <1>5 DEF Distinct
<1>10. \A p, q \in FreeLists : p # q => inList[p] \intersect inList[q] = {}
  BY <1>2, <1>6 DEF Apart
<1>11. \A a \in Arrays, p \in FreeLists : inArray[a] \intersect inList[p] = {}
  <2>1. BlocksIn(f) \intersect NodesIn(l) = {}
    BY <1>2 DEF OwnedApart
  <2>2. \A a \in Arrays : inArray[a] \subseteq BlocksIn(f)
    BY <1>7
  <2>3. \A p \in FreeLists : inList[p] \subseteq NodesIn(l)
    BY <1>8
  <2>4. QED
    BY <2>1, <2>2, <2>3
<1>12. \A p \in FreeLists : Block!PoolExists(p) => Block!IsInjective(list[p])
  <2>1. \A p \in FreeLists : Block!PoolExists(p) => l[p] = list[p]
    BY <1>1 DEF ListOf, Block!PoolExists
  <2>2. QED
    BY <1>2, <2>1 DEF Apart
<1>13. \A a \in Arrays : Block!ArrayExists(a) => Len(items[a]) = array[a].size /\ Block!CellsOf(a) = items[a]
  <2>1. \A a \in Arrays : Block!ArrayExists(a) => y[a] = array[a].size /\ f[a] = array[a].block
    BY <1>1 DEF SizeOf, BlockOf, SizeIn, BlockIn, Block!ArrayExists
  <2>2. QED
    BY <1>2, <2>1 DEF Contents, Block!CellsOf
<1>14. /\ (BlocksIn(f) \union NodesIn(l)) \union busy = taken
       /\ (BlocksIn(f) \union NodesIn(l)) \intersect busy = {}
  BY <1>2 DEF OwnedApart
<1>15. UNION {IF Block!ArrayExists(a) THEN {array[a].block} \ {NoMemory} ELSE {} : a \in Arrays} = BlocksIn(f)
  BY <1>3, <1>7
<1>16. UNION {IF Block!PoolExists(p) THEN Block!ToSet(list[p]) ELSE {} : p \in FreeLists} = NodesIn(l)
  BY <1>4, <1>8
<1>17. \A a \in Arrays : inArray[a] = IF Block!ArrayExists(a) THEN {array[a].block} \ {NoMemory} ELSE {}
  BY <1>3
<1>18. \A p \in FreeLists : inList[p] = IF Block!PoolExists(p) THEN Block!ToSet(list[p]) ELSE {}
  BY <1>4
<1>19. QED
  BY <1>9, <1>10, <1>11, <1>12, <1>13, <1>14, <1>15, <1>16, <1>17, <1>18 DEF Block!BlocksHaveOneOwner

\* What is known of an array, in a state of the invariant.
LEMMA ArrayFacts ==
  ASSUME BlocksKept, NEW a \in Arrays
  PROVE  /\ items[a] \in Seq(Items)
         /\ Block!ArrayExists(a) =>
              /\ array[a] \in ArrayValues /\ BlockOf(array)[a] = array[a].block
              /\ array[a].size = Len(items[a]) /\ Block!CellsOf(a) = items[a]
         /\ ~Block!ArrayExists(a) => BlockOf(array)[a] = NoMemory /\ items[a] = <<>>
<1>1. PICK f, y : f = BlockOf(array) /\ y = SizeOf(array)
  OBVIOUS
<1>2. /\ array \in [Arrays -> ArrayValues \union {Gone}] /\ items \in [Arrays -> Seq(Items)]
      /\ y[a] = Len(items[a]) /\ items[a] = IF f[a] = NoMemory THEN <<>> ELSE cell[f[a]]
  BY <1>1 DEF BlocksKept, ArraysKept, Contents
<1>3. Block!ArrayExists(a) => y[a] = array[a].size /\ f[a] = array[a].block
  BY <1>1 DEF SizeOf, BlockOf, SizeIn, BlockIn, Block!ArrayExists
<1>4. ~Block!ArrayExists(a) => f[a] = NoMemory
  BY <1>1 DEF BlockOf, BlockIn, Block!ArrayExists
<1>5. QED
  BY <1>1, <1>2, <1>3, <1>4 DEF Block!ArrayExists, Block!CellsOf

LEMMA ArrayGetsKeeps ==
  ASSUME BlocksKept, NEW a \in Arrays, NEW z \in ArrayValues, NEW s \in Seq(Items), z.size = Len(s),
         NEW b \in HeapMemory, z.block = b, NEW x, x = BlockOf(array)[a], b \notin taken \ {x},
         array' = [array EXCEPT ![a] = z], items' = [items EXCEPT ![a] = s],
         cell' \in [HeapMemory -> Seq(Items)], cell'[b] = s, KeepsBut(cell', cell, b, x),
         taken' = (taken \ {x}) \union {b}, list' = list, busy' = busy
  PROVE  BlocksKept'
<1>1. PICK r, q, i, j, e, d : /\ r = array /\ q = array' /\ i = items /\ j = items' /\ e = cell /\ d = cell'
  OBVIOUS
<1>2. PICK A, L, B, T : A = BlocksIn(BlockOf(array)) /\ L = NodesIn(ListOf(list)) /\ B = busy /\ T = taken
  OBVIOUS
<1>3. ArraysKept(r, i, e) /\ ListsKept(list) /\ OwnedApart(A, L, B, T)
  BY <1>1, <1>2 DEF BlocksKept
<1>4. x \in A \/ x = NoMemory
  <2>1. x \in MaybeBlock
    BY <1>1, <1>3 DEF ArraysKept, Distinct
  <2>2. x \in HeapMemory => x \in A
    BY <1>2 DEF BlocksIn
  <2>3. QED
    BY <2>1, <2>2 DEF MaybeBlock
<1>5. NoMemory \notin HeapMemory
  BY ArrayValuesExist
<1>6. b \notin A \ {x}
  BY <1>2, <1>3 DEF OwnedApart
<1>7. q = Put(r, a, z) /\ j = Put(i, a, s)
  BY <1>1 DEF Put
<1>8. d \in [HeapMemory -> Seq(Items)] /\ d[b] = s /\ KeepsBut(d, e, b, BlockOf(r)[a])
      /\ b \notin BlocksIn(BlockOf(r)) \ {BlockOf(r)[a]}
  BY <1>1, <1>2, <1>6
<1>9. ArraysKept(q, j, d) /\ BlocksIn(BlockOf(q)) = (BlocksIn(BlockOf(r)) \ {BlockOf(r)[a]}) \union {b}
  BY <1>3, <1>7, <1>8, ArrayGets
<1>10. PICK C : C = (A \ {x}) \union {b}
  OBVIOUS
<1>11. BlocksIn(BlockOf(q)) = C
  BY <1>1, <1>2, <1>9, <1>10
<1>12. OwnedApart(C, L, B, (T \ {x}) \union {b})
  BY <1>2, <1>3, <1>4, <1>5, <1>6, <1>10 DEF OwnedApart
<1>13. ArraysKept(array', items', cell') /\ ListsKept(list')
  BY <1>1, <1>3, <1>9
<1>14. BlocksIn(BlockOf(array')) = C /\ NodesIn(ListOf(list')) = L /\ busy' = B
  BY <1>1, <1>2, <1>11
<1>15. taken' = (T \ {x}) \union {b}
  BY <1>2
<1>16. QED
  BY <1>12, <1>13, <1>14, <1>15 DEF BlocksKept

LEMMA ArrayLosesKeeps ==
  ASSUME BlocksKept, NEW a \in Arrays, NEW x, x = BlockOf(array)[a],
         NEW q, q = Put(array, a, Gone), NEW j, j = Put(items, a, <<>>),
         NEW d \in [HeapMemory -> Seq(Items)], KeepsAllBut(d, cell, x),
         NEW T, T = taken \ {x}
  PROVE  ArraysKept(q, j, d) /\ OwnedApart(BlocksIn(BlockOf(q)), NodesIn(ListOf(list)), busy, T)
<1>1. PICK r, i, e : r = array /\ i = items /\ e = cell
  OBVIOUS
<1>2. PICK A, L, B : A = BlocksIn(BlockOf(array)) /\ L = NodesIn(ListOf(list)) /\ B = busy
  OBVIOUS
<1>3. ArraysKept(r, i, e) /\ OwnedApart(A, L, B, taken)
  BY <1>1, <1>2 DEF BlocksKept
<1>4. x \in A \/ x = NoMemory
  <2>1. x \in MaybeBlock
    BY <1>1, <1>3 DEF ArraysKept, Distinct
  <2>2. x \in HeapMemory => x \in A
    BY <1>2 DEF BlocksIn
  <2>3. QED
    BY <2>1, <2>2 DEF MaybeBlock
<1>5. NoMemory \notin HeapMemory
  BY ArrayValuesExist
<1>6. PICK z \in {Gone, Block!NoArray} : z = Gone
  OBVIOUS
<1>7. q = Put(r, a, z) /\ j = Put(i, a, <<>>)
  BY <1>1, <1>6
<1>12. \A y \in HeapMemory : y # BlockOf(r)[a] => d[y] = e[y]
  BY <1>1 DEF KeepsAllBut
<1>8. ArraysKept(q, j, d) /\ BlocksIn(BlockOf(q)) = BlocksIn(BlockOf(r)) \ {BlockOf(r)[a]}
  BY <1>3, <1>7, <1>12, ArrayLoses
<1>9. BlocksIn(BlockOf(q)) = A \ {x}
  BY <1>1, <1>2, <1>8
<1>10. OwnedApart(A \ {x}, L, B, T)
  BY <1>3, <1>4, <1>5 DEF OwnedApart
<1>11. QED
  BY <1>2, <1>8, <1>9, <1>10

LEMMA DestructedIs ==
  ASSUME BlocksKept, NEW a \in Arrays, Block!ArrayExists(a), NEW x, x = BlockOf(array)[a]
  PROVE  /\ Block!Destructed(a) \in [HeapMemory -> Seq(Items)]
         /\ KeepsAllBut(Block!Destructed(a), cell, x)
         /\ Block!Remains(a) = taken \ {x}
<1>1. x = array[a].block
  BY ArrayFacts
<1>2. cell \in [HeapMemory -> Seq(Items)] /\ <<>> \in Seq(Items)
  BY DEF BlocksKept, ArraysKept, Contents
<1>3. QED
  BY <1>1, <1>2 DEF Block!Destructed, Block!Remains, KeepsAllBut

LEMMA ConstructArrayKeeps ==
  ASSUME BlocksKept, NEW a \in Arrays, NEW n \in ArraySizes, NEW v \in Items, Block!ConstructArray(a, n, v)
  PROVE  BlocksKept'
<1>1. PICK s : s = [i \in 1 .. n |-> v]
  OBVIOUS
<1>2. n \in Nat
  BY BlocksAssumed DEF Block!BlocksAssumption
<1>3. s \in Seq(Items) /\ Len(s) = n
  BY <1>1, <1>2
<1>4. PICK b \in HeapMemory \ taken :
        /\ array' = [array EXCEPT ![a] = [size |-> n, block |-> b]]
        /\ cell' = [cell EXCEPT ![b] = s] /\ taken' = taken \union {b}
        /\ items' = [items EXCEPT ![a] = s] /\ list' = list /\ busy' = busy /\ ~Block!ArrayExists(a)
  BY <1>1 DEF Block!ConstructArray, Block!poolVars
<1>5. PICK z : z = [size |-> n, block |-> b]
  OBVIOUS
<1>6. z \in ArrayValues /\ z.size = Len(s) /\ z.block = b
  BY <1>2, <1>3, <1>5 DEF ArrayValues, MaybeBlock
<1>7. PICK x : x = BlockOf(array)[a]
  OBVIOUS
<1>8. x = NoMemory /\ b \notin taken \ {x} /\ taken' = (taken \ {x}) \union {b}
  <2>1. x = NoMemory
    BY <1>4, <1>7, ArrayFacts
  <2>2. taken \subseteq HeapMemory
    BY DEF BlocksKept, OwnedApart
  <2>3. NoMemory \notin taken
    BY <2>2, ArrayValuesExist
  <2>4. QED
    BY <1>4, <2>1, <2>3
<1>9. cell' \in [HeapMemory -> Seq(Items)] /\ cell'[b] = s /\ KeepsBut(cell', cell, b, x)
  <2>1. cell \in [HeapMemory -> Seq(Items)]
    BY DEF BlocksKept, ArraysKept, Contents
  <2>2. QED
    BY <1>3, <1>4, <2>1 DEF KeepsBut
<1>10. array' = [array EXCEPT ![a] = z] /\ items' = [items EXCEPT ![a] = s] /\ list' = list /\ busy' = busy
  BY <1>4, <1>5
<1>11. b \in HeapMemory
  OBVIOUS
<1>12. QED
  BY <1>3, <1>6, <1>7, <1>8, <1>9, <1>10, <1>11, ArrayGetsKeeps

LEMMA CopyArrayKeeps ==
  ASSUME BlocksKept, NEW a \in Arrays, NEW from \in Arrays, Block!CopyArray(a, from)
  PROVE  BlocksKept'
<1>1. PICK s, n : s = items[from] /\ n = array[from].size
  OBVIOUS
<1>2. ~Block!ArrayExists(a) /\ Block!ArrayExists(from)
  BY DEF Block!CopyArray
<1>3. s \in Seq(Items) /\ Len(s) = n /\ Block!CellsOf(from) = s /\ n \in Nat
  BY <1>1, <1>2, ArrayFacts DEF ArrayValues
<1>4. PICK b \in HeapMemory \ taken :
        /\ array' = [array EXCEPT ![a] = [size |-> n, block |-> b]]
        /\ cell' = [cell EXCEPT ![b] = s] /\ taken' = taken \union {b}
        /\ items' = [items EXCEPT ![a] = s] /\ list' = list /\ busy' = busy
  BY <1>1, <1>3 DEF Block!CopyArray, Block!poolVars
<1>5. PICK z : z = [size |-> n, block |-> b]
  OBVIOUS
<1>6. z \in ArrayValues /\ z.size = Len(s) /\ z.block = b
  BY <1>3, <1>5 DEF ArrayValues, MaybeBlock
<1>7. PICK x : x = BlockOf(array)[a]
  OBVIOUS
<1>8. b \notin taken \ {x} /\ taken' = (taken \ {x}) \union {b}
  <2>1. x = NoMemory
    BY <1>2, <1>7, ArrayFacts
  <2>2. taken \subseteq HeapMemory
    BY DEF BlocksKept, OwnedApart
  <2>3. NoMemory \notin taken
    BY <2>2, ArrayValuesExist
  <2>4. QED
    BY <1>4, <2>1, <2>3
<1>9. cell' \in [HeapMemory -> Seq(Items)] /\ cell'[b] = s /\ KeepsBut(cell', cell, b, x)
  <2>1. cell \in [HeapMemory -> Seq(Items)]
    BY DEF BlocksKept, ArraysKept, Contents
  <2>2. QED
    BY <1>3, <1>4, <2>1 DEF KeepsBut
<1>10. array' = [array EXCEPT ![a] = z] /\ items' = [items EXCEPT ![a] = s] /\ list' = list /\ busy' = busy
  BY <1>4, <1>5
<1>11. b \in HeapMemory
  OBVIOUS
<1>12. QED
  BY <1>3, <1>6, <1>7, <1>8, <1>9, <1>10, <1>11, ArrayGetsKeeps

LEMMA AssignArrayKeeps ==
  ASSUME BlocksKept, NEW a \in Arrays, NEW from \in Arrays, Block!AssignArray(a, from)
  PROVE  BlocksKept'
<1>1. PICK s, n, x : s = items[from] /\ n = array[from].size /\ x = BlockOf(array)[a]
  OBVIOUS
<1>2. Block!ArrayExists(a) /\ Block!ArrayExists(from)
  BY DEF Block!AssignArray
<1>3. s \in Seq(Items) /\ Len(s) = n /\ Block!CellsOf(from) = s /\ n \in Nat
  BY <1>1, <1>2, ArrayFacts DEF ArrayValues
<1>4. PICK e, R : e = Block!Destructed(a) /\ R = Block!Remains(a)
  OBVIOUS
<1>5. e \in [HeapMemory -> Seq(Items)] /\ R = taken \ {x} /\ KeepsAllBut(e, cell, x)
  BY <1>1, <1>2, <1>4, DestructedIs
<1>6. PICK b \in HeapMemory \ R :
        /\ array' = [array EXCEPT ![a] = [size |-> n, block |-> b]]
        /\ cell' = [e EXCEPT ![b] = s] /\ taken' = R \union {b}
        /\ items' = [items EXCEPT ![a] = s] /\ list' = list /\ busy' = busy
  BY <1>1, <1>3, <1>4 DEF Block!AssignArray, Block!poolVars
<1>7. PICK z : z = [size |-> n, block |-> b]
  OBVIOUS
<1>8. z \in ArrayValues /\ z.size = Len(s) /\ z.block = b
  BY <1>3, <1>7 DEF ArrayValues, MaybeBlock
<1>9. b \notin taken \ {x} /\ taken' = (taken \ {x}) \union {b}
  BY <1>5, <1>6
<1>10. cell' \in [HeapMemory -> Seq(Items)] /\ cell'[b] = s /\ KeepsBut(cell', cell, b, x)
  BY <1>3, <1>5, <1>6 DEF KeepsBut, KeepsAllBut
<1>11. array' = [array EXCEPT ![a] = z] /\ items' = [items EXCEPT ![a] = s] /\ list' = list /\ busy' = busy
  BY <1>6, <1>7
<1>12. b \in HeapMemory /\ x = BlockOf(array)[a]
  BY <1>1
<1>13. QED
  BY <1>3, <1>8, <1>9, <1>10, <1>11, <1>12, ArrayGetsKeeps

LEMMA DestroyArrayKeeps ==
  ASSUME BlocksKept, NEW a \in Arrays, Block!DestroyArray(a)
  PROVE  BlocksKept'
<1>1. PICK x, q, j, d, T : x = BlockOf(array)[a] /\ q = array' /\ j = items' /\ d = cell' /\ T = taken'
  OBVIOUS
<1>2. /\ Block!ArrayExists(a) /\ q = Put(array, a, Gone) /\ j = Put(items, a, <<>>) /\ list' = list /\ busy' = busy
      /\ d = Block!Destructed(a) /\ T = Block!Remains(a)
  BY <1>1 DEF Block!DestroyArray, Block!poolVars, Put
<1>3. d \in [HeapMemory -> Seq(Items)] /\ T = taken \ {x} /\ KeepsAllBut(d, cell, x)
  BY <1>1, <1>2, DestructedIs
<1>4. ArraysKept(q, j, d) /\ OwnedApart(BlocksIn(BlockOf(q)), NodesIn(ListOf(list)), busy, T)
  <2>1. x = BlockOf(array)[a]
    BY <1>1
  <2>2. q = Put(array, a, Gone) /\ j = Put(items, a, <<>>)
    BY <1>2
  <2>3. QED
    BY <1>3, <2>1, <2>2, ArrayLosesKeeps
<1>5. ListsKept(list)
  BY DEF BlocksKept
<1>6. QED
  BY <1>1, <1>2, <1>4, <1>5 DEF BlocksKept

\* Two arrays trade; nothing else changes.
LEMMA ArraysTradeKeeps ==
  ASSUME BlocksKept, NEW a \in Arrays, NEW c \in Arrays, a # c, NEW z \in ArrayValues \union {Gone},
         z = array[a] \/ (array[a] \in {Gone, Block!NoArray} /\ z \in {Gone, Block!NoArray}),
         array' = Put(Put(array, a, array[c]), c, z), items' = Exchanged(items, a, c),
         cell' = cell, taken' = taken, list' = list, busy' = busy
  PROVE  BlocksKept'
<1>1. PICK r, q, i, j, e : r = array /\ q = array' /\ i = items /\ j = items' /\ e = cell
  OBVIOUS
<1>2. ArraysKept(r, i, e) /\ (z = r[a] \/ (r[a] \in {Gone, Block!NoArray} /\ z \in {Gone, Block!NoArray}))
  BY <1>1 DEF BlocksKept
<1>3. q = Put(Put(r, a, r[c]), c, z) /\ j = Exchanged(i, a, c)
  BY <1>1
<1>4. ArraysKept(q, j, e) /\ BlocksIn(BlockOf(q)) = BlocksIn(BlockOf(r))
  BY <1>2, <1>3, ArraysTrade
<1>5. ListsKept(list) /\ OwnedApart(BlocksIn(BlockOf(r)), NodesIn(ListOf(list)), busy, taken)
  BY <1>1 DEF BlocksKept
<1>6. QED
  BY <1>1, <1>4, <1>5 DEF BlocksKept

LEMMA MoveArrayKeeps ==
  ASSUME BlocksKept, NEW a \in Arrays, NEW from \in Arrays, Block!MoveArray(a, from)
  PROVE  BlocksKept'
<1>1. /\ ~Block!ArrayExists(a) /\ Block!ArrayExists(from)
      /\ array' = [array EXCEPT ![a] = array[from], ![from] = Block!NoArray]
      /\ items' = [items EXCEPT ![a] = items[from], ![from] = <<>>]
      /\ cell' = cell /\ taken' = taken /\ list' = list /\ busy' = busy
  BY DEF Block!MoveArray, Block!poolVars
<1>2. a # from
  BY <1>1
<1>3. PICK z : z = Block!NoArray
  OBVIOUS
<1>4. z \in ArrayValues \union {Gone} /\ array[a] \in {Gone, Block!NoArray} /\ z \in {Gone, Block!NoArray}
  BY <1>1, <1>3 DEF Block!NoArray, ArrayValues, MaybeBlock, Block!ArrayExists
<1>5. array' = Put(Put(array, a, array[from]), from, z)
  BY <1>1, <1>3 DEF Put
<1>6. items' = Exchanged(items, a, from)
  <2>1. items[a] = <<>>
    BY <1>1, ArrayFacts
  <2>2. QED
    BY <1>1, <2>1 DEF Exchanged
<1>7. cell' = cell /\ taken' = taken /\ list' = list /\ busy' = busy
  BY <1>1
<1>8. QED
  BY <1>2, <1>4, <1>5, <1>6, <1>7, ArraysTradeKeeps

LEMMA SwapArraysKeeps ==
  ASSUME BlocksKept, NEW a \in Arrays, NEW with \in Arrays, Block!SwapArrays(a, with)
  PROVE  BlocksKept'
<1>1. /\ array' = [array EXCEPT ![a] = array[with], ![with] = array[a]]
      /\ items' = [items EXCEPT ![a] = items[with], ![with] = items[a]]
      /\ cell' = cell /\ taken' = taken /\ list' = list /\ busy' = busy
  BY DEF Block!SwapArrays, Block!poolVars
<1>2. array \in [Arrays -> ArrayValues \union {Gone}] /\ items \in [Arrays -> Seq(Items)]
  BY DEF BlocksKept, ArraysKept, Contents
<1>3. CASE a = with
  <2>1. array' = array /\ items' = items
    BY <1>1, <1>2, <1>3
  <2>2. QED
    BY <1>1, <2>1 DEF BlocksKept
<1>4. CASE a # with
  <2>1. PICK z \in ArrayValues \union {Gone} : z = array[a]
    BY <1>2
  <2>2. array' = Put(Put(array, a, array[with]), with, z) /\ items' = Exchanged(items, a, with)
    BY <1>1, <2>1 DEF Put, Exchanged
  <2>3. cell' = cell /\ taken' = taken /\ list' = list /\ busy' = busy
    BY <1>1
  <2>4. QED
    BY <1>4, <2>1, <2>2, <2>3, ArraysTradeKeeps
<1>5. QED
  BY <1>3, <1>4

\* What a held is let go, then from is moved there.
LEMMA MoveAssignArrayKeeps ==
  ASSUME BlocksKept, NEW a \in Arrays, NEW from \in Arrays, Block!MoveAssignArray(a, from)
  PROVE  BlocksKept'
<1>1. /\ Block!ArrayExists(a) /\ Block!ArrayExists(from) /\ a # from /\ list' = list /\ busy' = busy
      /\ array' = [array EXCEPT ![a] = array[from], ![from] = Block!NoArray]
      /\ items' = [items EXCEPT ![a] = items[from], ![from] = <<>>]
      /\ cell' = Block!Destructed(a) /\ taken' = Block!Remains(a)
  BY DEF Block!MoveAssignArray, Block!poolVars
<1>2. PICK x, d, T : x = BlockOf(array)[a] /\ d = cell' /\ T = taken'
  OBVIOUS
<1>3. d \in [HeapMemory -> Seq(Items)] /\ T = taken \ {x} /\ KeepsAllBut(d, cell, x)
  BY <1>1, <1>2, DestructedIs
<1>4. PICK h, k : h = Put(array, a, Gone) /\ k = Put(items, a, <<>>)
  OBVIOUS
<1>5. ArraysKept(h, k, d) /\ OwnedApart(BlocksIn(BlockOf(h)), NodesIn(ListOf(list)), busy, T)
  <2>1. x = BlockOf(array)[a]
    BY <1>2
  <2>2. QED
    BY <1>3, <1>4, <2>1, ArrayLosesKeeps
<1>6. PICK z : z = Block!NoArray
  OBVIOUS
<1>7. /\ array \in [Arrays -> ArrayValues \union {Gone}] /\ items \in [Arrays -> Seq(Items)]
  BY DEF BlocksKept, ArraysKept, Contents
<1>8. h[a] = Gone /\ h[from] = array[from] /\ k[a] = <<>> /\ k[from] = items[from]
  BY <1>1, <1>4, <1>7 DEF Put
<1>9. z \in ArrayValues \union {Gone} /\ h[a] \in {Gone, Block!NoArray} /\ z \in {Gone, Block!NoArray}
  BY <1>6, <1>8 DEF Block!NoArray, ArrayValues, MaybeBlock
<1>10. PICK q, j : q = array' /\ j = items'
  OBVIOUS
<1>11. q = Put(Put(h, a, h[from]), from, z)
  BY <1>1, <1>4, <1>6, <1>7, <1>8, <1>10 DEF Put
<1>12. j = Exchanged(k, a, from)
  BY <1>1, <1>4, <1>7, <1>8, <1>10 DEF Put, Exchanged
<1>13. a # from
  BY <1>1
<1>14. ArraysKept(q, j, d) /\ BlocksIn(BlockOf(q)) = BlocksIn(BlockOf(h))
  BY <1>5, <1>9, <1>11, <1>12, <1>13, ArraysTrade
<1>15. ListsKept(list)
  BY DEF BlocksKept
<1>16. QED
  BY <1>1, <1>2, <1>5, <1>10, <1>14, <1>15 DEF BlocksKept

\* One element is written, in the block and in what the array should hold.
LEMMA SetItemKeeps ==
  ASSUME BlocksKept, NEW a \in Arrays, NEW n \in Nat, NEW v \in Items, Block!SetItem(a, n, v)
  PROVE  BlocksKept'
<1>1. PICK f, y, b : f = BlockOf(array) /\ y = SizeOf(array) /\ b = array[a].block
  OBVIOUS
<1>2. /\ Block!ArrayExists(a) /\ n \in 1 .. array[a].size /\ cell' = [cell EXCEPT ![b][n] = v]
      /\ items' = [items EXCEPT ![a][n] = v] /\ array' = array /\ taken' = taken /\ list' = list /\ busy' = busy
  BY <1>1 DEF Block!SetItem, Block!poolVars
<1>3. Distinct(f) /\ Contents(f, y, items, cell) /\ f[a] = b
  BY <1>1, <1>2, ArrayFacts DEF BlocksKept, ArraysKept
<1>4. items[a] \in Seq(Items) /\ n \in 1 .. Len(items[a])
  BY <1>2, ArrayFacts
<1>5. b # NoMemory
  <2>1. b = NoMemory => items[a] = <<>>
    BY <1>3 DEF Contents
  <2>2. QED
    BY <1>4, <2>1
<1>6. b \in HeapMemory /\ cell[b] = items[a]
  BY <1>3, <1>5 DEF Distinct, MaybeBlock, Contents
<1>7. PICK t : t = [items[a] EXCEPT ![n] = v]
  OBVIOUS
<1>8. t \in Seq(Items) /\ Len(t) = Len(items[a])
  BY <1>4, <1>7
<1>9. /\ items \in [Arrays -> Seq(Items)] /\ cell \in [HeapMemory -> Seq(Items)]
      /\ \A c \in Arrays : y[c] = Len(items[c]) /\ items[c] = IF f[c] = NoMemory THEN <<>> ELSE cell[f[c]]
  BY <1>3 DEF Contents
<1>10. items' = Put(items, a, t) /\ cell' = Put(cell, b, t)
  BY <1>2, <1>6, <1>7, <1>9 DEF Put
<1>11. /\ items' \in [Arrays -> Seq(Items)] /\ cell' \in [HeapMemory -> Seq(Items)]
       /\ items'[a] = t /\ cell'[b] = t
       /\ (\A c \in Arrays : c # a => items'[c] = items[c])
       /\ (\A x \in HeapMemory : x # b => cell'[x] = cell[x])
  BY <1>6, <1>8, <1>9, <1>10 DEF Put
<1>12. ASSUME NEW c \in Arrays
       PROVE  y[c] = Len(items'[c]) /\ items'[c] = IF f[c] = NoMemory THEN <<>> ELSE cell'[f[c]]
  <2>1. CASE c = a
    BY <1>3, <1>5, <1>8, <1>9, <1>11, <2>1
  <2>2. CASE c # a
    <3>1. f[c] # NoMemory => f[c] # b /\ f[c] \in HeapMemory
      BY <1>3, <2>2 DEF Distinct, MaybeBlock
    <3>2. QED
      BY <1>9, <1>11, <2>2, <3>1
  <2>3. QED
    BY <2>1, <2>2
<1>13. Contents(f, y, items', cell')
  BY <1>11, <1>12 DEF Contents
<1>14. ArraysKept(array', items', cell')
  BY <1>1, <1>2, <1>3, <1>13 DEF BlocksKept, ArraysKept
<1>15. QED
  BY <1>2, <1>14 DEF BlocksKept

\* A free list gets the nodes s, none of them from another list.
ListIn(z) == IF z = Gone THEN <<>> ELSE z
ListValues == Seq(HeapMemory) \union {Gone}

LEMMA ListViews ==
  ASSUME NEW r \in [FreeLists -> ListValues], NEW p \in FreeLists, NEW z \in ListValues,
         NEW q, q = Put(r, p, z)
  PROVE  q \in [FreeLists -> ListValues] /\ ListOf(q) = Put(ListOf(r), p, ListIn(z))
<1>1. q \in [FreeLists -> ListValues] /\ q[p] = z /\ \A o \in FreeLists : o # p => q[o] = r[o]
  BY DEF Put
<1>2. QED
  BY <1>1 DEF ListOf, ListIn, Put

LEMMA ListGets ==
  ASSUME NEW r, ListsKept(r), NEW p \in FreeLists, NEW z \in ListValues,
         NEW s \in Seq(HeapMemory), s = ListIn(z), Block!IsInjective(s),
         NEW l, l = ListOf(r), Block!ToSet(s) \intersect (NodesIn(l) \ Block!ToSet(l[p])) = {},
         NEW q, q = Put(r, p, z)
  PROVE  ListsKept(q) /\ NodesIn(ListOf(q)) = (NodesIn(l) \ Block!ToSet(l[p])) \union Block!ToSet(s)
<1>1. PICK k : k = ListOf(q)
  OBVIOUS
<1>2. r \in [FreeLists -> ListValues] /\ Apart(l)
  BY DEF ListsKept, ListValues
<1>3. q \in [FreeLists -> ListValues] /\ k = Put(l, p, s)
  BY <1>1, <1>2, ListViews
<1>4. Block!ToSet(s) \subseteq HeapMemory
  BY DEF Block!ToSet
<1>5. Apart(k) /\ NodesIn(k) = (NodesIn(l) \ Block!ToSet(l[p])) \union Block!ToSet(s)
  BY <1>2, <1>3, <1>4, ListReplaced
<1>6. QED
  BY <1>1, <1>3, <1>5 DEF ListsKept, ListValues

\* The pool p, which has nothing, takes over the nodes of another.
LEMMA ListsTrade ==
  ASSUME NEW r, ListsKept(r), NEW p \in FreeLists, NEW from \in FreeLists, p # from,
         ListIn(r[p]) = <<>>, NEW n, n = r[from], n # Gone, NEW q, q = Put(Put(r, p, n), from, <<>>)
  PROVE  ListsKept(q) /\ NodesIn(ListOf(q)) = NodesIn(ListOf(r))
<1>1. PICK l, k, h, e : l = ListOf(r) /\ k = ListOf(q) /\ h = Put(r, p, n) /\ e = <<>>
  OBVIOUS
<1>2. r \in [FreeLists -> ListValues] /\ Apart(l)
  BY <1>1 DEF ListsKept, ListValues
<1>3. n \in ListValues /\ e \in ListValues /\ ListIn(n) = n
  BY <1>1, <1>2, EmptyList DEF ListValues, ListIn
<1>4. h \in [FreeLists -> ListValues] /\ ListOf(h) = Put(l, p, ListIn(n))
  BY <1>1, <1>2, <1>3, ListViews
<1>5. q = Put(h, from, e)
  BY <1>1
<1>6. q \in [FreeLists -> ListValues] /\ k = Put(ListOf(h), from, ListIn(e))
  BY <1>1, <1>3, <1>4, <1>5, ListViews
<1>7. Gone \notin Seq(HeapMemory)
  BY BlocksAssumed DEF Block!BlocksAssumption
<1>8. ListIn(e) = e
  BY <1>1 DEF ListIn
<1>9. l[p] = e /\ l[from] = n /\ l \in [FreeLists -> Seq(HeapMemory)]
  BY <1>1, <1>2 DEF ListOf, ListIn, Apart
<1>10. k = Exchanged(l, p, from)
  BY <1>3, <1>4, <1>6, <1>8, <1>9 DEF Put, Exchanged
<1>11. Apart(k) /\ NodesIn(k) = NodesIn(l)
  BY <1>2, <1>10, ListsExchanged
<1>12. QED
  BY <1>1, <1>6, <1>11 DEF ListsKept, ListValues

\* The pool p lets its nodes go; it stays with none, or goes itself.
LEMMA PoolDrops ==
  ASSUME BlocksKept, NEW p \in FreeLists, NEW z, z = Gone \/ z = <<>>,
         NEW q, q = Put(list, p, z), NEW N, N = Block!ToSet(ListIn(list[p]))
  PROVE  /\ ListsKept(q) /\ NodesIn(ListOf(q)) = NodesIn(ListOf(list)) \ N
         /\ OwnedApart(BlocksIn(BlockOf(array)), NodesIn(ListOf(q)), busy, taken \ N)
<1>1. PICK l, A, B, e : l = ListOf(list) /\ A = BlocksIn(BlockOf(array)) /\ B = busy /\ e = <<>>
  OBVIOUS
<1>2. PICK r : r = list
  OBVIOUS
<1>3. ListsKept(r) /\ l = ListOf(r) /\ OwnedApart(A, NodesIn(l), B, taken)
  BY <1>1, <1>2 DEF BlocksKept
<1>4. e \in Seq(HeapMemory) /\ Block!IsInjective(e) /\ Block!ToSet(e) = {} /\ z \in ListValues /\ e = ListIn(z)
  BY <1>1, EmptyList DEF ListValues, ListIn
<1>5. Block!ToSet(e) \intersect (NodesIn(l) \ Block!ToSet(l[p])) = {} /\ q = Put(r, p, z)
  BY <1>2, <1>4
<1>6. ListsKept(q) /\ NodesIn(ListOf(q)) = (NodesIn(l) \ Block!ToSet(l[p])) \union Block!ToSet(e)
  BY <1>3, <1>4, <1>5, ListGets
<1>7. l[p] = ListIn(list[p])
  BY <1>1 DEF ListOf, ListIn
<1>8. NodesIn(ListOf(q)) = NodesIn(l) \ N
  BY <1>4, <1>6, <1>7
<1>9. N \subseteq NodesIn(l)
  BY <1>3, <1>7 DEF ListsKept, Apart, NodesIn, Block!ToSet
<1>10. OwnedApart(A, NodesIn(l) \ N, B, taken \ N)
  BY <1>3, <1>9 DEF OwnedApart
<1>11. QED
  BY <1>1, <1>6, <1>8, <1>10

LEMMA ConstructPoolKeeps ==
  ASSUME BlocksKept, NEW p \in FreeLists, Block!ConstructPool(p)
  PROVE  BlocksKept'
<1>1. PICK q, N : q = list' /\ N = Block!ToSet(ListIn(list[p]))
  OBVIOUS
<1>2. PICK z : z = <<>>
  OBVIOUS
<1>3. /\ q = Put(list, p, z) /\ list[p] = Gone
      /\ array' = array /\ cell' = cell /\ items' = items /\ busy' = busy /\ taken' = taken
  BY <1>1, <1>2 DEF Block!ConstructPool, Block!PoolExists, Block!arrayVars, Put
<1>4. N = {}
  BY <1>1, <1>3, EmptyList DEF ListIn
<1>5. z = Gone \/ z = <<>>
  BY <1>2
<1>6. q = Put(list, p, z) /\ N = Block!ToSet(ListIn(list[p]))
  BY <1>1, <1>3
<1>7. ListsKept(q) /\ OwnedApart(BlocksIn(BlockOf(array)), NodesIn(ListOf(q)), busy, taken \ N)
  BY <1>5, <1>6, PoolDrops
<1>8. taken \ N = taken
  BY <1>4
<1>9. QED
  BY <1>1, <1>3, <1>7, <1>8 DEF BlocksKept

LEMMA DestroyPoolKeeps ==
  ASSUME BlocksKept, NEW p \in FreeLists, Block!DestroyPool(p)
  PROVE  BlocksKept'
<1>1. PICK q, z, N : q = list' /\ z = Gone /\ N = Block!ToSet(ListIn(list[p]))
  OBVIOUS
<1>2. /\ q = Put(list, p, z) /\ taken' = taken \ N
      /\ array' = array /\ cell' = cell /\ items' = items /\ busy' = busy
  BY <1>1 DEF Block!DestroyPool, Block!PoolExists, Block!arrayVars, Put, ListIn
<1>3. (z = Gone \/ z = <<>>) /\ N = Block!ToSet(ListIn(list[p]))
  BY <1>1
<1>4. ListsKept(q) /\ OwnedApart(BlocksIn(BlockOf(array)), NodesIn(ListOf(q)), busy, taken \ N)
  BY <1>2, <1>3, PoolDrops
<1>5. QED
  BY <1>1, <1>2, <1>4 DEF BlocksKept

LEMMA MovePoolKeeps ==
  ASSUME BlocksKept, NEW p \in FreeLists, NEW from \in FreeLists, Block!MovePool(p, from)
  PROVE  BlocksKept'
<1>1. PICK r, q, n : r = list /\ q = list' /\ n = r[from]
  OBVIOUS
<1>2. /\ list[p] = Gone /\ list[from] # Gone /\ list' = [list EXCEPT ![p] = list[from], ![from] = <<>>]
      /\ array' = array /\ cell' = cell /\ items' = items /\ busy' = busy /\ taken' = taken
  BY DEF Block!MovePool, Block!PoolExists, Block!arrayVars
<1>3. p # from /\ ListIn(r[p]) = <<>> /\ n # Gone /\ q = Put(Put(r, p, n), from, <<>>)
  BY <1>1, <1>2 DEF ListIn, Put
<1>4. ListsKept(r) /\ n = r[from]
  BY <1>1 DEF BlocksKept
<1>5. ListsKept(q) /\ NodesIn(ListOf(q)) = NodesIn(ListOf(r))
  BY <1>3, <1>4, ListsTrade
<1>6. QED
  BY <1>1, <1>2, <1>5 DEF BlocksKept

\* What p had is let go, then from is moved there; from itself ends with nothing.
LEMMA MoveAssignPoolKeeps ==
  ASSUME BlocksKept, NEW p \in FreeLists, NEW from \in FreeLists, Block!MoveAssignPool(p, from)
  PROVE  BlocksKept'
<1>1. /\ list[p] # Gone /\ list[from] # Gone /\ taken' = taken \ Block!ToSet(list[p])
      /\ list' = [list EXCEPT ![from] = <<>>, ![p] = IF p = from THEN <<>> ELSE list[from]]
      /\ array' = array /\ cell' = cell /\ items' = items /\ busy' = busy
  BY DEF Block!MoveAssignPool, Block!PoolExists, Block!arrayVars
<1>2. PICK N, q : N = Block!ToSet(ListIn(list[p])) /\ q = list'
  OBVIOUS
<1>3. taken' = taken \ N /\ list \in [FreeLists -> ListValues]
  BY <1>1, <1>2 DEF ListIn, BlocksKept, ListsKept, ListValues
<1>4. CASE p = from
  <2>1. PICK z : z = <<>>
    OBVIOUS
  <2>2. q = Put(list, p, z)
    BY <1>1, <1>2, <1>3, <1>4, <2>1 DEF Put
  <2>3. (z = Gone \/ z = <<>>) /\ N = Block!ToSet(ListIn(list[p]))
    BY <1>2, <2>1
  <2>4. ListsKept(q) /\ OwnedApart(BlocksIn(BlockOf(array)), NodesIn(ListOf(q)), busy, taken \ N)
    BY <2>2, <2>3, PoolDrops
  <2>5. QED
    BY <1>1, <1>2, <1>3, <2>4 DEF BlocksKept
<1>5. CASE p # from
  <2>1. PICK z, h, n : z = Gone /\ h = Put(list, p, z) /\ n = list[from]
    OBVIOUS
  <2>2. z = Gone \/ z = <<>>
    BY <2>1
  <2>3. h = Put(list, p, z) /\ N = Block!ToSet(ListIn(list[p]))
    BY <1>2, <2>1
  <2>4. ListsKept(h) /\ OwnedApart(BlocksIn(BlockOf(array)), NodesIn(ListOf(h)), busy, taken \ N)
    BY <2>2, <2>3, PoolDrops
  <2>5. ListIn(h[p]) = <<>> /\ n = h[from] /\ n # Gone
    BY <1>1, <1>3, <1>5, <2>1 DEF Put, ListIn
  <2>6. q = Put(Put(h, p, n), from, <<>>)
    BY <1>1, <1>2, <1>3, <1>5, <2>1 DEF Put
  <2>7. ListsKept(q) /\ NodesIn(ListOf(q)) = NodesIn(ListOf(h))
    BY <1>5, <2>4, <2>5, <2>6, ListsTrade
  <2>8. QED
    BY <1>1, <1>2, <1>3, <2>4, <2>7 DEF BlocksKept
<1>6. QED
  BY <1>4, <1>5

\* An empty pool takes a block from the heap, another its first node.
LEMMA AllocateNodeKeeps ==
  ASSUME BlocksKept, NEW p \in FreeLists, Block!AllocateNode(p)
  PROVE  BlocksKept'
<1>1. PICK r, A, B, l, T : r = list /\ A = BlocksIn(BlockOf(array)) /\ B = busy /\ l = ListOf(r) /\ T = taken
  OBVIOUS
<1>2. ListsKept(r) /\ OwnedApart(A, NodesIn(l), B, T) /\ ArraysKept(array, items, cell)
  BY <1>1 DEF BlocksKept
<1>3. array' = array /\ cell' = cell /\ items' = items /\ list[p] # Gone
  BY DEF Block!AllocateNode, Block!PoolExists, Block!arrayVars
<1>4. CASE list[p] = <<>>
  <2>1. PICK b \in HeapMemory \ T : taken' = T \union {b} /\ busy' = B \union {b} /\ list' = list
    BY <1>1, <1>4 DEF Block!AllocateNode
  <2>2. OwnedApart(A, NodesIn(l), B \union {b}, T \union {b})
    BY <1>2 DEF OwnedApart
  <2>3. QED
    BY <1>1, <1>2, <1>3, <2>1, <2>2 DEF BlocksKept
<1>5. CASE list[p] # <<>>
  <2>1. PICK t, s, b, q : t = list[p] /\ s = Tail(t) /\ b = Head(t) /\ q = list'
    OBVIOUS
  <2>2. busy' = B \union {b} /\ taken' = T /\ q = Put(r, p, s)
    BY <1>1, <1>5, <2>1 DEF Block!AllocateNode, Put
  <2>3. t = l[p] /\ t \in Seq(HeapMemory) /\ t # <<>> /\ Block!IsInjective(t) /\ Block!ToSet(t) \subseteq NodesIn(l)
    BY <1>1, <1>2, <1>3, <1>5, <2>1 DEF ListsKept, Apart, ListOf, NodesIn, Block!ToSet
  <2>4. /\ s \in Seq(HeapMemory) /\ Block!IsInjective(s) /\ b \in Block!ToSet(t) /\ b \in HeapMemory
        /\ Block!ToSet(s) = Block!ToSet(t) \ {b}
    BY <2>1, <2>3, ListPopped
  <2>5. s \in ListValues /\ s = ListIn(s)
    BY <2>4, BlocksAssumed DEF ListValues, ListIn, Block!BlocksAssumption
  <2>6. l = ListOf(r) /\ Block!ToSet(s) \intersect (NodesIn(l) \ Block!ToSet(l[p])) = {}
    BY <1>1, <2>3, <2>4
  <2>7. ListsKept(q) /\ NodesIn(ListOf(q)) = (NodesIn(l) \ Block!ToSet(l[p])) \union Block!ToSet(s)
    BY <1>2, <2>2, <2>4, <2>5, <2>6, ListGets
  <2>8. NodesIn(ListOf(q)) = NodesIn(l) \ {b}
    BY <2>3, <2>4, <2>7
  <2>9. OwnedApart(A, NodesIn(l) \ {b}, B \union {b}, T)
    BY <1>2, <2>3, <2>4 DEF OwnedApart
  <2>10. QED
    BY <1>1, <1>2, <1>3, <2>1, <2>2, <2>7, <2>8, <2>9 DEF BlocksKept
<1>6. QED
  BY <1>4, <1>5

LEMMA DeallocateNodeKeeps ==
  ASSUME BlocksKept, NEW p \in FreeLists, NEW b \in HeapMemory, Block!DeallocateNode(p, b)
  PROVE  BlocksKept'
<1>1. PICK r, A, B, l, T : r = list /\ A = BlocksIn(BlockOf(array)) /\ B = busy /\ l = ListOf(r) /\ T = taken
  OBVIOUS
<1>2. ListsKept(r) /\ OwnedApart(A, NodesIn(l), B, T) /\ ArraysKept(array, items, cell)
  BY <1>1 DEF BlocksKept
<1>3. array' = array /\ cell' = cell /\ items' = items /\ taken' = T /\ list[p] # Gone /\ b \in B /\ busy' = B \ {b}
  BY <1>1 DEF Block!DeallocateNode, Block!PoolExists, Block!arrayVars
<1>4. PICK t, s, q : t = list[p] /\ s = <<b>> \o t /\ q = list'
  OBVIOUS
<1>5. list \in [FreeLists -> ListValues]
  BY <1>1, <1>2 DEF ListsKept, ListValues
<1>6. q = Put(r, p, s)
  BY <1>1, <1>4, <1>5 DEF Block!DeallocateNode, Put
<1>7. t = l[p] /\ t \in Seq(HeapMemory) /\ Block!IsInjective(t) /\ Block!ToSet(t) \subseteq NodesIn(l)
  BY <1>1, <1>2, <1>3, <1>4 DEF ListsKept, Apart, ListOf, NodesIn, Block!ToSet
<1>8. b \notin NodesIn(l)
  BY <1>2, <1>3 DEF OwnedApart
<1>9. b \notin Block!ToSet(t)
  BY <1>7, <1>8
<1>10. s \in Seq(HeapMemory) /\ Block!IsInjective(s) /\ Block!ToSet(s) = Block!ToSet(t) \union {b}
  BY <1>4, <1>7, <1>9, ListPushed
<1>11. s \in ListValues /\ s = ListIn(s)
  BY <1>10, BlocksAssumed DEF ListValues, ListIn, Block!BlocksAssumption
<1>12. l = ListOf(r) /\ Block!ToSet(s) \intersect (NodesIn(l) \ Block!ToSet(l[p])) = {}
  BY <1>1, <1>7, <1>8, <1>10
<1>13. ListsKept(q) /\ NodesIn(ListOf(q)) = (NodesIn(l) \ Block!ToSet(l[p])) \union Block!ToSet(s)
  BY <1>2, <1>6, <1>10, <1>11, <1>12, ListGets
<1>14. NodesIn(ListOf(q)) = NodesIn(l) \union {b}
  BY <1>7, <1>10, <1>13
<1>15. OwnedApart(A, NodesIn(l) \union {b}, B \ {b}, T)
  BY <1>2, <1>3 DEF OwnedApart
<1>16. QED
  BY <1>1, <1>2, <1>3, <1>4, <1>13, <1>14, <1>15 DEF BlocksKept

LEMMA BlocksStep ==
  ASSUME BlocksKept, Block!Next
  PROVE  BlocksKept'
<1>1. ASSUME NEW a \in Arrays, Block!DestroyArray(a)
      PROVE  BlocksKept'
  BY <1>1, DestroyArrayKeeps
<1>2. ASSUME NEW a \in Arrays, NEW x \in Items, NEW n \in ArraySizes, Block!ConstructArray(a, n, x)
      PROVE  BlocksKept'
  BY <1>2, ConstructArrayKeeps
<1>3. ASSUME NEW a \in Arrays, NEW x \in Items, NEW n \in ArraySizes, Block!SetItem(a, n, x)
      PROVE  BlocksKept'
  <2>1. n \in Nat
    BY BlocksAssumed DEF Block!BlocksAssumption
  <2>2. QED
    BY <1>3, <2>1, SetItemKeeps
<1>4. ASSUME NEW a \in Arrays, NEW from \in Arrays, Block!CopyArray(a, from) \/ Block!AssignArray(a, from)
      PROVE  BlocksKept'
  BY <1>4, CopyArrayKeeps, AssignArrayKeeps
<1>5. ASSUME NEW a \in Arrays, NEW from \in Arrays,
             (Block!MoveArray(a, from) \/ Block!MoveAssignArray(a, from)) \/ Block!SwapArrays(a, from)
      PROVE  BlocksKept'
  BY <1>5, MoveArrayKeeps, MoveAssignArrayKeeps, SwapArraysKeeps
<1>6. ASSUME NEW p \in FreeLists, (Block!ConstructPool(p) \/ Block!DestroyPool(p)) \/ Block!AllocateNode(p)
      PROVE  BlocksKept'
  BY <1>6, ConstructPoolKeeps, DestroyPoolKeeps, AllocateNodeKeeps
<1>7. ASSUME NEW p \in FreeLists, NEW b \in HeapMemory, Block!DeallocateNode(p, b)
      PROVE  BlocksKept'
  BY <1>7, DeallocateNodeKeeps
<1>8. ASSUME NEW p \in FreeLists, NEW from \in FreeLists, Block!MovePool(p, from) \/ Block!MoveAssignPool(p, from)
      PROVE  BlocksKept'
  BY <1>8, MovePoolKeeps, MoveAssignPoolKeeps
<1>9. QED
  BY <1>1, <1>2, <1>3, <1>4, <1>5, <1>6, <1>7, <1>8 DEF Block!Next

-----------------------------------------------------------------------------
(* Pointers are counted (modules Pointers and Hooks).  A variable f[v] names *)
(* one of the objects R or nothing; the objects' counts are those of the     *)
(* names, and a call changes one name, or two of variables of a kind.        *)

Is(x, r) == IF x = r THEN 1 ELSE 0

\* How many variables of the kind K name each of R.
Held(R, K, f) == [r \in R |-> Cardinality({v \in K : f[v] = r})]

Plus(U, r) == [x \in DOMAIN U |-> IF x = r THEN U[x] + 1 ELSE U[x]]
Minus(U, r) == [x \in DOMAIN U |-> IF x = r THEN U[x] - 1 ELSE U[x]]

LEMMA HeldIsCount ==
  ASSUME NEW R, NEW K, IsFiniteSet(K), NEW f
  PROVE  /\ Held(R, K, f) \in [R -> Nat]
         /\ \A v \in K : f[v] \in R => Held(R, K, f)[f[v]] > 0
         /\ \A r \in R : Held(R, K, f)[r] = 0 <=> \A v \in K : f[v] # r
<1>1. ASSUME NEW r \in R
      PROVE  /\ Held(R, K, f)[r] \in Nat
             /\ Held(R, K, f)[r] = 0 <=> \A v \in K : f[v] # r
  <2>1. PICK S : S = {v \in K : f[v] = r}
    OBVIOUS
  <2>2. IsFiniteSet(S)
    BY <2>1, FS_Subset
  <2>3. Cardinality(S) \in Nat /\ (Cardinality(S) = 0 <=> S = {})
    BY <2>2, FS_CardinalityType, FS_EmptySet
  <2>4. Held(R, K, f)[r] = Cardinality(S)
    BY <2>1 DEF Held
  <2>5. S = {} <=> \A v \in K : f[v] # r
    BY <2>1
  <2>6. QED
    BY <2>3, <2>4, <2>5
<1>2. Held(R, K, f) \in [R -> Nat]
  <2>1. Held(R, K, f) = [r \in R |-> Held(R, K, f)[r]]
    BY DEF Held
  <2>2. QED
    BY <1>1, <2>1
<1>3. ASSUME NEW v \in K, f[v] \in R
      PROVE  Held(R, K, f)[f[v]] > 0
  <2>1. PICK r \in R : r = f[v]
    BY <1>3
  <2>2. Held(R, K, f)[r] # 0 /\ Held(R, K, f)[r] \in Nat
    BY <1>1, <2>1
  <2>3. QED
    BY <2>1, <2>2
<1>4. QED
  BY <1>1, <1>2, <1>3

LEMMA HeldNamed ==
  ASSUME NEW R, NEW K, IsFiniteSet(K), NEW f, NEW v \in K, NEW r \in R, f[v] = r
  PROVE  Held(R, K, f)[r] > 0
BY HeldIsCount

LEMMA HeldNone ==
  ASSUME NEW R, NEW K, IsFiniteSet(K), NEW f, NEW r \in R, \A v \in K : f[v] # r
  PROVE  Held(R, K, f)[r] = 0
BY HeldIsCount

\* A kind of the variables, and one variable v that names x from now on.
KindOf(K, V) == IsFiniteSet(K) /\ K \subseteq V
Changes(V, f, g, v, x) == v \in V /\ g[v] = x /\ \A u \in V : u # v => g[u] = f[u]

LEMMA HeldChanges ==
  ASSUME NEW R, NEW V, NEW K, KindOf(K, V), NEW f, NEW g, NEW v, NEW x, Changes(V, f, g, v, x)
  PROVE  /\ v \notin K => Held(R, K, g) = Held(R, K, f)
         /\ v \in K => \A r \in R : Held(R, K, g)[r] + Is(f[v], r) = Held(R, K, f)[r] + Is(x, r)
<1> USE DEF KindOf, Changes
<1>1. CASE v \notin K
  <2>1. \A u \in K : g[u] = f[u]
    BY <1>1
  <2>2. \A r \in R : {u \in K : g[u] = r} = {u \in K : f[u] = r}
    BY <2>1
  <2>3. QED
    BY <1>1, <2>2 DEF Held
<1>2. CASE v \in K
  <2>1. ASSUME NEW r \in R
        PROVE  Held(R, K, g)[r] + Is(f[v], r) = Held(R, K, f)[r] + Is(x, r)
    <3>1. PICK S, T, Z : S = {u \in K : f[u] = r} /\ T = {u \in K : g[u] = r} /\ Z = {u \in K \ {v} : f[u] = r}
      OBVIOUS
    <3>2. IsFiniteSet(Z) /\ v \notin Z
      <4>1. Z \subseteq K
        BY <3>1
      <4>2. QED
        BY <3>1, <4>1, FS_Subset
    <3>3. Cardinality(Z) \in Nat /\ Cardinality(Z \union {v}) = Cardinality(Z) + 1
      BY <3>2, FS_CardinalityType, FS_AddElement
    <3>4. S = IF f[v] = r THEN Z \union {v} ELSE Z
      BY <1>2, <3>1
    <3>5. T = IF x = r THEN Z \union {v} ELSE Z
      BY <1>2, <3>1
    <3>6. Held(R, K, f)[r] = Cardinality(S) /\ Held(R, K, g)[r] = Cardinality(T)
      BY <3>1 DEF Held
    <3>7. Cardinality(S) = Cardinality(Z) + Is(f[v], r)
      BY <3>3, <3>4 DEF Is
    <3>8. Cardinality(T) = Cardinality(Z) + Is(x, r)
      BY <3>3, <3>5 DEF Is
    <3>9. QED
      BY <3>3, <3>6, <3>7, <3>8 DEF Is
  <2>2. QED
    BY <1>2, <2>1
<1>3. QED
  BY <1>1, <1>2

\* The same in terms of the whole counts.
LEMMA HeldPlusMinus ==
  ASSUME NEW R, NEW V, NEW K, KindOf(K, V), NEW f, NEW g, NEW v, v \in K, NEW x, Changes(V, f, g, v, x)
  PROVE  Held(R, K, g) = Minus(Plus(Held(R, K, f), x), f[v])
<1>1. PICK H, G : H = Held(R, K, f) /\ G = Held(R, K, g)
  OBVIOUS
<1>2. H \in [R -> Nat] /\ G \in [R -> Nat]
  BY <1>1, HeldIsCount DEF KindOf
<1>3. \A r \in R : G[r] + Is(f[v], r) = H[r] + Is(x, r)
  BY <1>1, HeldChanges
<1>4. PICK y : y = f[v]
  OBVIOUS
<1>5. Minus(Plus(H, x), y) = [r \in R |-> IF r = y THEN (IF r = x THEN H[r] + 1 ELSE H[r]) - 1
                                          ELSE IF r = x THEN H[r] + 1 ELSE H[r]]
  BY <1>2 DEF Minus, Plus
<1>6. \A r \in R : G[r] = IF r = y THEN (IF r = x THEN H[r] + 1 ELSE H[r]) - 1
                          ELSE IF r = x THEN H[r] + 1 ELSE H[r]
  BY <1>2, <1>3, <1>4 DEF Is
<1>7. G = Minus(Plus(H, x), y)
  BY <1>2, <1>5, <1>6
<1>8. QED
  BY <1>1, <1>4, <1>7

\* Whoever is named by f[v] or f[w] is named by x or y, as often.
Traded(R, f, v, w, x, y) == \A r \in R : Is(x, r) + Is(y, r) = Is(f[v], r) + Is(f[w], r)

\* Two variables of a kind exchange what they name.
LEMMA HeldSwaps ==
  ASSUME NEW R, NEW V, NEW K, KindOf(K, V), NEW f, NEW e, NEW g, NEW v, NEW w, NEW x, NEW y,
         v # w, v \in K <=> w \in K, Changes(V, f, e, v, x), Changes(V, e, g, w, y), Traded(R, f, v, w, x, y)
  PROVE  Held(R, K, g) = Held(R, K, f)
<1>1. e[w] = f[w]
  BY DEF Changes
<1>2. IsFiniteSet(K)
  BY DEF KindOf
<1>3. PICK H, E, G : H = Held(R, K, f) /\ E = Held(R, K, e) /\ G = Held(R, K, g)
  OBVIOUS
<1>4. H \in [R -> Nat] /\ E \in [R -> Nat] /\ G \in [R -> Nat]
  <2>1. Held(R, K, f) \in [R -> Nat]
    BY <1>2, HeldIsCount
  <2>2. Held(R, K, e) \in [R -> Nat]
    BY <1>2, HeldIsCount
  <2>3. Held(R, K, g) \in [R -> Nat]
    BY <1>2, HeldIsCount
  <2>4. QED
    BY <1>3, <2>1, <2>2, <2>3
<1>5. CASE v \notin K
  <2>1. E = H
    BY <1>3, <1>5, HeldChanges
  <2>2. G = E
    BY <1>3, <1>5, HeldChanges
  <2>3. QED
    BY <1>3, <2>1, <2>2
<1>6. CASE v \in K
  <2>1. \A r \in R : E[r] + Is(f[v], r) = H[r] + Is(x, r)
    <3>1. \A r \in R : Held(R, K, e)[r] + Is(f[v], r) = Held(R, K, f)[r] + Is(x, r)
      BY <1>6, HeldChanges
    <3>2. QED
      BY <1>3, <3>1
  <2>2. \A r \in R : G[r] + Is(e[w], r) = E[r] + Is(y, r)
    BY <1>3, <1>6, HeldChanges
  <2>3. ASSUME NEW r \in R
        PROVE  G[r] = H[r]
    <3>1. E[r] + Is(f[v], r) = H[r] + Is(x, r) /\ G[r] + Is(f[w], r) = E[r] + Is(y, r)
      BY <1>1, <2>1, <2>2
    <3>2. Is(x, r) + Is(y, r) = Is(f[v], r) + Is(f[w], r)
      BY DEF Traded
    <3>3. H[r] \in Nat /\ E[r] \in Nat /\ G[r] \in Nat
      BY <1>4
    <3>4. PICK a, b, c, d : a = Is(f[v], r) /\ b = Is(f[w], r) /\ c = Is(x, r) /\ d = Is(y, r)
      OBVIOUS
    <3>5. a \in {0, 1} /\ b \in {0, 1} /\ c \in {0, 1} /\ d \in {0, 1}
      BY <3>4 DEF Is
    <3>6. E[r] + a = H[r] + c /\ G[r] + b = E[r] + d /\ c + d = a + b
      BY <3>1, <3>2, <3>4
    <3>7. QED
      BY <3>3, <3>5, <3>6
  <2>4. QED
    BY <1>3, <1>4, <2>3
<1>7. QED
  BY <1>5, <1>6

-----------------------------------------------------------------------------
(* The pointers of one thread (module Pointers, as Pointer).                *)

Vars == ShareVars \union WeakVars
Named == References \union {Nobody}
Counts == [References -> [use : Nat, weak : Nat, object : {"none", "alive", "destroyed"}, memory : BOOLEAN]]

\* The counts c are right for U users and W watchers.
Balanced(c, U, W) ==
  /\ c \in Counts /\ U \in [References -> Nat] /\ W \in [References -> Nat]
  /\ \A r \in References :
       /\ c[r].use = U[r]
       /\ c[r].weak = W[r] + (IF U[r] > 0 THEN 1 ELSE 0)
       /\ c[r].object = "alive" <=> U[r] > 0
       /\ c[r].memory <=> U[r] + W[r] > 0

LEMMA UsedBalances ==
  ASSUME NEW c, NEW U, NEW W, Balanced(c, U, W), NEW r \in Named, r # Nobody => U[r] > 0
  PROVE  Balanced(Pointer!Used(c, r), Plus(U, r), W)
<1>1. CASE r = Nobody
  <2>1. Plus(U, r) = U
    BY <1>1, PointersAssumed DEF Plus, Balanced, Pointer!PointersAssumption
  <2>2. QED
    BY <1>1, <2>1 DEF Pointer!Used
<1>2. CASE r # Nobody
  <2>1. r \in References
    BY <1>2 DEF Named
  <2>2. PICK d, T : d = [c EXCEPT ![r].use = @ + 1] /\ T = Plus(U, r)
    OBVIOUS
  <2>3. T \in [References -> Nat] /\ T[r] = U[r] + 1 /\ \A x \in References : x # r => T[x] = U[x]
    BY <2>1, <2>2 DEF Plus, Balanced
  <2>4. d \in Counts
    BY <2>1, <2>2 DEF Balanced, Counts
  <2>5. ASSUME NEW x \in References
        PROVE  /\ d[x].use = T[x]
               /\ d[x].weak = W[x] + (IF T[x] > 0 THEN 1 ELSE 0)
               /\ d[x].object = "alive" <=> T[x] > 0
               /\ d[x].memory <=> T[x] + W[x] > 0
    <3>1. CASE x = r
      BY <1>2, <2>1, <2>2, <2>3, <3>1 DEF Balanced, Counts
    <3>2. CASE x # r
      BY <2>2, <2>3, <3>2 DEF Balanced, Counts
    <3>3. QED
      BY <3>1, <3>2
  <2>6. Balanced(d, T, W)
    BY <2>3, <2>4, <2>5 DEF Balanced
  <2>7. QED
    BY <1>2, <2>2, <2>6 DEF Pointer!Used
<1>3. QED
  BY <1>1, <1>2

LEMMA WatchedBalances ==
  ASSUME NEW c, NEW U, NEW W, Balanced(c, U, W), NEW r \in Named, r # Nobody => U[r] + W[r] > 0
  PROVE  Balanced(Pointer!Watched(c, r), U, Plus(W, r))
<1>1. CASE r = Nobody
  <2>1. Plus(W, r) = W
    BY <1>1, PointersAssumed DEF Plus, Balanced, Pointer!PointersAssumption
  <2>2. QED
    BY <1>1, <2>1 DEF Pointer!Watched
<1>2. CASE r # Nobody
  <2>1. r \in References
    BY <1>2 DEF Named
  <2>2. PICK d, T : d = [c EXCEPT ![r].weak = @ + 1] /\ T = Plus(W, r)
    OBVIOUS
  <2>3. T \in [References -> Nat] /\ T[r] = W[r] + 1 /\ \A x \in References : x # r => T[x] = W[x]
    BY <2>1, <2>2 DEF Plus, Balanced
  <2>4. d \in Counts
    BY <2>1, <2>2 DEF Balanced, Counts
  <2>5. ASSUME NEW x \in References
        PROVE  /\ d[x].use = U[x]
               /\ d[x].weak = T[x] + (IF U[x] > 0 THEN 1 ELSE 0)
               /\ d[x].object = "alive" <=> U[x] > 0
               /\ d[x].memory <=> U[x] + T[x] > 0
    <3>1. CASE x = r
      BY <1>2, <2>1, <2>2, <2>3, <3>1 DEF Balanced, Counts
    <3>2. CASE x # r
      BY <2>2, <2>3, <3>2 DEF Balanced, Counts
    <3>3. QED
      BY <3>1, <3>2
  <2>6. Balanced(d, U, T)
    BY <2>3, <2>4, <2>5 DEF Balanced
  <2>7. QED
    BY <1>2, <2>2, <2>6 DEF Pointer!Watched
<1>3. QED
  BY <1>1, <1>2

LEMMA UnwatchedBalances ==
  ASSUME NEW c, NEW U, NEW W, Balanced(c, U, W), NEW r \in Named, r # Nobody => W[r] > 0
  PROVE  Balanced(Pointer!Unwatched(c, r), U, Minus(W, r))
<1>1. CASE r = Nobody
  <2>1. Minus(W, r) = W
    BY <1>1, PointersAssumed DEF Minus, Balanced, Pointer!PointersAssumption
  <2>2. QED
    BY <1>1, <2>1 DEF Pointer!Unwatched
<1>2. CASE r # Nobody
  <2>1. r \in References
    BY <1>2 DEF Named
  <2>2. PICK d, T : d = Pointer!Unwatched(c, r) /\ T = Minus(W, r)
    OBVIOUS
  <2>3. T \in [References -> Nat] /\ T[r] = W[r] - 1 /\ \A x \in References : x # r => T[x] = W[x]
    BY <1>2, <2>1, <2>2 DEF Minus, Balanced
  <2>4. /\ d[r] = [c[r] EXCEPT !.weak = @ - 1, !.memory = c[r].weak # 1]
        /\ \A x \in References : x # r => d[x] = c[x]
        /\ d = [x \in References |-> d[x]]
    BY <1>2, <2>1, <2>2 DEF Pointer!Unwatched, Balanced, Counts
  <2>5. /\ c[r] \in [use : Nat, weak : Nat, object : {"none", "alive", "destroyed"}, memory : BOOLEAN]
        /\ U[r] \in Nat /\ W[r] \in Nat /\ W[r] > 0
        /\ c[r].use = U[r] /\ c[r].weak = W[r] + (IF U[r] > 0 THEN 1 ELSE 0)
        /\ c[r].object = "alive" <=> U[r] > 0
    BY <1>2, <2>1 DEF Balanced, Counts
  <2>6. /\ d[r].use = U[r] /\ d[r].weak = T[r] + (IF U[r] > 0 THEN 1 ELSE 0)
        /\ d[r].object = "alive" <=> U[r] > 0
        /\ d[r].memory <=> U[r] + T[r] > 0
        /\ d[r] \in [use : Nat, weak : Nat, object : {"none", "alive", "destroyed"}, memory : BOOLEAN]
    <3>1. /\ d[r].use = c[r].use /\ d[r].weak = c[r].weak - 1 /\ d[r].object = c[r].object
          /\ d[r].memory <=> c[r].weak # 1
      BY <2>4, <2>5
    <3>2. c[r].weak - 1 \in Nat
      BY <2>5
    <3>3. d[r] \in [use : Nat, weak : Nat, object : {"none", "alive", "destroyed"}, memory : BOOLEAN]
      BY <2>4, <2>5, <3>2
    <3>4. PICK u \in Nat, w \in Nat, k \in Nat, m \in Nat :
            u = U[r] /\ w = W[r] /\ k = T[r] /\ m = c[r].weak
      BY <2>1, <2>3, <2>5
    <3>5. w > 0 /\ k = w - 1 /\ m = w + (IF u > 0 THEN 1 ELSE 0)
      BY <2>3, <2>5, <3>4
    <3>6. m - 1 = k + (IF u > 0 THEN 1 ELSE 0) /\ (m # 1 <=> u + k > 0)
      BY <3>5
    <3>7. d[r].weak = T[r] + (IF U[r] > 0 THEN 1 ELSE 0) /\ (d[r].memory <=> U[r] + T[r] > 0)
      BY <3>1, <3>4, <3>6
    <3>8. QED
      BY <2>5, <3>1, <3>3, <3>7
  <2>7. d \in Counts
    <3>1. \A x \in References :
            d[x] \in [use : Nat, weak : Nat, object : {"none", "alive", "destroyed"}, memory : BOOLEAN]
      <4>1. ASSUME NEW x \in References
            PROVE  d[x] \in [use : Nat, weak : Nat, object : {"none", "alive", "destroyed"}, memory : BOOLEAN]
        <5>1. CASE x = r
          BY <2>6, <5>1
        <5>2. CASE x # r
          <6>1. d[x] = c[x]
            BY <2>4, <5>2
          <6>2. QED
            BY <6>1 DEF Balanced, Counts
        <5>3. QED
          BY <5>1, <5>2
      <4>2. QED
        BY <4>1
    <3>2. QED
      BY <2>4, <3>1 DEF Counts
  <2>8. ASSUME NEW x \in References
        PROVE  /\ d[x].use = U[x]
               /\ d[x].weak = T[x] + (IF U[x] > 0 THEN 1 ELSE 0)
               /\ d[x].object = "alive" <=> U[x] > 0
               /\ d[x].memory <=> U[x] + T[x] > 0
    <3>1. CASE x = r
      BY <2>6, <3>1
    <3>2. CASE x # r
      BY <2>3, <2>4, <3>2 DEF Balanced
    <3>3. QED
      BY <3>1, <3>2
  <2>9. Balanced(d, U, T)
    BY <2>3, <2>7, <2>8 DEF Balanced
  <2>10. QED
    BY <2>2, <2>9
<1>3. QED
  BY <1>1, <1>2

LEMMA UnusedBalances ==
  ASSUME NEW c, NEW U, NEW W, Balanced(c, U, W), NEW r \in Named, r # Nobody => U[r] > 0
  PROVE  Balanced(Pointer!Unused(c, r), Minus(U, r), W)
<1>1. CASE r = Nobody
  <2>1. Minus(U, r) = U
    BY <1>1, PointersAssumed DEF Minus, Balanced, Pointer!PointersAssumption
  <2>2. QED
    BY <1>1, <2>1 DEF Pointer!Unused
<1>2. CASE r # Nobody
  <2>1. r \in References
    BY <1>2 DEF Named
  <2>2. PICK d, T, b : d = Pointer!Unused(c, r) /\ T = Minus(U, r) /\ b = [c EXCEPT ![r].use = @ - 1]
    OBVIOUS
  <2>3. T \in [References -> Nat] /\ T[r] = U[r] - 1 /\ \A x \in References : x # r => T[x] = U[x]
    BY <1>2, <2>1, <2>2 DEF Minus, Balanced
  <2>4. /\ c[r] \in [use : Nat, weak : Nat, object : {"none", "alive", "destroyed"}, memory : BOOLEAN]
        /\ U[r] \in Nat /\ W[r] \in Nat /\ U[r] > 0
        /\ c[r].use = U[r] /\ c[r].weak = W[r] + 1 /\ c[r].object = "alive" /\ c[r].memory
    BY <1>2, <2>1 DEF Balanced, Counts
  <2>5. /\ b[r] = [c[r] EXCEPT !.use = @ - 1]
        /\ \A x \in References : x # r => b[x] = c[x]
        /\ b = [x \in References |-> b[x]]
    BY <2>1, <2>2 DEF Balanced, Counts
  <2>6. /\ b[r].use = T[r] /\ b[r].weak = W[r] + 1 /\ b[r].object = "alive" /\ b[r].memory
        /\ b[r] \in [use : Nat, weak : Nat, object : {"none", "alive", "destroyed"}, memory : BOOLEAN]
    <3>1. c[r].use - 1 \in Nat
      BY <2>4
    <3>2. QED
      BY <2>3, <2>4, <2>5, <3>1
  <2>7. CASE T[r] = 0
    <3>1. d = Pointer!Unwatched([b EXCEPT ![r].object = "destroyed"], r)
      BY <1>2, <2>2, <2>6, <2>7 DEF Pointer!Unused, Pointer!Destroyed
    <3>2. PICK e : e = [b EXCEPT ![r].object = "destroyed"]
      OBVIOUS
    <3>3. d = [e EXCEPT ![r].weak = @ - 1, ![r].memory = e[r].weak # 1]
      BY <1>2, <3>1, <3>2 DEF Pointer!Unwatched
    <3>4. /\ e[r] = [b[r] EXCEPT !.object = "destroyed"]
          /\ \A x \in References : x # r => e[x] = c[x]
          /\ e = [x \in References |-> e[x]]
      BY <2>1, <2>5, <3>2
    <3>5. e[r].use = T[r] /\ e[r].weak = W[r] + 1 /\ e[r].object = "destroyed"
      BY <2>6, <3>4
    <3>6. /\ d[r] = [e[r] EXCEPT !.weak = @ - 1, !.memory = e[r].weak # 1]
          /\ \A x \in References : x # r => d[x] = c[x]
          /\ d = [x \in References |-> d[x]]
      BY <2>1, <3>3, <3>4
    <3>7. e[r] \in [use : Nat, weak : Nat, object : {"none", "alive", "destroyed"}, memory : BOOLEAN]
      BY <2>6, <3>4
    <3>8. e[r].weak - 1 = W[r] /\ W[r] \in Nat /\ (e[r].weak # 1 <=> W[r] > 0)
      BY <2>4, <3>5
    <3>9. /\ d[r].use = T[r] /\ d[r].weak = W[r] /\ d[r].object = "destroyed" /\ (d[r].memory <=> W[r] > 0)
          /\ d[r] \in [use : Nat, weak : Nat, object : {"none", "alive", "destroyed"}, memory : BOOLEAN]
      BY <3>5, <3>6, <3>7, <3>8
    <3>10. d \in Counts
      <4>1. \A x \in References :
              d[x] \in [use : Nat, weak : Nat, object : {"none", "alive", "destroyed"}, memory : BOOLEAN]
        BY <3>6, <3>9 DEF Balanced, Counts
      <4>2. QED
        BY <3>6, <4>1 DEF Counts
    <3>11. ASSUME NEW x \in References
           PROVE  /\ d[x].use = T[x]
                  /\ d[x].weak = W[x] + (IF T[x] > 0 THEN 1 ELSE 0)
                  /\ d[x].object = "alive" <=> T[x] > 0
                  /\ d[x].memory <=> T[x] + W[x] > 0
      <4>1. CASE x = r
        BY <2>4, <2>7, <3>9, <4>1
      <4>2. CASE x # r
        BY <2>3, <3>6, <4>2 DEF Balanced
      <4>3. QED
        BY <4>1, <4>2
    <3>12. Balanced(d, T, W)
      BY <2>3, <3>10, <3>11 DEF Balanced
    <3>13. QED
      BY <2>2, <3>12
  <2>8. CASE T[r] # 0
    <3>1. d = b
      BY <1>2, <2>2, <2>6, <2>8 DEF Pointer!Unused
    <3>2. T[r] > 0
      <4>1. T[r] \in Nat
        BY <2>1, <2>3
      <4>2. QED
        BY <2>8, <4>1
    <3>3. d \in Counts
      <4>1. \A x \in References :
              d[x] \in [use : Nat, weak : Nat, object : {"none", "alive", "destroyed"}, memory : BOOLEAN]
        BY <2>5, <2>6, <3>1 DEF Balanced, Counts
      <4>2. QED
        BY <2>5, <3>1, <4>1 DEF Counts
    <3>4. ASSUME NEW x \in References
          PROVE  /\ d[x].use = T[x]
                 /\ d[x].weak = W[x] + (IF T[x] > 0 THEN 1 ELSE 0)
                 /\ d[x].object = "alive" <=> T[x] > 0
                 /\ d[x].memory <=> T[x] + W[x] > 0
      <4>1. CASE x = r
        BY <2>1, <2>3, <2>4, <2>6, <3>1, <3>2, <4>1
      <4>2. CASE x # r
        BY <2>3, <2>5, <3>1, <4>2 DEF Balanced
      <4>3. QED
        BY <4>1, <4>2
    <3>5. Balanced(d, T, W)
      BY <2>3, <3>3, <3>4 DEF Balanced
    <3>6. QED
      BY <2>2, <3>5
  <2>9. QED
    BY <2>7, <2>8
<1>3. QED
  BY <1>1, <1>2

\* The counts c are those of the names f.
KeptBy(c, f) ==
  /\ f \in [Vars -> Named]
  /\ Balanced(c, Held(References, ShareVars, f), Held(References, WeakVars, f))

\* Sets are finite, and have their sizes, in every module alike.
LEMMA FiniteInPointers ==
  \A S : (Pointer!IsFiniteSet(S) <=> IsFiniteSet(S)) /\ Pointer!Cardinality(S) = Cardinality(S)
<1>1. \A S : Pointer!IsFiniteSet(S) <=> IsFiniteSet(S)
  BY DEF IsFiniteSet, Pointer!IsFiniteSet
<1>2. \A S : Pointer!Cardinality(S) = Cardinality(S)
  BY DEF Cardinality, Pointer!Cardinality
<1>3. QED
  BY <1>1, <1>2

LEMMA KindsOfPointers ==
  /\ KindOf(ShareVars, Vars) /\ KindOf(WeakVars, Vars)
  /\ ShareVars \intersect WeakVars = {} /\ Nobody \notin References
<1>1. IsFiniteSet(ShareVars) /\ IsFiniteSet(WeakVars)
  BY PointersAssumed, FiniteInPointers DEF Pointer!PointersAssumption
<1>2. ShareVars \subseteq Vars /\ WeakVars \subseteq Vars
  BY DEF Vars
<1>3. KindOf(ShareVars, Vars) /\ KindOf(WeakVars, Vars)
  BY <1>1, <1>2 DEF KindOf
<1>4. QED
  BY <1>3, PointersAssumed DEF Pointer!PointersAssumption

\* A variable lets one object go and names another one, which is there: what all
\* constructors, assignments and destructors do.
LEMMA RenamedKeeps ==
  ASSUME NEW c, NEW f, KeptBy(c, f), NEW v \in Vars, NEW x \in Named,
         x # Nobody => IF v \in ShareVars THEN c[x].use > 0 ELSE c[x].memory,
         NEW g \in [Vars -> Named], Changes(Vars, f, g, v, x)
  PROVE  KeptBy(Pointer!Released(Pointer!Retained(c, v, x), v, f[v]), g)
<1>1. PICK U, W, y : U = Held(References, ShareVars, f) /\ W = Held(References, WeakVars, f) /\ y = f[v]
  OBVIOUS
<1>2. Balanced(c, U, W) /\ f \in [Vars -> Named] /\ y \in Named
  BY <1>1 DEF KeptBy
<1>3. Changes(Vars, f, g, v, x) /\ g \in [Vars -> Named]
  OBVIOUS
<1>4. PICK b, d : b = Pointer!Retained(c, v, x) /\ d = Pointer!Released(b, v, y)
  OBVIOUS
<1>5. CASE v \in ShareVars
  <2>1. v \notin WeakVars
    BY <1>5, KindsOfPointers
  <2>2. Held(References, WeakVars, g) = W
    <3>1. KindOf(WeakVars, Vars)
      BY KindsOfPointers
    <3>2. Held(References, WeakVars, g) = Held(References, WeakVars, f)
      BY <1>3, <2>1, <3>1, HeldChanges
    <3>3. QED
      BY <1>1, <3>2
  <2>3. Held(References, ShareVars, g) = Minus(Plus(U, x), y)
    BY <1>1, <1>3, <1>5, KindsOfPointers, HeldPlusMinus
  <2>4. x # Nobody => U[x] > 0
    BY <1>2, <1>5 DEF Named, Balanced
  <2>5. Balanced(Pointer!Used(c, x), Plus(U, x), W)
    BY <1>2, <2>4, UsedBalances
  <2>6. b = Pointer!Used(c, x) /\ d = Pointer!Unused(b, y)
    BY <1>4, <1>5 DEF Pointer!Retained, Pointer!Released
  <2>7. y # Nobody => Plus(U, x)[y] > 0
    <3>1. ASSUME y # Nobody
          PROVE  U[y] > 0 /\ U \in [References -> Nat] /\ y \in References
      <4>1. y \in References
        BY <1>2, <3>1 DEF Named
      <4>2. QED
        BY <1>1, <1>2, <1>5, <4>1, KindsOfPointers, HeldIsCount DEF KindOf, Balanced
    <3>2. QED
      BY <3>1 DEF Plus
  <2>8. Balanced(Pointer!Unused(b, y), Minus(Plus(U, x), y), W)
    BY <1>2, <2>5, <2>6, <2>7, UnusedBalances
  <2>9. KeptBy(d, g)
    BY <1>3, <2>2, <2>3, <2>6, <2>8 DEF KeptBy
  <2>10. QED
    BY <1>1, <1>4, <2>9
<1>6. CASE v \notin ShareVars
  <2>1. v \in WeakVars
    BY <1>6 DEF Vars
  <2>2. Held(References, ShareVars, g) = U
    <3>1. KindOf(ShareVars, Vars)
      BY KindsOfPointers
    <3>2. Held(References, ShareVars, g) = Held(References, ShareVars, f)
      BY <1>3, <1>6, <3>1, HeldChanges
    <3>3. QED
      BY <1>1, <3>2
  <2>3. Held(References, WeakVars, g) = Minus(Plus(W, x), y)
    BY <1>1, <1>3, <2>1, KindsOfPointers, HeldPlusMinus
  <2>4. x # Nobody => U[x] + W[x] > 0
    BY <1>2, <1>6 DEF Named, Balanced
  <2>5. Balanced(Pointer!Watched(c, x), U, Plus(W, x))
    BY <1>2, <2>4, WatchedBalances
  <2>6. b = Pointer!Watched(c, x) /\ d = Pointer!Unwatched(b, y)
    BY <1>4, <1>6 DEF Pointer!Retained, Pointer!Released
  <2>7. y # Nobody => Plus(W, x)[y] > 0
    <3>1. ASSUME y # Nobody
          PROVE  W[y] > 0 /\ W \in [References -> Nat] /\ y \in References
      <4>1. y \in References
        BY <1>2, <3>1 DEF Named
      <4>2. QED
        BY <1>1, <1>2, <2>1, <4>1, KindsOfPointers, HeldIsCount DEF KindOf, Balanced
    <3>2. QED
      BY <3>1 DEF Plus
  <2>8. Balanced(Pointer!Unwatched(b, y), U, Minus(Plus(W, x), y))
    BY <1>2, <2>5, <2>6, <2>7, UnwatchedBalances
  <2>9. KeptBy(d, g)
    BY <1>3, <2>2, <2>3, <2>6, <2>8 DEF KeptBy
  <2>10. QED
    BY <1>1, <1>4, <2>9
<1>7. QED
  BY <1>5, <1>6

\* Two variables of a kind exchange what they name; the counts stay.
LEMMA MovedKeeps ==
  ASSUME NEW c, NEW f, KeptBy(c, f), NEW v, NEW w, v # w, v \in ShareVars <=> w \in ShareVars,
         v \in WeakVars <=> w \in WeakVars,
         NEW x, NEW y, NEW e, NEW g \in [Vars -> Named],
         Changes(Vars, f, e, v, x), Changes(Vars, e, g, w, y), Traded(References, f, v, w, x, y)
  PROVE  KeptBy(c, g)
<1>1. KindOf(ShareVars, Vars) /\ KindOf(WeakVars, Vars)
  BY KindsOfPointers
<1>2. Held(References, ShareVars, g) = Held(References, ShareVars, f)
  BY <1>1, HeldSwaps
<1>3. Held(References, WeakVars, g) = Held(References, WeakVars, f)
  BY <1>1, HeldSwaps
<1>4. Balanced(c, Held(References, ShareVars, f), Held(References, WeakVars, f))
  BY DEF KeptBy
<1>5. QED
  BY <1>2, <1>3, <1>4 DEF KeptBy

\* A reference whose memory was free has one user now.
LEMMA StartedBalances ==
  ASSUME NEW c, NEW U, NEW W, Balanced(c, U, W), NEW r \in References, ~c[r].memory
  PROVE  Balanced([c EXCEPT ![r] = Pointer!Started], Plus(U, r), W)
<1>1. PICK d, T : d = [c EXCEPT ![r] = Pointer!Started] /\ T = Plus(U, r)
  OBVIOUS
<1>2. U[r] \in Nat /\ W[r] \in Nat /\ (c[r].memory <=> U[r] + W[r] > 0)
  BY DEF Balanced
<1>3. U[r] = 0 /\ W[r] = 0
  BY <1>2
<1>4. T \in [References -> Nat] /\ T[r] = 1 /\ \A x \in References : x # r => T[x] = U[x]
  BY <1>1, <1>3 DEF Plus, Balanced
<1>5. /\ d[r].use = 1 /\ d[r].weak = 1 /\ d[r].object = "alive" /\ d[r].memory
      /\ \A x \in References : x # r => d[x] = c[x]
      /\ d \in Counts
  BY <1>1 DEF Balanced, Counts, Pointer!Started
<1>6. ASSUME NEW x \in References
      PROVE  /\ d[x].use = T[x]
             /\ d[x].weak = W[x] + (IF T[x] > 0 THEN 1 ELSE 0)
             /\ d[x].object = "alive" <=> T[x] > 0
             /\ d[x].memory <=> T[x] + W[x] > 0
  <2>1. CASE x = r
    BY <1>3, <1>4, <1>5, <2>1
  <2>2. CASE x # r
    BY <1>4, <1>5, <2>2 DEF Balanced
  <2>3. QED
    BY <2>1, <2>2
<1>7. QED
  BY <1>1, <1>4, <1>5, <1>6 DEF Balanced

LEMMA StartedKeeps ==
  ASSUME NEW c, NEW f, KeptBy(c, f), NEW r \in References, ~c[r].memory, NEW v \in ShareVars, f[v] = Nobody,
         NEW g \in [Vars -> Named], Changes(Vars, f, g, v, r)
  PROVE  KeptBy([c EXCEPT ![r] = Pointer!Started], g)
<1>1. PICK U, W : U = Held(References, ShareVars, f) /\ W = Held(References, WeakVars, f)
  OBVIOUS
<1>2. Balanced(c, U, W)
  BY <1>1 DEF KeptBy
<1>3. KindOf(ShareVars, Vars) /\ KindOf(WeakVars, Vars) /\ v \notin WeakVars
  BY KindsOfPointers
<1>4. Held(References, WeakVars, g) = W
  <2>1. Held(References, WeakVars, g) = Held(References, WeakVars, f)
    BY <1>3, HeldChanges
  <2>2. QED
    BY <1>1, <2>1
<1>5. Held(References, ShareVars, g) = Minus(Plus(U, r), f[v])
  <2>1. Held(References, ShareVars, g) = Minus(Plus(Held(References, ShareVars, f), r), f[v])
    BY <1>3, HeldPlusMinus
  <2>2. QED
    BY <1>1, <2>1
<1>6. Minus(Plus(U, r), f[v]) = Plus(U, r)
  BY <1>2, KindsOfPointers DEF Minus, Plus, Balanced
<1>7. PICK d : d = [c EXCEPT ![r] = Pointer!Started]
  OBVIOUS
<1>8. Balanced(d, Plus(U, r), W)
  BY <1>2, <1>7, StartedBalances
<1>9. KeptBy(d, g)
  BY <1>4, <1>5, <1>6, <1>8 DEF KeptBy
<1>10. QED
  BY <1>7, <1>9

\* What the variables of p name.
PointerValues == [to : {"null", "whole", "part"}, of : Named]
NamedBy(z) == IF z = NoPointer THEN Nobody ELSE z.of
Names(p) == [v \in Vars |-> NamedBy(p[v])]
Typed(p) == p \in [Vars -> PointerValues \union {NoPointer}]

LEMMA NamesChange ==
  ASSUME NEW p, Typed(p), NEW v \in Vars, NEW z \in PointerValues \union {NoPointer}, NEW q, q = [p EXCEPT ![v] = z]
  PROVE  Typed(q) /\ Names(q) \in [Vars -> Named] /\ Changes(Vars, Names(p), Names(q), v, NamedBy(z))
<1>1. Typed(q)
  BY DEF Typed
<1>2. \A y \in PointerValues \union {NoPointer} : NamedBy(y) \in Named
  BY DEF NamedBy, PointerValues, Named
<1>3. Names(q) \in [Vars -> Named]
  BY <1>1, <1>2 DEF Names, Typed
<1>4. Names(q)[v] = NamedBy(z) /\ \A u \in Vars : u # v => Names(q)[u] = Names(p)[u]
  BY DEF Names, Typed
<1>5. QED
  BY <1>1, <1>3, <1>4 DEF Changes

\* The invariant of the pointers: every count is that of the names.
PointersKept == Typed(pointers) /\ KeptBy(counts, Names(pointers))

LEMMA PointersStart ==
  ASSUME Pointer!Init
  PROVE  PointersKept
<1>1. Typed(pointers) /\ \A v \in Vars : Names(pointers)[v] = Nobody
  BY DEF Pointer!Init, Typed, Names, NamedBy, Vars
<1>2. Names(pointers) \in [Vars -> Named]
  BY <1>1 DEF Names, Named
<1>3. PICK f : f = Names(pointers)
  OBVIOUS
<1>4. PICK U, W : U = Held(References, ShareVars, f) /\ W = Held(References, WeakVars, f)
  OBVIOUS
<1>5. U \in [References -> Nat] /\ W \in [References -> Nat]
  <2>1. Held(References, ShareVars, f) \in [References -> Nat]
    BY KindsOfPointers, HeldIsCount DEF KindOf
  <2>2. Held(References, WeakVars, f) \in [References -> Nat]
    BY KindsOfPointers, HeldIsCount DEF KindOf
  <2>3. QED
    BY <1>4, <2>1, <2>2
<1>6. ASSUME NEW r \in References
      PROVE  U[r] = 0 /\ W[r] = 0
  <2>1. \A v \in Vars : f[v] # r
    BY <1>1, <1>3, KindsOfPointers
  <2>2. Held(References, ShareVars, f)[r] = 0
    <3>1. IsFiniteSet(ShareVars) /\ \A v \in ShareVars : f[v] # r
      BY <2>1, KindsOfPointers DEF KindOf
    <3>2. QED
      BY <3>1, HeldNone
  <2>3. Held(References, WeakVars, f)[r] = 0
    <3>1. IsFiniteSet(WeakVars) /\ \A v \in WeakVars : f[v] # r
      BY <2>1, KindsOfPointers DEF KindOf
    <3>2. QED
      BY <3>1, HeldNone
  <2>4. QED
    BY <1>4, <2>2, <2>3
<1>7. Balanced(counts, U, W)
  BY <1>5, <1>6 DEF Balanced, Counts, Pointer!Init, Pointer!Fresh
<1>8. QED
  BY <1>1, <1>2, <1>3, <1>4, <1>7 DEF PointersKept, KeptBy

\* What a variable that exists names is there for whoever takes it next.
LEMMA NamedIsThere ==
  ASSUME PointersKept, NEW w \in Vars, NEW x, x = Names(pointers)[w], x # Nobody
  PROVE  x \in References /\ (w \in ShareVars => counts[x].use > 0) /\ counts[x].memory
<1>1. PICK f, U, W : /\ f = Names(pointers)
                     /\ U = Held(References, ShareVars, f) /\ W = Held(References, WeakVars, f)
  OBVIOUS
<1>2. f \in [Vars -> Named] /\ Balanced(counts, U, W)
  BY <1>1 DEF PointersKept, KeptBy
<1>3. x \in References /\ f[w] = x
  BY <1>1, <1>2 DEF Named
<1>4. ASSUME w \in ShareVars
      PROVE  U[x] > 0
  <2>1. IsFiniteSet(ShareVars)
    BY KindsOfPointers DEF KindOf
  <2>2. Held(References, ShareVars, f)[x] > 0
    BY <1>3, <1>4, <2>1, HeldNamed
  <2>3. QED
    BY <1>1, <2>2
<1>5. ASSUME w \in WeakVars
      PROVE  W[x] > 0
  <2>1. IsFiniteSet(WeakVars)
    BY KindsOfPointers DEF KindOf
  <2>2. Held(References, WeakVars, f)[x] > 0
    BY <1>3, <1>5, <2>1, HeldNamed
  <2>3. QED
    BY <1>1, <2>2
<1>6. U[x] \in Nat /\ W[x] \in Nat /\ counts[x].use = U[x] /\ (counts[x].memory <=> U[x] + W[x] > 0)
  BY <1>2, <1>3 DEF Balanced
<1>7. counts[x].memory
  BY <1>4, <1>5, <1>6 DEF Vars
<1>8. QED
  BY <1>3, <1>4, <1>6, <1>7

\* One variable takes the value z, and counts what it names and named.
LEMMA OneNameKeeps ==
  ASSUME PointersKept, NEW v \in Vars, NEW z \in PointerValues \union {NoPointer}, NEW x, x = NamedBy(z),
         x # Nobody => IF v \in ShareVars THEN counts[x].use > 0 ELSE counts[x].memory,
         pointers' = [pointers EXCEPT ![v] = z],
         counts' = Pointer!Released(Pointer!Retained(counts, v, x), v, Names(pointers)[v])
  PROVE  PointersKept'
<1>1. PICK p, q, c, d : p = pointers /\ q = pointers' /\ c = counts /\ d = counts'
  OBVIOUS
<1>2. Typed(p) /\ KeptBy(c, Names(p)) /\ q = [p EXCEPT ![v] = z]
  BY <1>1 DEF PointersKept
<1>3. Typed(q) /\ Names(q) \in [Vars -> Named] /\ Changes(Vars, Names(p), Names(q), v, x)
  BY <1>2, NamesChange
<1>4. x \in Named
  BY DEF NamedBy, PointerValues, Named
<1>5. x # Nobody => IF v \in ShareVars THEN c[x].use > 0 ELSE c[x].memory
  BY <1>1
<1>6. KeptBy(Pointer!Released(Pointer!Retained(c, v, x), v, Names(p)[v]), Names(q))
  BY <1>2, <1>3, <1>4, <1>5, RenamedKeeps
<1>7. d = Pointer!Released(Pointer!Retained(c, v, x), v, Names(p)[v])
  BY <1>1
<1>8. Typed(q) /\ KeptBy(d, Names(q))
  BY <1>3, <1>6, <1>7
<1>9. QED
  BY <1>1, <1>8 DEF PointersKept

\* Two variables of a kind take the values z and y of each other; the counts stay.
LEMMA TwoNamesKeep ==
  ASSUME NEW c, NEW p, Typed(p), KeptBy(c, Names(p)), NEW v \in Vars, NEW w \in Vars, v # w,
         v \in ShareVars <=> w \in ShareVars, v \in WeakVars <=> w \in WeakVars,
         NEW z \in PointerValues \union {NoPointer}, NEW y \in PointerValues \union {NoPointer},
         Traded(References, Names(p), v, w, NamedBy(z), NamedBy(y)),
         NEW q, q = [[p EXCEPT ![v] = z] EXCEPT ![w] = y]
  PROVE  Typed(q) /\ KeptBy(c, Names(q))
<1>1. PICK e : e = [p EXCEPT ![v] = z]
  OBVIOUS
<1>2. Typed(e) /\ Changes(Vars, Names(p), Names(e), v, NamedBy(z))
  BY <1>1, NamesChange
<1>3. Typed(q) /\ Names(q) \in [Vars -> Named] /\ Changes(Vars, Names(e), Names(q), w, NamedBy(y))
  BY <1>1, <1>2, NamesChange
<1>4. KeptBy(c, Names(q))
  BY <1>2, <1>3, MovedKeeps
<1>5. QED
  BY <1>3, <1>4

\* Every variable names what its value says, Nobody when it does not exist.
LEMMA NamesOf ==
  ASSUME PointersKept, NEW v \in Vars
  PROVE  /\ pointers[v] \in PointerValues \union {NoPointer}
         /\ Names(pointers)[v] = NamedBy(pointers[v])
         /\ Names(pointers)[v] \in Named
         /\ Pointer!Exists(v) => pointers[v] \in PointerValues /\ Names(pointers)[v] = pointers[v].of
         /\ ~Pointer!Exists(v) => Names(pointers)[v] = Nobody
<1>1. pointers[v] \in PointerValues \union {NoPointer}
  BY DEF PointersKept, Typed
<1>2. Names(pointers)[v] = NamedBy(pointers[v])
  BY DEF Names
<1>3. NamedBy(pointers[v]) \in Named
  BY <1>1 DEF NamedBy, PointerValues, Named
<1>4. QED
  BY <1>1, <1>2, <1>3 DEF NamedBy, Pointer!Exists

LEMMA NullValue ==
  /\ Pointer!NullPointer \in PointerValues /\ NamedBy(Pointer!NullPointer) = Nobody
  /\ NamedBy(NoPointer) = Nobody
BY DEF Pointer!NullPointer, PointerValues, Named, NamedBy

LEMMA PointerNullKeeps ==
  ASSUME PointersKept, NEW v \in Vars, Pointer!Null(v)
  PROVE  PointersKept'
<1>1. pointers' = [pointers EXCEPT ![v] = Pointer!NullPointer] /\ counts' = counts /\ ~Pointer!Exists(v)
  BY DEF Pointer!Null
<1>2. Names(pointers)[v] = Nobody
  BY <1>1, NamesOf
<1>3. counts' = Pointer!Released(Pointer!Retained(counts, v, Nobody), v, Names(pointers)[v])
  BY <1>1, <1>2 DEF Pointer!Released, Pointer!Retained, Pointer!Used, Pointer!Watched, Pointer!Unused, Pointer!Unwatched
<1>4. QED
  BY <1>1, <1>3, NullValue, OneNameKeeps

LEMMA PointerDestroyKeeps ==
  ASSUME PointersKept, NEW v \in Vars, Pointer!Destroy(v)
  PROVE  PointersKept'
<1>1. /\ pointers' = [pointers EXCEPT ![v] = NoPointer] /\ Pointer!Exists(v)
      /\ counts' = Pointer!Released(counts, v, pointers[v].of)
  BY DEF Pointer!Destroy
<1>2. Names(pointers)[v] = pointers[v].of
  BY <1>1, NamesOf
<1>3. Pointer!Retained(counts, v, Nobody) = counts
  BY DEF Pointer!Retained, Pointer!Used, Pointer!Watched
<1>4. counts' = Pointer!Released(Pointer!Retained(counts, v, Nobody), v, Names(pointers)[v])
  BY <1>1, <1>2, <1>3
<1>5. NoPointer \in PointerValues \union {NoPointer}
  OBVIOUS
<1>6. QED
  BY <1>1, <1>4, <1>5, NullValue, OneNameKeeps

\* Variables of a kind; and those from which a variable can take a share.
SameKind(v, w) == (v \in ShareVars <=> w \in ShareVars) /\ (v \in WeakVars <=> w \in WeakVars)
MayShare(v, w) == v \in ShareVars => w \in ShareVars

\* A new variable shares the object of w, whose name in it is z.of.
LEMMA PointerSharedKeeps ==
  ASSUME PointersKept, NEW v \in Vars, NEW w \in Vars, Pointer!Exists(w), MayShare(v, w),
         NEW z \in PointerValues, NEW x, x = pointers[w].of, z.of = x, z # NoPointer, NEW y, y = Names(pointers)[v],
         pointers' = [pointers EXCEPT ![v] = z],
         counts' = Pointer!Released(Pointer!Retained(counts, v, x), v, y)
  PROVE  PointersKept'
<1>1. Names(pointers)[w] = x /\ NamedBy(z) = x
  BY NamesOf DEF NamedBy
<1>2. x # Nobody => IF v \in ShareVars THEN counts[x].use > 0 ELSE counts[x].memory
  BY <1>1, NamedIsThere DEF MayShare
<1>3. counts' = Pointer!Released(Pointer!Retained(counts, v, x), v, Names(pointers)[v])
  OBVIOUS
<1>4. z \in PointerValues \union {NoPointer}
  OBVIOUS
<1>5. QED
  BY <1>1, <1>2, <1>3, <1>4, OneNameKeeps

\* Nothing is let go by a variable that does not exist yet.
LEMMA NobodyReleased ==
  ASSUME PointersKept, NEW v \in Vars, ~Pointer!Exists(v), NEW c
  PROVE  Pointer!Released(c, v, Names(pointers)[v]) = c
<1>1. Names(pointers)[v] = Nobody
  BY NamesOf
<1>2. QED
  BY <1>1 DEF Pointer!Released, Pointer!Unused, Pointer!Unwatched

\* A value of a variable is not the mark of one that does not exist.
LEMMA ValuesExist == \A z \in PointerValues : z # NoPointer
BY PointersAssumed DEF Pointer!PointersAssumption, PointerValues, Named

LEMMA PointerCopyConstructKeeps ==
  ASSUME PointersKept, NEW v \in Vars, NEW w \in Vars, MayShare(v, w),
         Pointer!CopyConstruct(v, w)
  PROVE  PointersKept'
<1>1. /\ ~Pointer!Exists(v) /\ Pointer!Exists(w) /\ pointers' = [pointers EXCEPT ![v] = pointers[w]]
      /\ counts' = Pointer!Retained(counts, v, pointers[w].of)
  BY DEF Pointer!CopyConstruct
<1>2. PICK z, x, y : z = pointers[w] /\ x = pointers[w].of /\ y = Names(pointers)[v]
  OBVIOUS
<1>3. z \in PointerValues /\ z.of = x /\ z # NoPointer
  BY <1>1, <1>2, NamesOf, ValuesExist
<1>4. counts' = Pointer!Released(Pointer!Retained(counts, v, x), v, y)
  BY <1>1, <1>2, NobodyReleased
<1>5. pointers' = [pointers EXCEPT ![v] = z]
  BY <1>1, <1>2
<1>6. Pointer!Exists(w) /\ x = pointers[w].of /\ y = Names(pointers)[v]
  BY <1>1, <1>2
<1>7. QED
  BY <1>3, <1>4, <1>5, <1>6, PointerSharedKeeps

LEMMA PointerCopyAssignKeeps ==
  ASSUME PointersKept, NEW v \in Vars, NEW w \in Vars, MayShare(v, w),
         Pointer!CopyAssign(v, w)
  PROVE  PointersKept'
<1>1. /\ Pointer!Exists(v) /\ Pointer!Exists(w) /\ pointers' = [pointers EXCEPT ![v] = pointers[w]]
      /\ counts' = Pointer!Released(Pointer!Retained(counts, v, pointers[w].of), v, pointers[v].of)
  BY DEF Pointer!CopyAssign
<1>2. PICK z, x, y : z = pointers[w] /\ x = pointers[w].of /\ y = Names(pointers)[v]
  OBVIOUS
<1>3. z \in PointerValues /\ z.of = x /\ z # NoPointer
  BY <1>1, <1>2, NamesOf, ValuesExist
<1>4. y = pointers[v].of
  BY <1>1, <1>2, NamesOf
<1>5. counts' = Pointer!Released(Pointer!Retained(counts, v, x), v, y)
  BY <1>1, <1>2, <1>4
<1>6. pointers' = [pointers EXCEPT ![v] = z]
  BY <1>1, <1>2
<1>7. Pointer!Exists(w) /\ x = pointers[w].of /\ y = Names(pointers)[v]
  BY <1>1, <1>2
<1>8. QED
  BY <1>3, <1>5, <1>6, <1>7, PointerSharedKeeps

LEMMA PointerAliasCopyKeeps ==
  ASSUME PointersKept, NEW v \in ShareVars, NEW w \in ShareVars, NEW to \in {"null", "whole", "part"},
         Pointer!AliasCopy(v, w, to)
  PROVE  PointersKept'
<1>1. PICK z, x, y : z = [to |-> to, of |-> pointers[w].of] /\ x = pointers[w].of /\ y = Names(pointers)[v]
  OBVIOUS
<1>2. /\ ~Pointer!Exists(v) /\ Pointer!Exists(w) /\ pointers' = [pointers EXCEPT ![v] = z]
      /\ counts' = Pointer!Used(counts, x)
  BY <1>1 DEF Pointer!AliasCopy
<1>3. v \in Vars /\ w \in Vars
  BY DEF Vars
<1>4. x \in Named
  BY <1>1, <1>2, <1>3, NamesOf
<1>5. z \in PointerValues /\ z.of = x /\ z # NoPointer
  <2>1. z \in PointerValues /\ z.of = x
    BY <1>1, <1>4 DEF PointerValues
  <2>2. QED
    BY <2>1, ValuesExist
<1>6. counts' = Pointer!Released(Pointer!Retained(counts, v, x), v, y)
  <2>1. Pointer!Retained(counts, v, x) = Pointer!Used(counts, x)
    BY DEF Pointer!Retained
  <2>2. QED
    BY <1>1, <1>2, <1>3, <2>1, NobodyReleased
<1>7. Pointer!Exists(w) /\ x = pointers[w].of /\ y = Names(pointers)[v] /\ MayShare(v, w)
  BY <1>1, <1>2 DEF MayShare
<1>8. pointers' = [pointers EXCEPT ![v] = z]
  BY <1>2
<1>9. QED
  BY <1>3, <1>5, <1>6, <1>7, <1>8, PointerSharedKeeps

LEMMA PointerLockKeeps ==
  ASSUME PointersKept, NEW s \in ShareVars, NEW w \in WeakVars, Pointer!Lock(s, w)
  PROVE  PointersKept'
<1>1. /\ ~Pointer!Exists(s) /\ Pointer!Exists(w)
      /\ pointers' = [pointers EXCEPT ![s] = IF Pointer!Expired(w) THEN Pointer!NullPointer ELSE pointers[w]]
      /\ counts' = IF Pointer!Expired(w) THEN counts ELSE Pointer!Used(counts, pointers[w].of)
  BY DEF Pointer!Lock
<1>2. s \in Vars /\ w \in Vars
  BY DEF Vars
<1>3. CASE Pointer!Expired(w)
  <2>1. Pointer!Null(s)
    BY <1>1, <1>3 DEF Pointer!Null
  <2>2. QED
    BY <1>2, <2>1, PointerNullKeeps
<1>4. CASE ~Pointer!Expired(w)
  <2>1. PICK z, x : z = pointers[w] /\ x = pointers[w].of
    OBVIOUS
  <2>2. z \in PointerValues /\ z \in PointerValues \union {NoPointer} /\ NamedBy(z) = x /\ x \in Named
    <3>1. z \in PointerValues /\ x \in Named
      BY <1>1, <1>2, <2>1, NamesOf
    <3>2. QED
      BY <2>1, <3>1, ValuesExist DEF NamedBy
  <2>3. x # Nobody => counts[x].use > 0
    <3>1. x # Nobody => counts[x].use # 0 /\ counts[x].use \in Nat
      BY <1>4, <2>1, <2>2 DEF Pointer!Expired, Pointer!UseCount, PointersKept, KeptBy, Balanced, Counts, Named
    <3>2. QED
      BY <3>1
  <2>4. counts' = Pointer!Released(Pointer!Retained(counts, s, x), s, Names(pointers)[s])
    <3>1. Pointer!Retained(counts, s, x) = Pointer!Used(counts, x)
      BY DEF Pointer!Retained
    <3>2. QED
      BY <1>1, <1>2, <1>4, <2>1, <3>1, NobodyReleased
  <2>5. pointers' = [pointers EXCEPT ![s] = z]
    BY <1>1, <1>4, <2>1
  <2>6. QED
    BY <1>2, <2>2, <2>3, <2>4, <2>5, OneNameKeeps
<1>5. QED
  BY <1>3, <1>4

LEMMA PointerConstructKeeps ==
  ASSUME PointersKept, NEW s \in ShareVars, Pointer!Construct(s)
  PROVE  PointersKept'
<1>1. PICK r \in References :
        /\ ~counts[r].memory /\ counts' = [counts EXCEPT ![r] = Pointer!Started]
        /\ pointers' = [pointers EXCEPT ![s] = [to |-> "whole", of |-> r]] /\ ~Pointer!Exists(s)
  BY DEF Pointer!Construct
<1>2. PICK z, p, q, c, d : /\ z = [to |-> "whole", of |-> r] /\ p = pointers /\ q = pointers'
                           /\ c = counts /\ d = counts'
  OBVIOUS
<1>3. z \in PointerValues \union {NoPointer} /\ NamedBy(z) = r
  <2>1. z \in PointerValues
    BY <1>2 DEF PointerValues, Named
  <2>2. QED
    BY <1>2, <2>1, ValuesExist DEF NamedBy
<1>4. Typed(p) /\ KeptBy(c, Names(p)) /\ q = [p EXCEPT ![s] = z] /\ ~c[r].memory
  BY <1>1, <1>2 DEF PointersKept
<1>5. s \in Vars
  BY DEF Vars
<1>6. Typed(q) /\ Names(q) \in [Vars -> Named] /\ Changes(Vars, Names(p), Names(q), s, r)
  BY <1>3, <1>4, <1>5, NamesChange
<1>7. Names(p)[s] = Nobody
  BY <1>1, <1>2, <1>5, NamesOf
<1>8. KeptBy([c EXCEPT ![r] = Pointer!Started], Names(q))
  BY <1>4, <1>6, <1>7, StartedKeeps
<1>9. d = [c EXCEPT ![r] = Pointer!Started]
  BY <1>1, <1>2
<1>10. Typed(q) /\ KeptBy(d, Names(q))
  BY <1>6, <1>8, <1>9
<1>11. QED
  BY <1>2, <1>10 DEF PointersKept

\* v and w, of a kind, take z and y, of which one names what v named before, the
\* other one what w did.
LEMMA PointersExchangeKeeps ==
  ASSUME PointersKept, NEW v \in Vars, NEW w \in Vars, v # w,
         SameKind(v, w),
         NEW z \in PointerValues \union {NoPointer}, NEW y \in PointerValues \union {NoPointer},
         Traded(References, Names(pointers), v, w, NamedBy(z), NamedBy(y)),
         pointers' = [[pointers EXCEPT ![v] = z] EXCEPT ![w] = y], counts' = counts
  PROVE  PointersKept'
<1>1. PICK p, q, c : p = pointers /\ q = pointers' /\ c = counts
  OBVIOUS
<1>2. /\ Typed(p) /\ KeptBy(c, Names(p)) /\ q = [[p EXCEPT ![v] = z] EXCEPT ![w] = y]
      /\ Traded(References, Names(p), v, w, NamedBy(z), NamedBy(y))
  BY <1>1 DEF PointersKept
<1>3. Typed(q) /\ KeptBy(c, Names(q))
  BY <1>2, TwoNamesKeep DEF SameKind
<1>4. QED
  BY <1>1, <1>3 DEF PointersKept

LEMMA PointerMoveConstructKeeps ==
  ASSUME PointersKept, NEW v \in Vars, NEW w \in Vars,
         SameKind(v, w),
         ~Pointer!Exists(v), Pointer!Exists(w), NEW z \in PointerValues, z.of = pointers[w].of,
         pointers' = [pointers EXCEPT ![v] = z, ![w] = Pointer!NullPointer], counts' = counts
  PROVE  PointersKept'
<1>1. v # w
  OBVIOUS
<1>2. NamedBy(z) = Names(pointers)[w] /\ Names(pointers)[v] = Nobody
  <2>1. NamedBy(z) = z.of
    BY ValuesExist DEF NamedBy
  <2>2. Names(pointers)[w] = pointers[w].of /\ Names(pointers)[v] = Nobody
    BY NamesOf
  <2>3. QED
    BY <2>1, <2>2
<1>3. PICK n \in PointerValues \union {NoPointer} : n = Pointer!NullPointer
  BY NullValue
<1>4. Traded(References, Names(pointers), v, w, NamedBy(z), NamedBy(n))
  BY <1>2, <1>3, NullValue DEF Traded, Is
<1>5. pointers' = [[pointers EXCEPT ![v] = z] EXCEPT ![w] = n]
  BY <1>3
<1>6. z \in PointerValues \union {NoPointer}
  OBVIOUS
<1>7. QED
  BY <1>1, <1>4, <1>5, <1>6, PointersExchangeKeeps

LEMMA PointerSwapKeeps ==
  ASSUME PointersKept, NEW v \in Vars, NEW w \in Vars,
         SameKind(v, w), Pointer!Swap(v, w)
  PROVE  PointersKept'
<1>1. pointers' = [pointers EXCEPT ![v] = pointers[w], ![w] = pointers[v]] /\ counts' = counts
  BY DEF Pointer!Swap
<1>2. CASE v = w
  <2>1. pointers' = pointers
    BY <1>1, <1>2 DEF PointersKept, Typed
  <2>2. QED
    BY <1>1, <2>1 DEF PointersKept
<1>3. CASE v # w
  <2>1. PICK z, y : z = pointers[w] /\ y = pointers[v]
    OBVIOUS
  <2>2. z \in PointerValues \union {NoPointer} /\ y \in PointerValues \union {NoPointer}
    BY <2>1, NamesOf
  <2>3. NamedBy(z) = Names(pointers)[w] /\ NamedBy(y) = Names(pointers)[v]
    BY <2>1, NamesOf
  <2>4. Traded(References, Names(pointers), v, w, NamedBy(z), NamedBy(y))
    BY <2>3 DEF Traded, Is
  <2>5. pointers' = [[pointers EXCEPT ![v] = z] EXCEPT ![w] = y]
    BY <1>1, <2>1
  <2>6. counts' = counts
    BY <1>1
  <2>7. QED
    BY <1>3, <2>2, <2>4, <2>5, <2>6, PointersExchangeKeeps
<1>4. QED
  BY <1>2, <1>3

\* What v named is let go, then w is moved there.
LEMMA PointerMoveAssignKeeps ==
  ASSUME PointersKept, NEW v \in Vars, NEW w \in Vars,
         SameKind(v, w), Pointer!MoveAssign(v, w)
  PROVE  PointersKept'
<1>1. /\ Pointer!Exists(v) /\ Pointer!Exists(w)
      /\ pointers' = [pointers EXCEPT ![w] = Pointer!NullPointer, ![v] = pointers[w]]
      /\ counts' = IF v = w THEN counts ELSE Pointer!Released(counts, v, pointers[v].of)
  BY DEF Pointer!MoveAssign
<1>2. CASE v = w
  <2>1. pointers' = pointers /\ counts' = counts
    BY <1>1, <1>2 DEF PointersKept, Typed
  <2>2. QED
    BY <2>1 DEF PointersKept
<1>3. CASE v # w
  <2>1. PICK p, q, c, d, n, z : /\ p = pointers /\ q = pointers' /\ c = counts /\ d = counts'
                                /\ n = Pointer!NullPointer /\ z = pointers[w]
    OBVIOUS
  <2>2. PICK h : h = [p EXCEPT ![v] = n]
    OBVIOUS
  <2>3. Typed(p) /\ KeptBy(c, Names(p))
    BY <2>1 DEF PointersKept
  <2>4. n \in PointerValues \union {NoPointer} /\ NamedBy(n) = Nobody
    BY <2>1, NullValue
  <2>5. z \in PointerValues \union {NoPointer} /\ NamedBy(z) = Names(p)[w]
    BY <2>1, NamesOf
  <2>6. Typed(h) /\ Names(h) \in [Vars -> Named] /\ Changes(Vars, Names(p), Names(h), v, Nobody)
    BY <2>2, <2>3, <2>4, NamesChange
  <2>7. Nobody \in Named
    BY DEF Named
  <2>8. KeptBy(Pointer!Released(Pointer!Retained(c, v, Nobody), v, Names(p)[v]), Names(h))
    BY <2>3, <2>6, <2>7, RenamedKeeps
  <2>9. d = Pointer!Released(Pointer!Retained(c, v, Nobody), v, Names(p)[v])
    <3>1. Pointer!Retained(c, v, Nobody) = c
      BY DEF Pointer!Retained, Pointer!Used, Pointer!Watched
    <3>2. Names(p)[v] = p[v].of
      BY <1>1, <2>1, NamesOf
    <3>3. QED
      BY <1>1, <1>3, <2>1, <3>1, <3>2
  <2>10. KeptBy(d, Names(h))
    BY <2>8, <2>9
  <2>11. q = [[h EXCEPT ![v] = z] EXCEPT ![w] = n]
    BY <1>1, <1>3, <2>1, <2>2, <2>3 DEF Typed
  <2>12. Traded(References, Names(h), v, w, NamedBy(z), NamedBy(n))
    BY <1>3, <2>4, <2>5, <2>6 DEF Traded, Is, Changes
  <2>13. Typed(q) /\ KeptBy(d, Names(q))
    BY <1>3, <2>4, <2>5, <2>6, <2>10, <2>11, <2>12, TwoNamesKeep DEF SameKind
  <2>14. QED
    BY <2>1, <2>13 DEF PointersKept
<1>4. QED
  BY <1>2, <1>3

LEMMA PointersStep ==
  ASSUME PointersKept, Pointer!Next
  PROVE  PointersKept'
<1>1. ASSUME NEW v \in Vars, NEW w \in Vars,
             SameKind(v, w), MayShare(v, w),
             Pointer!Null(v) \/ Pointer!Destroy(v) \/ Pointer!Swap(v, w) \/ Pointer!Convert(v, w)
      PROVE  PointersKept'
  <2>1. CASE Pointer!MoveConstruct(v, w)
    <3>1. PICK z : z = pointers[w]
      OBVIOUS
    <3>2. /\ ~Pointer!Exists(v) /\ Pointer!Exists(w) /\ counts' = counts
          /\ pointers' = [pointers EXCEPT ![v] = z, ![w] = Pointer!NullPointer]
      BY <2>1, <3>1 DEF Pointer!MoveConstruct
    <3>3. z \in PointerValues /\ z.of = pointers[w].of
      BY <3>1, <3>2, NamesOf
    <3>4. SameKind(v, w)
      BY <1>1
    <3>5. QED
      BY <3>2, <3>3, <3>4, PointerMoveConstructKeeps
  <2>2. CASE Pointer!Null(v)
    BY <2>2, PointerNullKeeps
  <2>3. CASE Pointer!Destroy(v)
    BY <2>3, PointerDestroyKeeps
  <2>4. CASE Pointer!Swap(v, w)
    BY <1>1, <2>4, PointerSwapKeeps
  <2>5. CASE Pointer!CopyConstruct(v, w)
    BY <1>1, <2>5, PointerCopyConstructKeeps
  <2>6. CASE Pointer!CopyAssign(v, w)
    BY <1>1, <2>6, PointerCopyAssignKeeps
  <2>7. CASE Pointer!MoveAssign(v, w)
    BY <1>1, <2>7, PointerMoveAssignKeeps
  <2>8. QED
    BY <1>1, <2>1, <2>2, <2>3, <2>4, <2>5, <2>6, <2>7 DEF Pointer!Convert
<1>2. ASSUME NEW s \in ShareVars, NEW t \in ShareVars,
             \/ Pointer!Construct(s) \/ Pointer!AllocateShare(s) \/ Pointer!CastShare(s, t)
             \/ Pointer!AliasCopy(s, t, "part") \/ Pointer!AliasMove(s, t, "part")
      PROVE  PointersKept'
  <2>1. CASE Pointer!Construct(s) \/ Pointer!AllocateShare(s)
    BY <2>1, PointerConstructKeeps DEF Pointer!AllocateShare
  <2>2. CASE Pointer!CastShare(s, t)
    <3>1. PICK to \in {"null", "whole"} : Pointer!AliasCopy(s, t, to)
      BY <2>2 DEF Pointer!CastShare
    <3>2. to \in {"null", "whole", "part"}
      OBVIOUS
    <3>3. QED
      BY <3>1, <3>2, PointerAliasCopyKeeps
  <2>3. CASE Pointer!AliasCopy(s, t, "part")
    <3>1. PICK to \in {"null", "whole", "part"} : to = "part"
      OBVIOUS
    <3>2. QED
      BY <2>3, <3>1, PointerAliasCopyKeeps
  <2>4. CASE Pointer!AliasMove(s, t, "part")
    <3>1. PICK z : z = [to |-> "part", of |-> pointers[t].of]
      OBVIOUS
    <3>2. /\ ~Pointer!Exists(s) /\ Pointer!Exists(t) /\ counts' = counts
          /\ pointers' = [pointers EXCEPT ![s] = z, ![t] = Pointer!NullPointer]
      BY <2>4, <3>1 DEF Pointer!AliasMove
    <3>3. s \in Vars /\ t \in Vars /\ s \notin WeakVars /\ t \notin WeakVars
      BY KindsOfPointers DEF Vars
    <3>4. pointers[t].of \in Named
      BY <3>2, <3>3, NamesOf
    <3>5. z \in PointerValues /\ z.of = pointers[t].of
      BY <3>1, <3>4 DEF PointerValues
    <3>6. SameKind(s, t)
      BY <3>3 DEF SameKind
    <3>7. QED
      BY <1>2, <3>2, <3>3, <3>5, <3>6, PointerMoveConstructKeeps
  <2>5. QED
    BY <1>2, <2>1, <2>2, <2>3, <2>4
<1>3. ASSUME NEW s \in ShareVars, NEW w \in WeakVars, Pointer!Watch(w, s) \/ Pointer!Lock(s, w)
      PROVE  PointersKept'
  <2>1. CASE Pointer!Watch(w, s)
    <3>1. Pointer!CopyConstruct(w, s) /\ s \in Vars /\ w \in Vars /\ MayShare(w, s)
      BY <2>1 DEF Pointer!Watch, Vars, MayShare
    <3>2. QED
      BY <3>1, PointerCopyConstructKeeps
  <2>2. CASE Pointer!Lock(s, w)
    BY <2>2, PointerLockKeeps
  <2>3. QED
    BY <1>3, <2>1, <2>2
<1>4. ASSUME NEW kind \in {ShareVars, WeakVars}, NEW v \in kind, NEW w \in kind
      PROVE  v \in Vars /\ w \in Vars /\ SameKind(v, w) /\ MayShare(v, w)
  BY KindsOfPointers DEF Vars, SameKind, MayShare
<1>5. QED
  BY <1>1, <1>2, <1>3, <1>4 DEF Pointer!Next

LEMMA PointersAreCounted ==
  ASSUME PointersKept
  PROVE  Pointer!CountsAreHolders
<1>1. PICK f : f = Names(pointers)
  OBVIOUS
<1>2. f \in [Vars -> Named] /\ Balanced(counts, Held(References, ShareVars, f), Held(References, WeakVars, f))
  BY <1>1 DEF PointersKept, KeptBy
<1>3. ASSUME NEW r \in References, NEW kind, kind \subseteq Vars
      PROVE  Pointer!Cardinality(Pointer!HoldersOf(r, kind)) = Held(References, kind, f)[r]
  <2>1. \A v \in kind : (Pointer!Exists(v) /\ pointers[v].of = r) <=> f[v] = r
    BY <1>1, <1>3, NamesOf, KindsOfPointers
  <2>2. Pointer!HoldersOf(r, kind) = {v \in kind : f[v] = r}
    BY <2>1 DEF Pointer!HoldersOf
  <2>3. QED
    BY <2>2, FiniteInPointers DEF Held
<1>4. ASSUME NEW r \in References
      PROVE  LET usersOf == Pointer!Cardinality(Pointer!HoldersOf(r, ShareVars))
                 watchers == Pointer!Cardinality(Pointer!HoldersOf(r, WeakVars))
             IN /\ counts[r].use = usersOf
                /\ counts[r].weak = watchers + (IF usersOf > 0 THEN 1 ELSE 0)
                /\ counts[r].object = "alive" <=> usersOf > 0
                /\ counts[r].memory <=> usersOf + watchers > 0
  <2>1. PICK U, W : U = Held(References, ShareVars, f) /\ W = Held(References, WeakVars, f)
    OBVIOUS
  <2>2. /\ Pointer!Cardinality(Pointer!HoldersOf(r, ShareVars)) = U[r]
        /\ Pointer!Cardinality(Pointer!HoldersOf(r, WeakVars)) = W[r]
    BY <1>3, <2>1, KindsOfPointers DEF KindOf
  <2>3. Balanced(counts, U, W)
    BY <1>2, <2>1
  <2>4. QED
    BY <2>2, <2>3 DEF Balanced
<1>5. ASSUME NEW w \in WeakVars, Pointer!Exists(w)
      PROVE  Pointer!Expired(w) <=> \A r \in References : pointers[w].of = r => counts[r].object # "alive"
  <2>1. pointers[w].of \in Named /\ Nobody \notin References
    BY <1>5, NamesOf, KindsOfPointers DEF Vars
  <2>2. \A r \in References : counts[r].use = 0 <=> counts[r].object # "alive"
    <3>1. PICK U, W : U = Held(References, ShareVars, f) /\ W = Held(References, WeakVars, f)
      OBVIOUS
    <3>2. Balanced(counts, U, W)
      BY <1>2, <3>1
    <3>3. \A r \in References : U[r] \in Nat /\ counts[r].use = U[r] /\ (counts[r].object = "alive" <=> U[r] > 0)
      BY <3>2 DEF Balanced
    <3>4. QED
      BY <3>3
  <2>3. QED
    BY <2>1, <2>2 DEF Pointer!Expired, Pointer!UseCount, Named
<1>6. QED
  BY <1>4, <1>5 DEF Pointer!CountsAreHolders

-----------------------------------------------------------------------------
(* The intrusive pointers of one thread (module Hooks, as Hooked).  The      *)
(* users of an object are the variables that name it and the pointers that   *)
(* reset took out of one.                                                    *)

HookVars == HookShares \union HookWeaks
HookNames == Hooks \union {Nil, NoHook}
HookCount == [use : Nat, weak : Nat]
HookLife == [phase : {"out", "alive", "destructed"}, destructs : Nat, raised : Nat]
HookCounts == [Hooks -> HookCount]
HookLives == [Hooks -> HookLife]

Phase(u, w) == IF u > 0 THEN "alive" ELSE IF w > 0 THEN "destructed" ELSE "out"

\* The count c and the life l of one object are right for u users and w weak
\* pointers.  A count that was raised from zero is short of the users it stands
\* for, but it is not zero before the memory is given back.
HookLaw(c, l, u, w) ==
  /\ c \in HookCount /\ l \in HookLife
  /\ l.phase # "out" => /\ c.use = u /\ c.weak > 0
                        /\ c.weak + l.raised = w + l.destructs + (IF u > 0 THEN 1 ELSE 0)
  /\ l.raised = 0 => /\ l.destructs <= (IF u > 0 THEN 0 ELSE 1)
                     /\ l.phase = Phase(u, w + l.destructs)

\* The counts and the lives of the pair p are right for U users and W watchers.
HooksBalanced(p, U, W) ==
  /\ p[1] \in HookCounts /\ p[2] \in HookLives /\ U \in [Hooks -> Nat] /\ W \in [Hooks -> Nat]
  /\ \A h \in Hooks : HookLaw(p[1][h], p[2][h], U[h], W[h])

\* Between the pairs p and q only the entries of h change; between the counts U
\* and T only that of h.
OneEntry(p, q, h, c, l) == q[1] = [p[1] EXCEPT ![h] = c] /\ q[2] = [p[2] EXCEPT ![h] = l]
OnlyAt(T, U, h) == T \in [Hooks -> Nat] /\ \A x \in Hooks : x # h => T[x] = U[x]

\* The memory of x is in use, if x is an object.
HookInUse(p, x) == x \in Hooks => p[2][x].phase # "out"

\* What a variable does to the pair when it takes a name or lets it go.
UseMore(p, h) == IF h \in Hooks THEN <<[p[1] EXCEPT ![h].use = @ + 1], p[2]>> ELSE p
WeakMore(p, h) == IF h \in Hooks THEN <<[p[1] EXCEPT ![h].weak = @ + 1], p[2]>> ELSE p
UseLess(p, h) == IF h \in Hooks THEN Hooked!LessUse(p, h) ELSE p
WeakLess(p, h) == IF h \in Hooks THEN Hooked!LessWeak(p, h) ELSE p

LEMMA HooksAside ==
  Nil \notin Hooks /\ NoHook \notin Hooks /\ NoHook # Nil
BY HooksAssumed DEF Hooked!HooksAssumption

LEMMA NothingChanges ==
  ASSUME NEW U \in [Hooks -> Nat], NEW x, x \notin Hooks
  PROVE  Plus(U, x) = U /\ Minus(U, x) = U
BY DEF Plus, Minus

\* One more user of an object that has users, one more that raises the count
\* from zero, and one less.
LEMMA OneMoreUser ==
  ASSUME NEW c, NEW l, NEW u \in Nat, NEW w \in Nat, HookLaw(c, l, u, w), l.phase # "out", u > 0
  PROVE  HookLaw([c EXCEPT !.use = @ + 1], l, u + 1, w)
<1>1. c \in HookCount /\ l \in HookLife
  BY DEF HookLaw
<1>2. PICK e : e = [c EXCEPT !.use = @ + 1]
  OBVIOUS
<1>3. e \in HookCount /\ e.use = c.use + 1 /\ e.weak = c.weak
  BY <1>1, <1>2 DEF HookCount
<1>4. HookLaw(e, l, u + 1, w)
  BY <1>1, <1>3 DEF HookLaw, Phase
<1>5. QED
  BY <1>2, <1>4

LEMMA RaisedUser ==
  ASSUME NEW c, NEW l, NEW u \in Nat, NEW w \in Nat, HookLaw(c, l, u, w), l.phase # "out", u = 0
  PROVE  HookLaw([c EXCEPT !.use = @ + 1], [l EXCEPT !.raised = @ + 1], u + 1, w)
<1>1. c \in HookCount /\ l \in HookLife
  BY DEF HookLaw
<1>2. PICK e, m : e = [c EXCEPT !.use = @ + 1] /\ m = [l EXCEPT !.raised = @ + 1]
  OBVIOUS
<1>3. e \in HookCount /\ e.use = c.use + 1 /\ e.weak = c.weak
  BY <1>1, <1>2 DEF HookCount
<1>4. m \in HookLife /\ m.phase = l.phase /\ m.destructs = l.destructs /\ m.raised = l.raised + 1
  BY <1>1, <1>2 DEF HookLife
<1>5. PICK d \in Nat, r \in Nat, k \in Nat : d = l.destructs /\ r = l.raised /\ k = c.weak
  BY <1>1 DEF HookLife, HookCount
<1>6. c.use = 0 /\ k > 0 /\ k + r = w + d
  BY <1>5 DEF HookLaw
<1>7. HookLaw(e, m, u + 1, w)
  <2>1. e.use = u + 1 /\ e.weak > 0 /\ e.weak + m.raised = w + m.destructs + 1
    BY <1>3, <1>4, <1>5, <1>6
  <2>2. m.raised # 0 /\ u + 1 > 0
    BY <1>4, <1>5
  <2>3. QED
    BY <1>3, <1>4, <2>1, <2>2 DEF HookLaw
<1>8. QED
  BY <1>2, <1>7

LEMMA OneUserLess ==
  ASSUME NEW c, NEW l, NEW u \in Nat, NEW w \in Nat, HookLaw(c, l, u, w), l.phase # "out", u - 1 > 0,
         NEW e, e = [c EXCEPT !.use = @ - 1]
  PROVE  HookLaw(e, l, u - 1, w)
<1>1. c \in HookCount /\ l \in HookLife /\ c.use = u /\ u - 1 \in Nat
  BY DEF HookLaw
<1>2. e \in HookCount /\ e.use = u - 1 /\ e.weak = c.weak
  BY <1>1 DEF HookCount
<1>3. QED
  BY <1>1, <1>2 DEF HookLaw, Phase

LastUserGone(c, l, e, m) ==
  /\ e = [c EXCEPT !.use = @ - 1]
  /\ m = [l EXCEPT !.phase = "destructed", !.destructs = @ + 1]

LEMMA LastUserLess ==
  ASSUME NEW c, NEW l, NEW w \in Nat, HookLaw(c, l, 1, w), l.phase # "out",
         NEW e, NEW m, LastUserGone(c, l, e, m)
  PROVE  HookLaw(e, m, 0, w)
<1>0. /\ e = [c EXCEPT !.use = @ - 1]
      /\ m = [l EXCEPT !.phase = "destructed", !.destructs = @ + 1]
  BY DEF LastUserGone
<1>1. c \in HookCount /\ l \in HookLife /\ c.use = 1 /\ c.weak > 0
  BY DEF HookLaw
<1>2. e \in HookCount /\ e.use = 0 /\ e.weak = c.weak
  BY <1>0, <1>1 DEF HookCount
<1>3. m \in HookLife /\ m.phase = "destructed" /\ m.destructs = l.destructs + 1 /\ m.raised = l.raised
  <2>1. PICK n : n = [l EXCEPT !.phase = "destructed"]
    OBVIOUS
  <2>2. n \in HookLife /\ n.phase = "destructed" /\ n.destructs = l.destructs /\ n.raised = l.raised
    BY <1>1, <2>1 DEF HookLife
  <2>3. m = [n EXCEPT !.destructs = @ + 1]
    BY <1>0, <1>1, <2>1 DEF HookLife
  <2>4. QED
    BY <2>2, <2>3 DEF HookLife
<1>4. PICK d \in Nat, r \in Nat, k \in Nat : d = l.destructs /\ r = l.raised /\ k = c.weak
  BY <1>1 DEF HookLife, HookCount
<1>5. k > 0 /\ k + r = w + d + 1 /\ (r = 0 => d = 0)
  BY <1>4 DEF HookLaw
<1>6. e.weak > 0 /\ e.weak + m.raised = w + m.destructs
  BY <1>2, <1>3, <1>4, <1>5
<1>7. m.raised = 0 => m.destructs <= 1 /\ m.phase = Phase(0, w + m.destructs)
  BY <1>3, <1>4, <1>5 DEF Phase
<1>8. w + m.destructs + (IF 0 > 0 THEN 1 ELSE 0) = w + m.destructs /\ (IF 0 > 0 THEN 0 ELSE 1) = 1
  BY <1>3, <1>4
<1>9. QED
  BY <1>2, <1>3, <1>6, <1>7, <1>8 DEF HookLaw

\* One more weak pointer of an object whose memory is in use.
LEMMA OneMoreWatcher ==
  ASSUME NEW c, NEW l, NEW u \in Nat, NEW w \in Nat, HookLaw(c, l, u, w), l.phase # "out"
  PROVE  HookLaw([c EXCEPT !.weak = @ + 1], l, u, w + 1)
<1>1. c \in HookCount /\ l \in HookLife
  BY DEF HookLaw
<1>2. PICK e : e = [c EXCEPT !.weak = @ + 1]
  OBVIOUS
<1>3. e \in HookCount /\ e.use = c.use /\ e.weak = c.weak + 1
  BY <1>1, <1>2 DEF HookCount
<1>4. PICK d \in Nat, r \in Nat, k \in Nat : d = l.destructs /\ r = l.raised /\ k = c.weak
  BY <1>1 DEF HookLife, HookCount
<1>5. k + r = w + d + (IF u > 0 THEN 1 ELSE 0) /\ c.use = u /\ k > 0
  BY <1>4 DEF HookLaw
<1>6. r = 0 => Phase(u, (w + 1) + d) = l.phase /\ d <= (IF u > 0 THEN 0 ELSE 1)
  BY <1>4 DEF HookLaw, Phase
<1>7. HookLaw(e, l, u, w + 1)
  <2>1. e.use = u /\ e.weak > 0 /\ e.weak + l.raised = (w + 1) + l.destructs + (IF u > 0 THEN 1 ELSE 0)
    BY <1>3, <1>4, <1>5
  <2>2. QED
    BY <1>1, <1>3, <1>4, <1>6, <2>1 DEF HookLaw
<1>8. QED
  BY <1>2, <1>7

\* The weak count goes down, and with it one of what it counts: a weak pointer
\* or a call of destruct.
LEMMA OneWeakLess ==
  ASSUME NEW c, NEW l, NEW u \in Nat, NEW w \in Nat, HookLaw(c, l, u, w), l.phase # "out",
         NEW x \in Nat, NEW m \in HookLife, m.raised = l.raised,
         x + m.destructs = w + l.destructs - 1, m.destructs <= l.destructs,
         m.phase = IF c.weak = 1 THEN "out" ELSE l.phase
  PROVE  HookLaw([c EXCEPT !.weak = @ - 1], m, u, x)
<1>1. c \in HookCount /\ l \in HookLife
  BY DEF HookLaw
<1>2. PICK d \in Nat, r \in Nat, k \in Nat : d = l.destructs /\ r = l.raised /\ k = c.weak
  BY <1>1 DEF HookLife, HookCount
<1>3. PICK n \in Nat : n = m.destructs
  BY DEF HookLife
<1>4. k + r = w + d + (IF u > 0 THEN 1 ELSE 0) /\ c.use = u /\ k > 0
  BY <1>2 DEF HookLaw
<1>5. x + n = w + d - 1 /\ n <= d
  BY <1>2, <1>3
<1>6. PICK e : e = [c EXCEPT !.weak = @ - 1]
  OBVIOUS
<1>7. e \in HookCount /\ e.use = u /\ e.weak = k - 1
  <2>1. c.weak - 1 \in Nat
    BY <1>2, <1>4
  <2>2. QED
    BY <1>1, <1>2, <1>4, <1>6, <2>1 DEF HookCount
<1>8. ASSUME m.phase # "out"
      PROVE  e.weak > 0 /\ e.weak + m.raised = x + m.destructs + (IF u > 0 THEN 1 ELSE 0)
  <2>1. k # 1
    BY <1>2, <1>8
  <2>2. k - 1 > 0 /\ (k - 1) + r = x + n + (IF u > 0 THEN 1 ELSE 0)
    BY <1>4, <1>5, <2>1
  <2>3. QED
    BY <1>2, <1>3, <1>7, <2>2
<1>9. ASSUME m.raised = 0
      PROVE  m.destructs <= (IF u > 0 THEN 0 ELSE 1) /\ m.phase = Phase(u, x + m.destructs)
  <2>1. r = 0 /\ d <= (IF u > 0 THEN 0 ELSE 1) /\ l.phase = Phase(u, w + d)
    BY <1>2, <1>9 DEF HookLaw
  <2>2. (IF k = 1 THEN "out" ELSE Phase(u, w + d)) = Phase(u, x + n)
    BY <1>4, <1>5, <2>1 DEF Phase
  <2>3. n <= (IF u > 0 THEN 0 ELSE 1)
    BY <1>5, <2>1
  <2>4. QED
    BY <1>2, <1>3, <2>1, <2>2, <2>3
<1>10. HookLaw(e, m, u, x)
  BY <1>7, <1>8, <1>9 DEF HookLaw
<1>11. QED
  BY <1>6, <1>10

\* One entry of a pair changes: what has to be right about it.
LEMMA BalancedAt ==
  ASSUME NEW p, NEW U, NEW W, HooksBalanced(p, U, W), NEW h \in Hooks,
         NEW e, NEW t, NEW T, NEW X, HookLaw(e, t, T[h], X[h]), OnlyAt(T, U, h), OnlyAt(X, W, h),
         NEW q, OneEntry(p, q, h, e, t)
  PROVE  HooksBalanced(q, T, X)
<1>1. PICK a, b, c, s : a = p[1] /\ b = p[2] /\ c = q[1] /\ s = q[2]
  OBVIOUS
<1>2. a \in HookCounts /\ b \in HookLives /\ e \in HookCount /\ t \in HookLife
  BY <1>1 DEF HooksBalanced, HookLaw
<1>3. /\ c = [a EXCEPT ![h] = e] /\ s = [b EXCEPT ![h] = t]
      /\ T \in [Hooks -> Nat] /\ X \in [Hooks -> Nat]
      /\ \A x \in Hooks : x # h => T[x] = U[x] /\ X[x] = W[x]
  BY <1>1 DEF OneEntry, OnlyAt
<1>4. c \in HookCounts /\ s \in HookLives
  BY <1>2, <1>3 DEF HookCounts, HookLives
<1>5. \A x \in Hooks : c[x] = (IF x = h THEN e ELSE a[x]) /\ s[x] = (IF x = h THEN t ELSE b[x])
  BY <1>2, <1>3 DEF HookCounts, HookLives
<1>6. ASSUME NEW x \in Hooks
      PROVE  HookLaw(c[x], s[x], T[x], X[x])
  <2>1. CASE x = h
    BY <1>5, <2>1
  <2>2. CASE x # h
    <3>1. HookLaw(a[x], b[x], U[x], W[x])
      BY <1>1 DEF HooksBalanced
    <3>2. QED
      BY <1>3, <1>5, <2>2, <3>1
  <2>3. QED
    BY <2>1, <2>2
<1>7. QED
  BY <1>1, <1>3, <1>4, <1>6 DEF HooksBalanced

LEMMA UseMoreBalances ==
  ASSUME NEW p, NEW U, NEW W, HooksBalanced(p, U, W), NEW h, HookInUse(p, h), h \in Hooks => U[h] > 0
  PROVE  HooksBalanced(UseMore(p, h), Plus(U, h), W)
<1>1. CASE h \notin Hooks
  <2>1. Plus(U, h) = U
    BY <1>1, NothingChanges DEF HooksBalanced
  <2>2. QED
    BY <1>1, <2>1 DEF UseMore
<1>2. CASE h \in Hooks
  <2>1. PICK a, s, T, q, e : /\ a = p[1] /\ s = p[2] /\ T = Plus(U, h) /\ q = UseMore(p, h)
                             /\ e = [a[h] EXCEPT !.use = @ + 1]
    OBVIOUS
  <2>2. /\ a \in HookCounts /\ s \in HookLives /\ U \in [Hooks -> Nat] /\ W \in [Hooks -> Nat]
        /\ HookLaw(a[h], s[h], U[h], W[h]) /\ s[h].phase # "out" /\ U[h] > 0
    BY <1>2, <2>1 DEF HooksBalanced, HookInUse
  <2>3. T \in [Hooks -> Nat] /\ T[h] = U[h] + 1 /\ \A x \in Hooks : x # h => T[x] = U[x] /\ W[x] = W[x]
    BY <1>2, <2>1, <2>2 DEF Plus
  <2>4. PICK t : t = s[h]
    OBVIOUS
  <2>5. HookLaw(e, t, T[h], W[h])
    BY <1>2, <2>1, <2>2, <2>3, <2>4, OneMoreUser
  <2>6. OneEntry(p, q, h, e, t) /\ OnlyAt(T, U, h) /\ OnlyAt(W, W, h)
    BY <1>2, <2>1, <2>2, <2>3, <2>4 DEF UseMore, HookCounts, HookLives, OneEntry, OnlyAt
  <2>7. HooksBalanced(q, T, W)
    BY <1>2, <2>5, <2>6, BalancedAt
  <2>8. QED
    BY <2>1, <2>7
<1>3. QED
  BY <1>1, <1>2

LEMMA WeakMoreBalances ==
  ASSUME NEW p, NEW U, NEW W, HooksBalanced(p, U, W), NEW h, HookInUse(p, h)
  PROVE  HooksBalanced(WeakMore(p, h), U, Plus(W, h))
<1>1. CASE h \notin Hooks
  <2>1. Plus(W, h) = W
    BY <1>1, NothingChanges DEF HooksBalanced
  <2>2. QED
    BY <1>1, <2>1 DEF WeakMore
<1>2. CASE h \in Hooks
  <2>1. PICK a, s, X, q, e : /\ a = p[1] /\ s = p[2] /\ X = Plus(W, h) /\ q = WeakMore(p, h)
                             /\ e = [a[h] EXCEPT !.weak = @ + 1]
    OBVIOUS
  <2>2. /\ a \in HookCounts /\ s \in HookLives /\ U \in [Hooks -> Nat] /\ W \in [Hooks -> Nat]
        /\ HookLaw(a[h], s[h], U[h], W[h]) /\ s[h].phase # "out"
    BY <1>2, <2>1 DEF HooksBalanced, HookInUse
  <2>3. X \in [Hooks -> Nat] /\ X[h] = W[h] + 1 /\ \A x \in Hooks : x # h => U[x] = U[x] /\ X[x] = W[x]
    BY <1>2, <2>1, <2>2 DEF Plus
  <2>4. PICK t : t = s[h]
    OBVIOUS
  <2>5. HookLaw(e, t, U[h], X[h])
    BY <1>2, <2>1, <2>2, <2>3, <2>4, OneMoreWatcher
  <2>6. OneEntry(p, q, h, e, t) /\ OnlyAt(U, U, h) /\ OnlyAt(X, W, h)
    BY <1>2, <2>1, <2>2, <2>3, <2>4 DEF WeakMore, HookCounts, HookLives, OneEntry, OnlyAt
  <2>7. HooksBalanced(q, U, X)
    BY <1>2, <2>5, <2>6, BalancedAt
  <2>8. QED
    BY <2>1, <2>7
<1>3. QED
  BY <1>1, <1>2

LEMMA WeakLessBalances ==
  ASSUME NEW p, NEW U, NEW W, HooksBalanced(p, U, W), NEW h, HookInUse(p, h), h \in Hooks => W[h] > 0
  PROVE  HooksBalanced(WeakLess(p, h), U, Minus(W, h))
<1>1. CASE h \notin Hooks
  <2>1. Minus(W, h) = W
    BY <1>1, NothingChanges DEF HooksBalanced
  <2>2. QED
    BY <1>1, <2>1 DEF WeakLess
<1>2. CASE h \in Hooks
  <2>1. PICK a, s, X, q : a = p[1] /\ s = p[2] /\ X = Minus(W, h) /\ q = WeakLess(p, h)
    OBVIOUS
  <2>2. /\ a \in HookCounts /\ s \in HookLives /\ U \in [Hooks -> Nat] /\ W \in [Hooks -> Nat]
        /\ HookLaw(a[h], s[h], U[h], W[h]) /\ s[h].phase # "out" /\ W[h] > 0
    BY <1>2, <2>1 DEF HooksBalanced, HookInUse
  <2>3. X \in [Hooks -> Nat] /\ X[h] = W[h] - 1 /\ \A x \in Hooks : x # h => U[x] = U[x] /\ X[x] = W[x]
    BY <1>2, <2>1, <2>2 DEF Minus
  <2>4. PICK e, t : /\ e = [a[h] EXCEPT !.weak = @ - 1]
                    /\ t = IF a[h].weak = 1 THEN [s[h] EXCEPT !.phase = "out"] ELSE s[h]
    OBVIOUS
  <2>5. /\ t \in HookLife /\ t.raised = s[h].raised /\ t.destructs = s[h].destructs
        /\ t.phase = IF a[h].weak = 1 THEN "out" ELSE s[h].phase
    BY <1>2, <2>2, <2>4 DEF HookLives, HookLife
  <2>6. HookLaw(e, t, U[h], X[h])
    <3>1. U[h] \in Nat /\ W[h] \in Nat /\ X[h] \in Nat /\ s[h].destructs \in Nat
      BY <1>2, <2>2, <2>3 DEF HookLives, HookLife
    <3>2. X[h] + t.destructs = W[h] + s[h].destructs - 1 /\ t.destructs <= s[h].destructs
      BY <2>3, <2>5, <3>1
    <3>3. QED
      BY <2>2, <2>4, <2>5, <3>1, <3>2, OneWeakLess
  <2>7. q[1] = [a EXCEPT ![h] = e] /\ q[2] = [s EXCEPT ![h] = t]
    <3>1. /\ q[1] = [a EXCEPT ![h].weak = @ - 1]
          /\ q[2] = IF a[h].weak = 1 THEN [s EXCEPT ![h].phase = "out"] ELSE s
      BY <1>2, <2>1, HooksAside DEF WeakLess, Hooked!LessWeak
    <3>2. QED
      BY <1>2, <2>2, <2>4, <3>1 DEF HookCounts, HookLives
  <2>8. HooksBalanced(q, U, X)
    <3>1. OneEntry(p, q, h, e, t) /\ OnlyAt(U, U, h) /\ OnlyAt(X, W, h)
      BY <2>1, <2>2, <2>3, <2>7 DEF OneEntry, OnlyAt
    <3>2. QED
      BY <1>2, <2>6, <3>1, BalancedAt
  <2>9. QED
    BY <2>1, <2>8
<1>3. QED
  BY <1>1, <1>2

LEMMA UseLessBalances ==
  ASSUME NEW p, NEW U, NEW W, HooksBalanced(p, U, W), NEW h, HookInUse(p, h), h \in Hooks => U[h] > 0
  PROVE  HooksBalanced(UseLess(p, h), Minus(U, h), W)
<1>1. CASE h \notin Hooks
  <2>1. Minus(U, h) = U
    BY <1>1, NothingChanges DEF HooksBalanced
  <2>2. QED
    BY <1>1, <2>1 DEF UseLess
<1>2. CASE h \in Hooks
  <2>1. PICK a, s, T, q : a = p[1] /\ s = p[2] /\ T = Minus(U, h) /\ q = UseLess(p, h)
    OBVIOUS
  <2>2. /\ a \in HookCounts /\ s \in HookLives /\ U \in [Hooks -> Nat] /\ W \in [Hooks -> Nat]
        /\ HookLaw(a[h], s[h], U[h], W[h]) /\ s[h].phase # "out" /\ U[h] > 0
    BY <1>2, <2>1 DEF HooksBalanced, HookInUse
  <2>3. T \in [Hooks -> Nat] /\ T[h] = U[h] - 1 /\ \A x \in Hooks : x # h => T[x] = U[x] /\ W[x] = W[x]
    BY <1>2, <2>1, <2>2 DEF Minus
  <2>4. PICK b, e : b = [a EXCEPT ![h].use = @ - 1] /\ e = [a[h] EXCEPT !.use = @ - 1]
    OBVIOUS
  <2>5. b = [a EXCEPT ![h] = e] /\ b[h].use = U[h] - 1 /\ U[h] \in Nat
    <3>1. a[h] \in HookCount /\ a[h].use = U[h]
      BY <1>2, <2>2 DEF HookLaw
    <3>2. e.use = U[h] - 1
      BY <2>4, <3>1 DEF HookCount
    <3>3. b = [a EXCEPT ![h] = e] /\ b[h] = e
      BY <1>2, <2>2, <2>4 DEF HookCounts
    <3>4. QED
      BY <1>2, <2>2, <3>2, <3>3
  <2>6. PICK t : t = IF U[h] - 1 > 0 THEN s[h] ELSE [s[h] EXCEPT !.phase = "destructed", !.destructs = @ + 1]
    OBVIOUS
  <2>7. HookLaw(e, t, T[h], W[h])
    <3>1. U[h] \in Nat /\ W[h] \in Nat
      BY <1>2, <2>2
    <3>2. U[h] - 1 > 0 \/ U[h] - 1 = 0
      BY <2>2, <3>1
    <3>3. PICK c, l, u, w : c = a[h] /\ l = s[h] /\ u = U[h] /\ w = W[h]
      OBVIOUS
    <3>4. u \in Nat /\ w \in Nat /\ HookLaw(c, l, u, w) /\ l.phase # "out" /\ u > 0
      BY <2>2, <3>1, <3>3
    <3>5. CASE u - 1 > 0
      <4>1. e = [c EXCEPT !.use = @ - 1] /\ t = l
        BY <2>4, <2>6, <3>3, <3>5
      <4>2. HookLaw(e, l, u - 1, w)
        BY <3>4, <3>5, <4>1, OneUserLess
      <4>3. QED
        BY <2>3, <3>3, <4>1, <4>2
    <3>6. CASE u - 1 = 0
      <4>1. LastUserGone(c, l, e, t)
        BY <2>4, <2>6, <3>3, <3>6 DEF LastUserGone
      <4>2. u = 1
        BY <3>4, <3>6
      <4>3. HookLaw(c, l, 1, w)
        BY <3>4, <4>2
      <4>4. HookLaw(e, t, 0, w)
        BY <3>4, <4>1, <4>3, LastUserLess
      <4>5. QED
        BY <2>3, <3>3, <3>6, <4>4
    <3>7. QED
      BY <3>2, <3>3, <3>5, <3>6
  <2>8. q[1] = [a EXCEPT ![h] = e] /\ q[2] = [s EXCEPT ![h] = t]
    <3>1. /\ q[1] = b
          /\ q[2] = IF b[h].use > 0 THEN s
                    ELSE [s EXCEPT ![h].phase = "destructed", ![h].destructs = @ + 1]
      BY <1>2, <2>1, <2>4, HooksAside DEF UseLess, Hooked!LessUse
    <3>2. CASE U[h] - 1 > 0
      BY <2>2, <2>5, <2>6, <3>1, <3>2 DEF HookLives
    <3>3. CASE ~(U[h] - 1 > 0)
      <4>1. q[2] = [s EXCEPT ![h].phase = "destructed", ![h].destructs = @ + 1]
        BY <2>5, <3>1, <3>3
      <4>2. t = [s[h] EXCEPT !.phase = "destructed", !.destructs = @ + 1]
        BY <2>6, <3>3
      <4>3. QED
        BY <1>2, <2>2, <2>5, <3>1, <4>1, <4>2 DEF HookLives, HookLife
    <3>4. QED
      BY <3>2, <3>3
  <2>9. HooksBalanced(q, T, W)
    <3>1. OneEntry(p, q, h, e, t) /\ OnlyAt(T, U, h) /\ OnlyAt(W, W, h)
      BY <2>1, <2>2, <2>3, <2>8 DEF OneEntry, OnlyAt
    <3>2. QED
      BY <1>2, <2>7, <3>1, BalancedAt
  <2>10. QED
    BY <2>1, <2>9
<1>3. QED
  BY <1>1, <1>2

\* Users of an object: the variables that name it and the pointers that are
\* under way.
Total(H, K) == [h \in Hooks |-> H[h] + K[h]]

LEMMA TotalChanges ==
  ASSUME NEW H \in [Hooks -> Nat], NEW K \in [Hooks -> Nat], NEW x
  PROVE  /\ Total(H, K) \in [Hooks -> Nat]
         /\ Total(Plus(H, x), K) = Plus(Total(H, K), x)
         /\ Total(Minus(H, x), K) = Minus(Total(H, K), x)
         /\ Total(H, Plus(K, x)) = Plus(Total(H, K), x)
         /\ Total(H, Minus(K, x)) = Minus(Total(H, K), x)
         /\ Total(Minus(H, x), Plus(K, x)) = Total(H, K)
         /\ Total(Plus(H, x), Minus(K, x)) = Total(H, K)
<1>1. \A h \in Hooks : H[h] \in Nat /\ K[h] \in Nat
  OBVIOUS
<1>2. DOMAIN H = Hooks /\ DOMAIN K = Hooks /\ DOMAIN Total(H, K) = Hooks
  BY DEF Total
<1>3. Total(H, K) \in [Hooks -> Nat]
  BY <1>1 DEF Total
<1>4. Total(Plus(H, x), K) = Plus(Total(H, K), x)
  BY <1>1, <1>2 DEF Total, Plus
<1>5. Total(Minus(H, x), K) = Minus(Total(H, K), x)
  BY <1>1, <1>2 DEF Total, Minus
<1>6. Total(H, Plus(K, x)) = Plus(Total(H, K), x)
  BY <1>1, <1>2 DEF Total, Plus
<1>7. Total(H, Minus(K, x)) = Minus(Total(H, K), x)
  BY <1>1, <1>2 DEF Total, Minus
<1>8. Total(Minus(H, x), Plus(K, x)) = Total(H, K)
  BY <1>1, <1>2 DEF Total, Plus, Minus
<1>9. Total(Plus(H, x), Minus(K, x)) = Total(H, K)
  BY <1>1, <1>2 DEF Total, Plus, Minus
<1>10. QED
  BY <1>3, <1>4, <1>5, <1>6, <1>7, <1>8, <1>9

LEMMA FiniteInHooks ==
  \A S : (Hooked!IsFiniteSet(S) <=> IsFiniteSet(S)) /\ Hooked!Cardinality(S) = Cardinality(S)
<1>1. \A S : Hooked!IsFiniteSet(S) <=> IsFiniteSet(S)
  BY DEF IsFiniteSet, Hooked!IsFiniteSet
<1>2. \A S : Hooked!Cardinality(S) = Cardinality(S)
  BY DEF Cardinality, Hooked!Cardinality
<1>3. QED
  BY <1>1, <1>2

LEMMA KindsOfHooks ==
  /\ IsFiniteSet(HookShares) /\ IsFiniteSet(HookWeaks)
  /\ KindOf(HookShares, HookVars) /\ KindOf(HookWeaks, HookVars)
  /\ HookShares \intersect HookWeaks = {}
<1>1. IsFiniteSet(HookShares) /\ IsFiniteSet(HookWeaks)
  BY HooksAssumed, FiniteInHooks DEF Hooked!HooksAssumption
<1>2. HookShares \subseteq HookVars /\ HookWeaks \subseteq HookVars
  BY DEF HookVars
<1>3. KindOf(HookShares, HookVars) /\ KindOf(HookWeaks, HookVars)
  BY <1>1, <1>2 DEF KindOf
<1>4. QED
  BY <1>1, <1>3, HooksAssumed DEF Hooked!HooksAssumption

\* The counts and the states of the pair p are those of the names f and of the
\* pointers K that are under way.
HookUsers(f, K) == Total(Held(Hooks, HookShares, f), K)
HookWatchers(f) == Held(Hooks, HookWeaks, f)

KeptHooks(p, f, K) ==
  /\ f \in [HookVars -> HookNames] /\ K \in [Hooks -> Nat]
  /\ HooksBalanced(p, HookUsers(f, K), HookWatchers(f))

LEMMA HeldHooks ==
  ASSUME NEW f
  PROVE  Held(Hooks, HookShares, f) \in [Hooks -> Nat] /\ Held(Hooks, HookWeaks, f) \in [Hooks -> Nat]
BY KindsOfHooks, HeldIsCount

\* A share pointer names x from now on, and lets go what it named.
LEMMA ShareRenamedKeeps ==
  ASSUME NEW p, NEW f, NEW K, KeptHooks(p, f, K), NEW v \in HookShares, NEW x,
         HookInUse(p, x), HookInUse(p, f[v]), x \in Hooks => p[1][x].use > 0,
         NEW g \in [HookVars -> HookNames], Changes(HookVars, f, g, v, x)
  PROVE  KeptHooks(UseLess(UseMore(p, x), f[v]), g, K)
<1>1. PICK H, y : H = Held(Hooks, HookShares, f) /\ y = f[v]
  OBVIOUS
<1>2. PICK U, W : U = Total(H, K) /\ W = HookWatchers(f)
  OBVIOUS
<1>3. HooksBalanced(p, U, W) /\ K \in [Hooks -> Nat] /\ H \in [Hooks -> Nat]
  BY <1>1, <1>2, HeldHooks DEF KeptHooks, HookUsers
<1>4. KindOf(HookShares, HookVars) /\ KindOf(HookWeaks, HookVars) /\ v \notin HookWeaks /\ IsFiniteSet(HookShares)
  BY KindsOfHooks
<1>5. HookWatchers(g) = W
  <2>1. Held(Hooks, HookWeaks, g) = Held(Hooks, HookWeaks, f)
    BY <1>4, HeldChanges
  <2>2. QED
    BY <1>2, <2>1 DEF HookWatchers
<1>6. HookUsers(g, K) = Minus(Plus(U, x), y)
  <2>1. Held(Hooks, HookShares, g) = Minus(Plus(Held(Hooks, HookShares, f), x), f[v])
    BY <1>4, HeldPlusMinus
  <2>2. HookUsers(g, K) = Total(Minus(Plus(H, x), y), K)
    BY <1>1, <2>1 DEF HookUsers
  <2>3. Held(Hooks, HookShares, g) \in [Hooks -> Nat]
    BY HeldHooks
  <2>4. Plus(H, x) \in [Hooks -> Nat]
    BY <1>3 DEF Plus
  <2>5. Total(Minus(Plus(H, x), y), K) = Minus(Total(Plus(H, x), K), y)
    BY <1>3, <2>4, TotalChanges
  <2>6. Total(Plus(H, x), K) = Plus(Total(H, K), x)
    BY <1>3, TotalChanges
  <2>7. QED
    BY <1>2, <2>2, <2>5, <2>6
<1>7. x \in Hooks => U[x] > 0
  BY <1>3 DEF HooksBalanced, HookLaw, HookInUse
<1>8. HooksBalanced(UseMore(p, x), Plus(U, x), W)
  BY <1>3, <1>7, UseMoreBalances
<1>9. y \in Hooks => Plus(U, x)[y] > 0
  <2>1. ASSUME y \in Hooks
        PROVE  U[y] > 0 /\ U \in [Hooks -> Nat]
    <3>1. Held(Hooks, HookShares, f)[y] > 0
      BY <1>1, <1>4, <2>1, HeldNamed
    <3>2. H[y] \in Nat /\ K[y] \in Nat /\ H[y] > 0
      BY <1>1, <1>3, <2>1, <3>1
    <3>3. U[y] = H[y] + K[y]
      BY <1>2, <2>1 DEF Total
    <3>4. QED
      BY <1>3, <3>2, <3>3 DEF HooksBalanced
  <2>2. QED
    BY <2>1 DEF Plus
<1>10. HooksBalanced(UseLess(UseMore(p, x), y), Minus(Plus(U, x), y), W)
  <2>1. HookInUse(UseMore(p, x), y)
    BY <1>1 DEF HookInUse, UseMore
  <2>2. QED
    BY <1>8, <1>9, <2>1, UseLessBalances
<1>11. KeptHooks(UseLess(UseMore(p, x), y), g, K)
  BY <1>3, <1>5, <1>6, <1>10 DEF KeptHooks
<1>12. QED
  BY <1>1, <1>11

\* The same of a weak pointer.
LEMMA WeakRenamedKeeps ==
  ASSUME NEW p, NEW f, NEW K, KeptHooks(p, f, K), NEW v \in HookWeaks, NEW x,
         HookInUse(p, x), HookInUse(p, f[v]),
         NEW g \in [HookVars -> HookNames], Changes(HookVars, f, g, v, x)
  PROVE  KeptHooks(WeakLess(WeakMore(p, x), f[v]), g, K)
<1>1. PICK U, W, y : U = HookUsers(f, K) /\ W = Held(Hooks, HookWeaks, f) /\ y = f[v]
  OBVIOUS
<1>2. HooksBalanced(p, U, W) /\ K \in [Hooks -> Nat]
  BY <1>1 DEF KeptHooks, HookWatchers
<1>3. KindOf(HookShares, HookVars) /\ KindOf(HookWeaks, HookVars) /\ v \notin HookShares /\ IsFiniteSet(HookWeaks)
  BY KindsOfHooks
<1>4. HookUsers(g, K) = U
  <2>1. Held(Hooks, HookShares, g) = Held(Hooks, HookShares, f)
    BY <1>3, HeldChanges
  <2>2. QED
    BY <1>1, <2>1 DEF HookUsers
<1>5. HookWatchers(g) = Minus(Plus(W, x), y)
  <2>1. Held(Hooks, HookWeaks, g) = Minus(Plus(Held(Hooks, HookWeaks, f), x), f[v])
    BY <1>3, HeldPlusMinus
  <2>2. QED
    BY <1>1, <2>1 DEF HookWatchers
<1>6. HookInUse(WeakMore(p, x), y)
  BY <1>1 DEF HookInUse, WeakMore
<1>7. HooksBalanced(WeakMore(p, x), U, Plus(W, x))
  BY <1>2, WeakMoreBalances
<1>8. y \in Hooks => Plus(W, x)[y] > 0
  <2>1. ASSUME y \in Hooks
        PROVE  W[y] > 0 /\ W \in [Hooks -> Nat]
    <3>1. Held(Hooks, HookWeaks, f)[y] > 0
      BY <1>1, <1>3, <2>1, HeldNamed
    <3>2. QED
      BY <1>1, <1>2, <3>1 DEF HooksBalanced
  <2>2. QED
    BY <2>1 DEF Plus
<1>9. HooksBalanced(WeakLess(WeakMore(p, x), y), U, Minus(Plus(W, x), y))
  BY <1>6, <1>7, <1>8, WeakLessBalances
<1>10. KeptHooks(WeakLess(WeakMore(p, x), y), g, K)
  BY <1>2, <1>4, <1>5, <1>9 DEF KeptHooks
<1>11. QED
  BY <1>1, <1>10

SameHookKind(v, w) == (v \in HookShares <=> w \in HookShares) /\ (v \in HookWeaks <=> w \in HookWeaks)

\* Two variables of a kind exchange what they name.
LEMMA HooksMovedKeeps ==
  ASSUME NEW p, NEW f, NEW K, KeptHooks(p, f, K), NEW v \in HookVars, NEW w \in HookVars, v # w,
         SameHookKind(v, w), NEW x \in HookNames, NEW y \in HookNames, Traded(Hooks, f, v, w, x, y),
         NEW g, g = [[f EXCEPT ![v] = x] EXCEPT ![w] = y]
  PROVE  KeptHooks(p, g, K)
<1>1. PICK e : e = [f EXCEPT ![v] = x]
  OBVIOUS
<1>2. f \in [HookVars -> HookNames] /\ K \in [Hooks -> Nat]
  BY DEF KeptHooks
<1>3. Changes(HookVars, f, e, v, x) /\ e \in [HookVars -> HookNames]
  BY <1>1, <1>2 DEF Changes
<1>4. g = [e EXCEPT ![w] = y]
  BY <1>1
<1>5. Changes(HookVars, e, g, w, y) /\ g \in [HookVars -> HookNames]
  BY <1>3, <1>4 DEF Changes
<1>6. KindOf(HookShares, HookVars) /\ KindOf(HookWeaks, HookVars)
  BY KindsOfHooks
<1>7. (v \in HookShares <=> w \in HookShares) /\ (v \in HookWeaks <=> w \in HookWeaks)
  BY DEF SameHookKind
<1>8. Held(Hooks, HookShares, g) = Held(Hooks, HookShares, f)
  BY <1>3, <1>5, <1>6, <1>7, HeldSwaps
<1>9. Held(Hooks, HookWeaks, g) = Held(Hooks, HookWeaks, f)
  BY <1>3, <1>5, <1>6, <1>7, HeldSwaps
<1>10. HookUsers(g, K) = HookUsers(f, K) /\ HookWatchers(g) = HookWatchers(f)
  BY <1>8, <1>9 DEF HookUsers, HookWatchers
<1>11. QED
  BY <1>2, <1>5, <1>10 DEF KeptHooks

LEMMA ShareIsNoWatcher ==
  ASSUME NEW f, NEW g, NEW v \in HookShares, NEW x, Changes(HookVars, f, g, v, x)
  PROVE  Held(Hooks, HookWeaks, g) = Held(Hooks, HookWeaks, f)
<1>1. KindOf(HookWeaks, HookVars) /\ v \notin HookWeaks
  BY KindsOfHooks
<1>2. QED
  BY <1>1, HeldChanges

\* A pointer goes under way, or comes back from there.
LEMMA ResetKeeps ==
  ASSUME NEW p, NEW f, NEW K, KeptHooks(p, f, K), NEW v \in HookShares, NEW h \in Hooks, f[v] = h,
         NEW g \in [HookVars -> HookNames], Changes(HookVars, f, g, v, Nil)
  PROVE  KeptHooks(p, g, Plus(K, h))
<1>1. f \in [HookVars -> HookNames] /\ K \in [Hooks -> Nat]
  BY DEF KeptHooks
<1>2. v \in HookVars /\ v \notin HookWeaks /\ Nil \in HookNames
  BY KindsOfHooks DEF HookVars, HookNames
<1>3. Changes(HookVars, f, g, v, Nil) /\ g \in [HookVars -> HookNames]
  OBVIOUS
<1>4. KindOf(HookShares, HookVars) /\ KindOf(HookWeaks, HookVars)
  BY KindsOfHooks
<1>5. Held(Hooks, HookWeaks, g) = Held(Hooks, HookWeaks, f)
  BY <1>3, ShareIsNoWatcher
<1>6. PICK H : H = Held(Hooks, HookShares, f)
  OBVIOUS
<1>7. H \in [Hooks -> Nat]
  BY <1>6, HeldHooks
<1>8. Held(Hooks, HookShares, g) = Minus(H, h)
  <2>1. Held(Hooks, HookShares, g) = Minus(Plus(Held(Hooks, HookShares, f), Nil), f[v])
    BY <1>3, <1>4, HeldPlusMinus
  <2>2. Plus(H, Nil) = H
    BY <1>7, NothingChanges, HooksAside
  <2>3. QED
    BY <1>6, <2>1, <2>2
<1>9. HookUsers(g, Plus(K, h)) = HookUsers(f, K)
  <2>1. Total(Minus(H, h), Plus(K, h)) = Total(H, K)
    BY <1>1, <1>7, TotalChanges
  <2>2. QED
    BY <1>6, <1>8, <2>1 DEF HookUsers
<1>10. Plus(K, h) \in [Hooks -> Nat]
  BY <1>1 DEF Plus
<1>11. QED
  BY <1>3, <1>5, <1>9, <1>10 DEF KeptHooks, HookWatchers

LEMMA SetKeeps ==
  ASSUME NEW p, NEW f, NEW K, KeptHooks(p, f, K), NEW v \in HookShares, NEW h \in Hooks, f[v] = Nil,
         K[h] > 0, NEW g \in [HookVars -> HookNames], Changes(HookVars, f, g, v, h)
  PROVE  KeptHooks(p, g, Minus(K, h))
<1>1. f \in [HookVars -> HookNames] /\ K \in [Hooks -> Nat]
  BY DEF KeptHooks
<1>2. v \in HookVars /\ v \notin HookWeaks /\ h \in HookNames
  BY KindsOfHooks DEF HookVars, HookNames
<1>3. Changes(HookVars, f, g, v, h) /\ g \in [HookVars -> HookNames]
  OBVIOUS
<1>4. KindOf(HookShares, HookVars) /\ KindOf(HookWeaks, HookVars)
  BY KindsOfHooks
<1>5. Held(Hooks, HookWeaks, g) = Held(Hooks, HookWeaks, f)
  BY <1>3, ShareIsNoWatcher
<1>6. PICK H : H = Held(Hooks, HookShares, f)
  OBVIOUS
<1>7. H \in [Hooks -> Nat] /\ Plus(H, h) \in [Hooks -> Nat]
  <2>1. H \in [Hooks -> Nat]
    BY <1>6, HeldHooks
  <2>2. QED
    BY <2>1 DEF Plus
<1>8. Held(Hooks, HookShares, g) = Plus(H, h)
  <2>1. Held(Hooks, HookShares, g) = Minus(Plus(Held(Hooks, HookShares, f), h), f[v])
    BY <1>3, <1>4, HeldPlusMinus
  <2>2. Minus(Plus(H, h), Nil) = Plus(H, h)
    BY <1>7, NothingChanges, HooksAside
  <2>3. QED
    BY <1>6, <2>1, <2>2
<1>9. HookUsers(g, Minus(K, h)) = HookUsers(f, K)
  <2>1. Total(Plus(H, h), Minus(K, h)) = Total(H, K)
    BY <1>1, <1>7, TotalChanges
  <2>2. QED
    BY <1>6, <1>8, <2>1 DEF HookUsers
<1>10. Minus(K, h) \in [Hooks -> Nat]
  BY <1>1 DEF Minus
<1>11. QED
  BY <1>3, <1>5, <1>9, <1>10 DEF KeptHooks, HookWatchers

\* An object that no pointer names has one user now.
LEMMA HookStartedKeeps ==
  ASSUME NEW p, NEW f, NEW K, KeptHooks(p, f, K), NEW v \in HookShares, NEW h \in Hooks, f[v] = NoHook,
         K[h] = 0, \A u \in HookVars : f[u] # h, NEW g \in [HookVars -> HookNames], Changes(HookVars, f, g, v, h),
         NEW q, q[1] = [p[1] EXCEPT ![h] = [use |-> 1, weak |-> 1]],
         q[2] = [p[2] EXCEPT ![h] = [phase |-> "alive", destructs |-> 0, raised |-> 0]]
  PROVE  KeptHooks(q, g, K)
<1>1. f \in [HookVars -> HookNames] /\ K \in [Hooks -> Nat]
  BY DEF KeptHooks
<1>2. v \in HookVars /\ v \notin HookWeaks /\ h \in HookNames
  BY KindsOfHooks DEF HookVars, HookNames
<1>3. Changes(HookVars, f, g, v, h) /\ g \in [HookVars -> HookNames]
  OBVIOUS
<1>4. KindOf(HookShares, HookVars) /\ KindOf(HookWeaks, HookVars)
  BY KindsOfHooks
<1>5. Held(Hooks, HookWeaks, g) = Held(Hooks, HookWeaks, f)
  BY <1>3, ShareIsNoWatcher
<1>6. PICK H, U, W : H = Held(Hooks, HookShares, f) /\ U = Total(H, K) /\ W = HookWatchers(f)
  OBVIOUS
<1>7. H \in [Hooks -> Nat] /\ Plus(H, h) \in [Hooks -> Nat]
  <2>1. H \in [Hooks -> Nat]
    BY <1>6, HeldHooks
  <2>2. QED
    BY <2>1 DEF Plus
<1>8. Held(Hooks, HookShares, g) = Plus(H, h)
  <2>1. Held(Hooks, HookShares, g) = Minus(Plus(Held(Hooks, HookShares, f), h), f[v])
    BY <1>3, <1>4, HeldPlusMinus
  <2>2. Minus(Plus(H, h), NoHook) = Plus(H, h)
    BY <1>7, NothingChanges, HooksAside
  <2>3. QED
    BY <1>6, <2>1, <2>2
<1>9. HookUsers(g, K) = Plus(U, h)
  <2>1. Total(Plus(H, h), K) = Plus(Total(H, K), h)
    BY <1>1, <1>7, TotalChanges
  <2>2. QED
    BY <1>6, <1>8, <2>1 DEF HookUsers
<1>10. HooksBalanced(p, U, W)
  BY <1>6 DEF KeptHooks, HookUsers
<1>11. PICK T : T = Plus(U, h)
  OBVIOUS
<1>12. U \in [Hooks -> Nat] /\ W \in [Hooks -> Nat]
  BY <1>10 DEF HooksBalanced
<1>13. U[h] = 0 /\ W[h] = 0
  <2>1. (\A u \in HookShares : f[u] # h) /\ (\A u \in HookWeaks : f[u] # h)
    BY DEF HookVars
  <2>2. Held(Hooks, HookShares, f)[h] = 0
    BY <2>1, KindsOfHooks, HeldNone
  <2>3. Held(Hooks, HookWeaks, f)[h] = 0
    BY <2>1, KindsOfHooks, HeldNone
  <2>4. QED
    BY <1>6, <2>2, <2>3 DEF Total, HookWatchers
<1>14. T \in [Hooks -> Nat] /\ T[h] = 1 /\ \A x \in Hooks : x # h => T[x] = U[x] /\ W[x] = W[x]
  BY <1>11, <1>12, <1>13 DEF Plus
<1>15. PICK e, t : e = [use |-> 1, weak |-> 1] /\ t = [phase |-> "alive", destructs |-> 0, raised |-> 0]
  OBVIOUS
<1>16. HooksBalanced(q, T, W)
  <2>1. HookLaw(e, t, T[h], W[h])
    BY <1>13, <1>14, <1>15 DEF HookLaw, HookCount, HookLife, Phase
  <2>2. OneEntry(p, q, h, e, t) /\ OnlyAt(T, U, h) /\ OnlyAt(W, W, h)
    BY <1>12, <1>14, <1>15 DEF OneEntry, OnlyAt
  <2>3. QED
    BY <1>10, <2>1, <2>2, BalancedAt
<1>17. HookWatchers(g) = W /\ HookUsers(g, K) = T
  BY <1>5, <1>6, <1>9, <1>11 DEF HookWatchers
<1>18. QED
  BY <1>1, <1>3, <1>16, <1>17 DEF KeptHooks

\* The use count of an object whose memory is in use is raised, from zero if it
\* has no user.
HookRaised(p, q, h, n) ==
  /\ n = (IF p[1][h].use = 0 THEN 1 ELSE 0)
  /\ q[1] = [p[1] EXCEPT ![h].use = @ + 1] /\ q[2] = [p[2] EXCEPT ![h].raised = @ + n]

LEMMA HookRaisedKeeps ==
  ASSUME NEW p, NEW f, NEW K, KeptHooks(p, f, K), NEW v \in HookShares, NEW h \in Hooks, f[v] = NoHook,
         HookInUse(p, h), NEW g \in [HookVars -> HookNames], Changes(HookVars, f, g, v, h),
         NEW n, NEW q, HookRaised(p, q, h, n)
  PROVE  KeptHooks(q, g, K)
<1>0. /\ n = (IF p[1][h].use = 0 THEN 1 ELSE 0)
      /\ q[1] = [p[1] EXCEPT ![h].use = @ + 1] /\ q[2] = [p[2] EXCEPT ![h].raised = @ + n]
  BY DEF HookRaised
<1>1. f \in [HookVars -> HookNames] /\ K \in [Hooks -> Nat]
  BY DEF KeptHooks
<1>2. KindOf(HookShares, HookVars) /\ KindOf(HookWeaks, HookVars) /\ v \in HookVars
  BY KindsOfHooks DEF HookVars
<1>3. Held(Hooks, HookWeaks, g) = Held(Hooks, HookWeaks, f)
  BY ShareIsNoWatcher
<1>4. PICK H, U, W : H = Held(Hooks, HookShares, f) /\ U = Total(H, K) /\ W = HookWatchers(f)
  OBVIOUS
<1>5. H \in [Hooks -> Nat] /\ Plus(H, h) \in [Hooks -> Nat]
  <2>1. H \in [Hooks -> Nat]
    BY <1>4, HeldHooks
  <2>2. QED
    BY <2>1 DEF Plus
<1>6. Held(Hooks, HookShares, g) = Plus(H, h)
  <2>1. Held(Hooks, HookShares, g) = Minus(Plus(Held(Hooks, HookShares, f), h), f[v])
    BY <1>2, HeldPlusMinus
  <2>2. Minus(Plus(H, h), NoHook) = Plus(H, h)
    BY <1>5, NothingChanges, HooksAside
  <2>3. QED
    BY <1>4, <2>1, <2>2
<1>7. HookUsers(g, K) = Plus(U, h)
  <2>1. Total(Plus(H, h), K) = Plus(Total(H, K), h)
    BY <1>1, <1>5, TotalChanges
  <2>2. QED
    BY <1>4, <1>6, <2>1 DEF HookUsers
<1>8. HooksBalanced(p, U, W)
  BY <1>4 DEF KeptHooks, HookUsers
<1>9. PICK T, a, s : T = Plus(U, h) /\ a = p[1] /\ s = p[2]
  OBVIOUS
<1>10. /\ a \in HookCounts /\ s \in HookLives /\ U \in [Hooks -> Nat] /\ W \in [Hooks -> Nat]
       /\ HookLaw(a[h], s[h], U[h], W[h]) /\ s[h].phase # "out"
  BY <1>8, <1>9 DEF HooksBalanced, HookInUse
<1>11. T \in [Hooks -> Nat] /\ T[h] = U[h] + 1 /\ \A x \in Hooks : x # h => T[x] = U[x] /\ W[x] = W[x]
  BY <1>9, <1>10 DEF Plus
<1>12. a[h].use = U[h] /\ U[h] \in Nat /\ W[h] \in Nat
  BY <1>10 DEF HookLaw
<1>13. PICK e, t : e = [a[h] EXCEPT !.use = @ + 1] /\ t = IF U[h] = 0 THEN [s[h] EXCEPT !.raised = @ + 1] ELSE s[h]
  OBVIOUS
<1>14. HookLaw(e, t, T[h], W[h])
  <2>1. PICK c, l, u, w : c = a[h] /\ l = s[h] /\ u = U[h] /\ w = W[h]
    OBVIOUS
  <2>2. u \in Nat /\ w \in Nat /\ HookLaw(c, l, u, w) /\ l.phase # "out"
    BY <1>10, <1>12, <2>1
  <2>3. CASE u = 0
    <3>1. HookLaw([c EXCEPT !.use = @ + 1], [l EXCEPT !.raised = @ + 1], u + 1, w)
      BY <2>2, <2>3, RaisedUser
    <3>2. t = [l EXCEPT !.raised = @ + 1]
      BY <1>13, <2>1, <2>3
    <3>3. QED
      BY <1>11, <1>13, <2>1, <3>1, <3>2
  <2>4. CASE u > 0
    <3>1. HookLaw([c EXCEPT !.use = @ + 1], l, u + 1, w)
      BY <2>2, <2>4, OneMoreUser
    <3>2. t = l
      BY <1>13, <2>1, <2>4
    <3>3. QED
      BY <1>11, <1>13, <2>1, <3>1, <3>2
  <2>5. QED
    BY <2>2, <2>3, <2>4
<1>15. q[1] = [a EXCEPT ![h] = e]
  BY <1>0, <1>9, <1>10, <1>13 DEF HookCounts
<1>16. q[2] = [s EXCEPT ![h] = t]
  <2>1. q[2] = [s EXCEPT ![h] = [s[h] EXCEPT !.raised = @ + n]]
    BY <1>0, <1>9, <1>10 DEF HookLives
  <2>2. s[h] \in HookLife
    BY <1>10 DEF HookLives
  <2>3. CASE U[h] = 0
    <3>1. n = 1
      BY <1>0, <1>9, <1>12, <2>3
    <3>2. QED
      BY <1>13, <2>1, <2>3, <3>1
  <2>4. CASE U[h] # 0
    <3>1. n = 0
      BY <1>0, <1>9, <1>12, <2>4
    <3>2. [s[h] EXCEPT !.raised = @ + n] = s[h]
      BY <2>2, <3>1 DEF HookLife
    <3>3. QED
      BY <1>13, <2>1, <2>4, <3>2
  <2>5. QED
    BY <2>3, <2>4
<1>17. HooksBalanced(q, T, W)
  <2>1. OneEntry(p, q, h, e, t) /\ OnlyAt(T, U, h) /\ OnlyAt(W, W, h)
    BY <1>9, <1>10, <1>11, <1>15, <1>16 DEF OneEntry, OnlyAt
  <2>2. QED
    BY <1>8, <1>14, <2>1, BalancedAt
<1>18. HookWatchers(g) = W /\ HookUsers(g, K) = T
  BY <1>3, <1>4, <1>7, <1>9 DEF HookWatchers
<1>19. QED
  BY <1>1, <1>17, <1>18 DEF KeptHooks

\* A call of destruct returns, and the weak count that stood for the users
\* goes down.
LEMMA HookDestructedKeeps ==
  ASSUME NEW p, NEW f, NEW K, KeptHooks(p, f, K), NEW h \in Hooks, HookInUse(p, h),
         p[2][h].destructs > 0, NEW r, r = [p[2] EXCEPT ![h].destructs = @ - 1],
         NEW q, q[1] = [p[1] EXCEPT ![h].weak = @ - 1],
         q[2] = IF p[1][h].weak = 1 THEN [r EXCEPT ![h].phase = "out"] ELSE r
  PROVE  KeptHooks(q, f, K)
<1>1. PICK U, W : U = HookUsers(f, K) /\ W = HookWatchers(f)
  OBVIOUS
<1>2. HooksBalanced(p, U, W)
  BY <1>1 DEF KeptHooks
<1>3. PICK a, s : a = p[1] /\ s = p[2]
  OBVIOUS
<1>4. /\ a \in HookCounts /\ s \in HookLives /\ U \in [Hooks -> Nat] /\ W \in [Hooks -> Nat]
      /\ HookLaw(a[h], s[h], U[h], W[h]) /\ s[h].phase # "out" /\ s[h].destructs > 0
  BY <1>2, <1>3 DEF HooksBalanced, HookInUse
<1>5. PICK e, m, t : /\ e = [a[h] EXCEPT !.weak = @ - 1] /\ m = [s[h] EXCEPT !.destructs = @ - 1]
                     /\ t = IF a[h].weak = 1 THEN [m EXCEPT !.phase = "out"] ELSE m
  OBVIOUS
<1>6. s[h] \in HookLife /\ s[h].destructs - 1 \in Nat /\ U[h] \in Nat /\ W[h] \in Nat
  BY <1>4 DEF HookLives, HookLife
<1>7. m \in HookLife /\ m.raised = s[h].raised /\ m.destructs = s[h].destructs - 1 /\ m.phase = s[h].phase
  BY <1>5, <1>6 DEF HookLife
<1>8. /\ t \in HookLife /\ t.raised = s[h].raised /\ t.destructs = s[h].destructs - 1
      /\ t.phase = IF a[h].weak = 1 THEN "out" ELSE s[h].phase
  BY <1>5, <1>7 DEF HookLife
<1>9. HookLaw(e, t, U[h], W[h])
  <2>1. s[h].destructs \in Nat
    BY <1>6 DEF HookLife
  <2>2. W[h] + t.destructs = W[h] + s[h].destructs - 1 /\ t.destructs <= s[h].destructs
    BY <1>6, <1>8, <2>1
  <2>3. QED
    BY <1>4, <1>5, <1>6, <1>8, <2>2, OneWeakLess
<1>10. q[1] = [a EXCEPT ![h] = e]
  BY <1>3, <1>4, <1>5 DEF HookCounts
<1>11. q[2] = [s EXCEPT ![h] = t]
  <2>1. r = [s EXCEPT ![h] = m]
    BY <1>3, <1>4, <1>5 DEF HookLives
  <2>2. CASE a[h].weak = 1
    <3>1. q[2] = [r EXCEPT ![h].phase = "out"] /\ t = [m EXCEPT !.phase = "out"]
      BY <1>3, <1>5, <2>2
    <3>2. q[2] = [r EXCEPT ![h] = t]
      BY <1>4, <2>1, <3>1 DEF HookLives
    <3>3. QED
      BY <1>4, <2>1, <3>2 DEF HookLives
  <2>3. CASE a[h].weak # 1
    BY <1>3, <1>5, <2>1, <2>3
  <2>4. QED
    BY <2>2, <2>3
<1>12. HooksBalanced(q, U, W)
  <2>1. OneEntry(p, q, h, e, t) /\ OnlyAt(U, U, h) /\ OnlyAt(W, W, h)
    BY <1>3, <1>4, <1>10, <1>11 DEF OneEntry, OnlyAt
  <2>2. QED
    BY <1>2, <1>9, <2>1, BalancedAt
<1>13. QED
  BY <1>1, <1>12 DEF KeptHooks

\* The invariant of the intrusive pointers.
HooksKept == KeptHooks(<<hook, life>>, held, carried)

LEMMA HooksStart ==
  ASSUME Hooked!Init
  PROVE  HooksKept
<1>1. PICK f, K, p : f = held /\ K = carried /\ p = <<hook, life>>
  OBVIOUS
<1>2. f \in [HookVars -> HookNames] /\ K \in [Hooks -> Nat] /\ \A v \in HookVars : f[v] = NoHook
  BY <1>1 DEF Hooked!Init, HookVars, HookNames
<1>3. \A h \in Hooks : K[h] = 0
  BY <1>1 DEF Hooked!Init
<1>4. PICK H, W : H = Held(Hooks, HookShares, f) /\ W = Held(Hooks, HookWeaks, f)
  OBVIOUS
<1>5. H \in [Hooks -> Nat] /\ W \in [Hooks -> Nat]
  BY <1>4, HeldHooks
<1>6. ASSUME NEW h \in Hooks
      PROVE  H[h] = 0 /\ W[h] = 0
  <2>1. (\A v \in HookShares : f[v] # h) /\ (\A v \in HookWeaks : f[v] # h)
    BY <1>2, HooksAside DEF HookVars
  <2>2. Held(Hooks, HookShares, f)[h] = 0
    BY <2>1, KindsOfHooks, HeldNone
  <2>3. Held(Hooks, HookWeaks, f)[h] = 0
    BY <2>1, KindsOfHooks, HeldNone
  <2>4. QED
    BY <1>4, <2>2, <2>3
<1>7. PICK U : U = Total(H, K)
  OBVIOUS
<1>8. U \in [Hooks -> Nat] /\ \A h \in Hooks : U[h] = 0
  BY <1>2, <1>3, <1>5, <1>6, <1>7 DEF Total
<1>9. /\ p[1] \in HookCounts /\ p[2] \in HookLives
      /\ \A h \in Hooks : /\ p[1][h] = [use |-> 0, weak |-> 0]
                         /\ p[2][h] = [phase |-> "out", destructs |-> 0, raised |-> 0]
  BY <1>1 DEF Hooked!Init, HookCounts, HookCount, HookLives, HookLife
<1>10. HooksBalanced(p, U, W)
  <2>1. HookLaw([use |-> 0, weak |-> 0], [phase |-> "out", destructs |-> 0, raised |-> 0], 0, 0)
    BY DEF HookLaw, HookCount, HookLife, Phase
  <2>2. QED
    BY <1>5, <1>6, <1>8, <1>9, <2>1 DEF HooksBalanced
<1>11. HookUsers(f, K) = U /\ HookWatchers(f) = W
  BY <1>4, <1>7 DEF HookUsers, HookWatchers
<1>12. KeptHooks(p, f, K)
  BY <1>2, <1>10, <1>11 DEF KeptHooks
<1>13. QED
  BY <1>1, <1>12 DEF HooksKept

\* The memory of an object that is named is in use, and a share pointer makes
\* its count one at least.
LEMMA HookNamed ==
  ASSUME Hooked!Sound, NEW w \in HookVars, NEW x, x = held[w]
  PROVE  HookInUse(<<hook, life>>, x)
BY DEF Hooked!Sound, HookInUse, HookVars

LEMMA HookIsThere ==
  ASSUME HooksKept, Hooked!Sound, NEW w \in HookShares, NEW x \in Hooks, held[w] = x
  PROVE  hook[x].use > 0
<1>1. PICK f, K, p : f = held /\ K = carried /\ p = <<hook, life>>
  OBVIOUS
<1>2. PICK H, U, W : /\ H = Held(Hooks, HookShares, f) /\ U = Total(H, K)
                     /\ W = Held(Hooks, HookWeaks, f)
  OBVIOUS
<1>3. HooksBalanced(p, U, W) /\ K \in [Hooks -> Nat] /\ H \in [Hooks -> Nat]
  BY <1>1, <1>2, HeldHooks DEF HooksKept, KeptHooks, HookUsers, HookWatchers
<1>4. Held(Hooks, HookShares, f)[x] > 0
  BY <1>1, KindsOfHooks, HeldNamed
<1>5. H[x] \in Nat /\ K[x] \in Nat /\ H[x] > 0 /\ U[x] = H[x] + K[x]
  BY <1>2, <1>3, <1>4 DEF Total
<1>6. HookInUse(p, x)
  BY <1>1, HookNamed DEF HookVars
<1>7. hook[x].use = U[x]
  BY <1>1, <1>3, <1>6 DEF HooksBalanced, HookLaw, HookInUse
<1>8. QED
  BY <1>5, <1>7

\* Only the two parts of a pair matter.
LEMMA PairsKeep ==
  ASSUME NEW q, NEW f, NEW K, KeptHooks(q, f, K), NEW p, p[1] = q[1], p[2] = q[2]
  PROVE  KeptHooks(p, f, K)
BY DEF KeptHooks, HooksBalanced

LEMMA ShareNameKeeps ==
  ASSUME HooksKept, Hooked!Sound, NEW v \in HookShares, NEW x \in HookNames,
         x \in Hooks => hook[x].use > 0, HookInUse(<<hook, life>>, x),
         held' = [held EXCEPT ![v] = x], NEW q, q = UseLess(UseMore(<<hook, life>>, x), held[v]),
         hook' = q[1], life' = q[2], carried' = carried
  PROVE  HooksKept'
<1>1. PICK f, g, K, p, c, s : f = held /\ g = held' /\ K = carried /\ p = <<hook, life>> /\ c = hook' /\ s = life'
  OBVIOUS
<1>2. KeptHooks(p, f, K) /\ (x \in Hooks => p[1][x].use > 0)
  BY <1>1 DEF HooksKept
<1>3. g \in [HookVars -> HookNames] /\ Changes(HookVars, f, g, v, x)
  <2>1. f \in [HookVars -> HookNames] /\ v \in HookVars /\ g = [f EXCEPT ![v] = x]
    BY <1>1, <1>2 DEF KeptHooks, HookVars
  <2>2. QED
    BY <2>1 DEF Changes
<1>4. KeptHooks(UseLess(UseMore(p, x), f[v]), g, K)
  <2>1. HookInUse(p, x) /\ HookInUse(p, f[v])
    BY <1>1, HookNamed DEF HookVars
  <2>2. QED
    BY <1>2, <1>3, <2>1, ShareRenamedKeeps
<1>5. c = q[1] /\ s = q[2] /\ q = UseLess(UseMore(p, x), f[v])
  BY <1>1
<1>6. KeptHooks(q, g, K)
  BY <1>4, <1>5
<1>7. PICK r : r = <<c, s>>
  OBVIOUS
<1>8. r[1] = q[1] /\ r[2] = q[2]
  BY <1>5, <1>7
<1>9. KeptHooks(r, g, K)
  BY <1>6, <1>8, PairsKeep
<1>10. carried' = K
  BY <1>1
<1>11. QED
  BY <1>1, <1>7, <1>9, <1>10 DEF HooksKept

LEMMA WeakNameKeeps ==
  ASSUME HooksKept, Hooked!Sound, NEW v \in HookWeaks, NEW x \in HookNames, HookInUse(<<hook, life>>, x),
         held' = [held EXCEPT ![v] = x], NEW q, q = WeakLess(WeakMore(<<hook, life>>, x), held[v]),
         hook' = q[1], life' = q[2], carried' = carried
  PROVE  HooksKept'
<1>1. PICK f, g, K, p, c, s : f = held /\ g = held' /\ K = carried /\ p = <<hook, life>> /\ c = hook' /\ s = life'
  OBVIOUS
<1>2. KeptHooks(p, f, K)
  BY <1>1 DEF HooksKept
<1>3. g \in [HookVars -> HookNames] /\ Changes(HookVars, f, g, v, x)
  <2>1. f \in [HookVars -> HookNames] /\ v \in HookVars /\ g = [f EXCEPT ![v] = x]
    BY <1>1, <1>2 DEF KeptHooks, HookVars
  <2>2. QED
    BY <2>1 DEF Changes
<1>4. KeptHooks(WeakLess(WeakMore(p, x), f[v]), g, K)
  <2>1. HookInUse(p, x) /\ HookInUse(p, f[v])
    BY <1>1, HookNamed DEF HookVars
  <2>2. QED
    BY <1>2, <1>3, <2>1, WeakRenamedKeeps
<1>5. c = q[1] /\ s = q[2] /\ q = WeakLess(WeakMore(p, x), f[v])
  BY <1>1
<1>6. KeptHooks(q, g, K)
  BY <1>4, <1>5
<1>7. PICK r : r = <<c, s>>
  OBVIOUS
<1>8. r[1] = q[1] /\ r[2] = q[2]
  BY <1>5, <1>7
<1>9. KeptHooks(r, g, K)
  BY <1>6, <1>8, PairsKeep
<1>10. carried' = K
  BY <1>1
<1>11. QED
  BY <1>1, <1>7, <1>9, <1>10 DEF HooksKept

\* What Hooks calls these changes of the pair.
LEMMA MoreIs ==
  ASSUME NEW h, h \in Hooks \/ h = Nil
  PROVE  Hooked!More(h, "use") = UseMore(<<hook, life>>, h) /\ Hooked!More(h, "weak") = WeakMore(<<hook, life>>, h)
BY HooksAside DEF Hooked!More, UseMore, WeakMore

LEMMA LessIs ==
  ASSUME NEW p, NEW h, h \in Hooks \/ h = Nil
  PROVE  Hooked!LessUse(p, h) = UseLess(p, h) /\ Hooked!LessWeak(p, h) = WeakLess(p, h)
BY HooksAside DEF Hooked!LessUse, Hooked!LessWeak, UseLess, WeakLess

\* Neither a null pointer nor one that does not exist changes anything.
LEMMA NothingIs ==
  ASSUME NEW p, NEW h, h = Nil \/ h = NoHook
  PROVE  /\ UseMore(p, h) = p /\ WeakMore(p, h) = p
         /\ UseLess(p, h) = p /\ WeakLess(p, h) = p
BY HooksAside DEF UseMore, WeakMore, UseLess, WeakLess

LEMMA NamesOfHooks ==
  ASSUME HooksKept, NEW v \in HookVars
  PROVE  held[v] \in HookNames /\ (Hooked!Exists(v) => held[v] \in Hooks \/ held[v] = Nil)
<1>1. held[v] \in HookNames
  BY DEF HooksKept, KeptHooks
<1>2. QED
  BY <1>1 DEF HookNames, Hooked!Exists

LEMMA HookExchangeKeeps ==
  ASSUME HooksKept, NEW v \in HookVars, NEW w \in HookVars, v # w, SameHookKind(v, w),
         NEW x \in HookNames, NEW y \in HookNames, Traded(Hooks, held, v, w, x, y),
         held' = [[held EXCEPT ![v] = x] EXCEPT ![w] = y], hook' = hook, life' = life, carried' = carried
  PROVE  HooksKept'
<1>1. PICK f, g, K, p : f = held /\ g = held' /\ K = carried /\ p = <<hook, life>>
  OBVIOUS
<1>2. KeptHooks(p, f, K) /\ Traded(Hooks, f, v, w, x, y) /\ g = [[f EXCEPT ![v] = x] EXCEPT ![w] = y]
  BY <1>1 DEF HooksKept
<1>3. KeptHooks(p, g, K)
  BY <1>2, HooksMovedKeeps
<1>4. p = <<hook', life'>> /\ K = carried'
  BY <1>1
<1>5. QED
  BY <1>1, <1>3, <1>4 DEF HooksKept

\* Names of one share pointer.
LEMMA HookNullKeeps ==
  ASSUME HooksKept, Hooked!Sound, NEW v \in HookVars, Hooked!Null(v)
  PROVE  HooksKept'
<1>1. /\ held[v] = NoHook /\ held' = [held EXCEPT ![v] = Nil]
      /\ hook' = hook /\ life' = life /\ carried' = carried
  BY DEF Hooked!Null, Hooked!Exists
<1>2. PICK q, y : q = <<hook, life>> /\ y = held[v]
  OBVIOUS
<1>3. UseLess(UseMore(q, Nil), y) = q /\ WeakLess(WeakMore(q, Nil), y) = q
  BY <1>1, <1>2, NothingIs
<1>4. q = UseLess(UseMore(<<hook, life>>, Nil), held[v]) /\ q = WeakLess(WeakMore(<<hook, life>>, Nil), held[v])
  BY <1>2, <1>3
<1>5. hook' = q[1] /\ life' = q[2]
  BY <1>1, <1>2
<1>6. Nil \in HookNames /\ Nil \notin Hooks /\ HookInUse(<<hook, life>>, Nil)
  BY HooksAside DEF HookNames, HookInUse
<1>7. CASE v \in HookShares
  BY <1>1, <1>4, <1>5, <1>6, <1>7, ShareNameKeeps
<1>8. CASE v \in HookWeaks
  BY <1>1, <1>4, <1>5, <1>6, <1>8, WeakNameKeeps
<1>9. QED
  BY <1>7, <1>8 DEF HookVars

LEMMA HookDropKeeps ==
  ASSUME HooksKept, Hooked!Sound, NEW s \in HookShares, Hooked!Drop(s)
  PROVE  HooksKept'
<1>1. /\ Hooked!Exists(s) /\ held' = [held EXCEPT ![s] = NoHook] /\ carried' = carried
      /\ Hooked!SetCounts(Hooked!LessUse(<<hook, life>>, held[s]))
  BY DEF Hooked!Drop
<1>2. PICK p, y, q : p = <<hook, life>> /\ y = held[s] /\ q = Hooked!LessUse(p, y)
  OBVIOUS
<1>3. y \in Hooks \/ y = Nil
  BY <1>1, <1>2, NamesOfHooks DEF HookVars
<1>4. q = UseLess(UseMore(p, NoHook), y)
  BY <1>2, <1>3, LessIs, NothingIs
<1>5. q = UseLess(UseMore(<<hook, life>>, NoHook), held[s])
  BY <1>2, <1>4
<1>6. hook' = q[1] /\ life' = q[2]
  BY <1>1, <1>2 DEF Hooked!SetCounts
<1>7. NoHook \in HookNames /\ NoHook \notin Hooks /\ HookInUse(<<hook, life>>, NoHook)
  BY HooksAside DEF HookNames, HookInUse
<1>8. held' = [held EXCEPT ![s] = NoHook] /\ carried' = carried
  BY <1>1
<1>9. QED
  BY <1>5, <1>6, <1>7, <1>8, ShareNameKeeps

\* A share pointer that does not exist yet is made to name x.
LEMMA ShareMadeKeeps ==
  ASSUME HooksKept, Hooked!Sound, NEW s \in HookShares, ~Hooked!Exists(s), NEW x, x \in Hooks \/ x = Nil,
         x \in Hooks => hook[x].use > 0, HookInUse(<<hook, life>>, x),
         held' = [held EXCEPT ![s] = x], Hooked!SetCounts(Hooked!More(x, "use")), carried' = carried
  PROVE  HooksKept'
<1>1. PICK p, y, q : p = <<hook, life>> /\ y = held[s] /\ q = UseMore(p, x)
  OBVIOUS
<1>2. y = NoHook
  BY <1>1 DEF Hooked!Exists
<1>3. q = UseLess(UseMore(p, x), y)
  BY <1>1, <1>2, NothingIs
<1>4. q = UseLess(UseMore(<<hook, life>>, x), held[s])
  BY <1>1, <1>3
<1>5. hook' = q[1] /\ life' = q[2]
  <2>1. Hooked!More(x, "use") = q
    BY <1>1, MoreIs
  <2>2. QED
    BY <2>1 DEF Hooked!SetCounts
<1>6. x \in HookNames
  BY DEF HookNames
<1>7. QED
  BY <1>4, <1>5, <1>6, ShareNameKeeps

LEMMA HookCopyAssignKeeps ==
  ASSUME HooksKept, Hooked!Sound, NEW s \in HookShares, NEW t \in HookShares, Hooked!CopyAssign(s, t)
  PROVE  HooksKept'
<1>1. /\ Hooked!Exists(s) /\ Hooked!Exists(t) /\ held' = [held EXCEPT ![s] = held[t]] /\ carried' = carried
      /\ Hooked!SetCounts(Hooked!LessUse(Hooked!More(held[t], "use"), held[s]))
  BY DEF Hooked!CopyAssign
<1>2. PICK p, x, y, q : /\ p = <<hook, life>> /\ x = held[t] /\ y = held[s]
                        /\ q = UseLess(UseMore(p, x), y)
  OBVIOUS
<1>3. (x \in Hooks \/ x = Nil) /\ (y \in Hooks \/ y = Nil) /\ x \in HookNames
  BY <1>1, <1>2, NamesOfHooks DEF HookVars
<1>4. (x \in Hooks => hook[x].use > 0) /\ HookInUse(<<hook, life>>, x)
  <2>1. t \in HookVars
    BY DEF HookVars
  <2>2. QED
    BY <1>2, <2>1, HookIsThere, HookNamed
<1>5. hook' = q[1] /\ life' = q[2]
  <2>1. Hooked!More(x, "use") = UseMore(p, x)
    BY <1>2, <1>3, MoreIs
  <2>2. Hooked!LessUse(Hooked!More(x, "use"), y) = q
    BY <1>2, <1>3, <2>1, LessIs
  <2>3. QED
    BY <1>1, <1>2, <2>2 DEF Hooked!SetCounts
<1>6. q = UseLess(UseMore(<<hook, life>>, x), held[s])
  BY <1>2
<1>7. held' = [held EXCEPT ![s] = x] /\ carried' = carried
  BY <1>1, <1>2
<1>8. QED
  BY <1>3, <1>4, <1>5, <1>6, <1>7, ShareNameKeeps

LEMMA HookMoveAssignKeeps ==
  ASSUME HooksKept, Hooked!Sound, NEW s \in HookShares, NEW t \in HookShares, Hooked!MoveAssign(s, t)
  PROVE  HooksKept'
<1>1. /\ Hooked!Exists(s) /\ Hooked!Exists(t) /\ carried' = carried
      /\ held' = [held EXCEPT ![t] = Nil, ![s] = held[t]]
      /\ Hooked!SetCounts(IF s = t THEN <<hook, life>> ELSE Hooked!LessUse(<<hook, life>>, held[s]))
  BY DEF Hooked!MoveAssign
<1>2. PICK f, g, K, p, a, b, r : /\ f = held /\ g = held' /\ K = carried /\ p = <<hook, life>>
                                 /\ a = hook' /\ b = life' /\ r = <<a, b>>
  OBVIOUS
<1>3. KeptHooks(p, f, K) /\ f \in [HookVars -> HookNames]
  BY <1>2 DEF HooksKept, KeptHooks
<1>4. g = [f EXCEPT ![t] = Nil, ![s] = f[t]] /\ K = carried'
  BY <1>1, <1>2
<1>5. CASE s = t
  <2>1. g = f
    BY <1>3, <1>4, <1>5
  <2>2. hook' = hook /\ life' = life
    BY <1>1, <1>5 DEF Hooked!SetCounts
  <2>3. QED
    BY <1>1, <1>2, <2>1, <2>2 DEF HooksKept
<1>6. CASE s # t
  <2>1. s \in HookVars /\ t \in HookVars /\ SameHookKind(s, t)
    BY KindsOfHooks DEF HookVars, SameHookKind
  <2>2. PICK y : y = f[s]
    OBVIOUS
  <2>3. y \in Hooks \/ y = Nil
    BY <1>1, <1>2, <2>1, <2>2, NamesOfHooks
  <2>4. PICK q : q = Hooked!LessUse(p, y)
    OBVIOUS
  <2>5. a = q[1] /\ b = q[2]
    BY <1>1, <1>2, <1>6, <2>2, <2>4 DEF Hooked!SetCounts
  <2>6. PICK h : h = [f EXCEPT ![s] = Nil]
    OBVIOUS
  <2>7. Nil \in HookNames /\ Nil \notin Hooks
    BY HooksAside DEF HookNames
  <2>8. h \in [HookVars -> HookNames] /\ Changes(HookVars, f, h, s, Nil)
    BY <1>3, <2>1, <2>6, <2>7 DEF Changes
  <2>9. KeptHooks(UseLess(UseMore(p, Nil), f[s]), h, K)
    <3>1. HookInUse(p, Nil) /\ HookInUse(p, f[s])
      BY <1>2, <2>1, <2>7, HookNamed DEF HookInUse
    <3>2. QED
      BY <1>3, <2>7, <2>8, <3>1, ShareRenamedKeeps
  <2>10. UseLess(UseMore(p, Nil), f[s]) = q
    BY <2>2, <2>3, <2>4, NothingIs, LessIs
  <2>11. KeptHooks(q, h, K)
    BY <2>9, <2>10
  <2>12. PICK x \in HookNames : x = f[t]
    BY <1>3, <2>1
  <2>13. g = [[h EXCEPT ![s] = x] EXCEPT ![t] = Nil]
    BY <1>3, <1>4, <1>6, <2>6, <2>12
  <2>14. h[s] = Nil /\ h[t] = x
    BY <1>3, <1>6, <2>1, <2>6, <2>12
  <2>15. Traded(Hooks, h, s, t, x, Nil)
    BY <2>7, <2>14 DEF Traded, Is
  <2>16. KeptHooks(q, g, K)
    BY <1>6, <2>1, <2>7, <2>11, <2>12, <2>13, <2>15, HooksMovedKeeps
  <2>17. r[1] = q[1] /\ r[2] = q[2]
    BY <1>2, <2>5
  <2>18. KeptHooks(r, g, K)
    BY <2>16, <2>17, PairsKeep
  <2>19. QED
    BY <1>2, <1>4, <2>18 DEF HooksKept
<1>7. QED
  BY <1>5, <1>6

LEMMA HookMoveKeeps ==
  ASSUME HooksKept, Hooked!Sound, NEW v \in HookVars, NEW w \in HookVars, SameHookKind(v, w), Hooked!Move(v, w)
  PROVE  HooksKept'
<1>1. /\ ~Hooked!Exists(v) /\ Hooked!Exists(w) /\ held' = [held EXCEPT ![v] = held[w], ![w] = Nil]
      /\ hook' = hook /\ life' = life /\ carried' = carried
  BY DEF Hooked!Move
<1>2. PICK x : x = held[w]
  OBVIOUS
<1>3. v # w /\ x \in HookNames /\ Nil \in HookNames
  BY <1>1, <1>2, NamesOfHooks DEF HookNames
<1>4. Traded(Hooks, held, v, w, x, Nil)
  BY <1>1, <1>2, HooksAside DEF Traded, Is, Hooked!Exists
<1>5. held' = [[held EXCEPT ![v] = x] EXCEPT ![w] = Nil]
  BY <1>1, <1>2
<1>6. hook' = hook /\ life' = life /\ carried' = carried
  BY <1>1
<1>7. QED
  BY <1>3, <1>4, <1>5, <1>6, HookExchangeKeeps

LEMMA HookSwapKeeps ==
  ASSUME HooksKept, Hooked!Sound, NEW v \in HookVars, NEW w \in HookVars, SameHookKind(v, w), Hooked!Swap(v, w)
  PROVE  HooksKept'
<1>1. /\ held' = [held EXCEPT ![v] = held[w], ![w] = held[v]]
      /\ hook' = hook /\ life' = life /\ carried' = carried
  BY DEF Hooked!Swap
<1>2. CASE v = w
  <2>1. held' = held
    BY <1>1, <1>2 DEF HooksKept, KeptHooks
  <2>2. QED
    BY <1>1, <2>1 DEF HooksKept
<1>3. CASE v # w
  <2>1. PICK x, y : x = held[w] /\ y = held[v]
    OBVIOUS
  <2>2. x \in HookNames /\ y \in HookNames
    BY <2>1, NamesOfHooks
  <2>3. Traded(Hooks, held, v, w, x, y)
    BY <2>1 DEF Traded, Is
  <2>4. held' = [[held EXCEPT ![v] = x] EXCEPT ![w] = y]
    BY <1>1, <2>1
  <2>5. hook' = hook /\ life' = life /\ carried' = carried
    BY <1>1
  <2>6. QED
    BY <1>3, <2>2, <2>3, <2>4, <2>5, HookExchangeKeeps
<1>4. QED
  BY <1>2, <1>3

LEMMA HookConstructKeeps ==
  ASSUME HooksKept, Hooked!Sound, NEW s \in HookShares, Hooked!Construct(s)
  PROVE  HooksKept'
<1>1. PICK h \in Hooks :
        /\ life[h].phase = "out" /\ held' = [held EXCEPT ![s] = h]
        /\ hook' = [hook EXCEPT ![h] = [use |-> 1, weak |-> 1]]
        /\ life' = [life EXCEPT ![h] = [phase |-> "alive", destructs |-> 0, raised |-> 0]]
        /\ carried' = carried /\ held[s] = NoHook
  BY DEF Hooked!Construct, Hooked!Exists
<1>2. PICK f, g, K, p, q : /\ f = held /\ g = held' /\ K = carried /\ p = <<hook, life>>
                           /\ q = <<hook', life'>>
  OBVIOUS
<1>3. KeptHooks(p, f, K) /\ f \in [HookVars -> HookNames]
  BY <1>2 DEF HooksKept, KeptHooks
<1>4. g \in [HookVars -> HookNames] /\ Changes(HookVars, f, g, s, h)
  <2>1. g = [f EXCEPT ![s] = h] /\ s \in HookVars /\ h \in HookNames
    BY <1>1, <1>2 DEF HookVars, HookNames
  <2>2. QED
    BY <1>3, <2>1 DEF Changes
<1>5. /\ q[1] = [p[1] EXCEPT ![h] = [use |-> 1, weak |-> 1]]
      /\ q[2] = [p[2] EXCEPT ![h] = [phase |-> "alive", destructs |-> 0, raised |-> 0]]
  BY <1>1, <1>2
<1>6. f[s] = NoHook /\ K[h] = 0 /\ \A u \in HookVars : f[u] # h
  BY <1>1, <1>2 DEF Hooked!Sound, HookVars
<1>7. KeptHooks(q, g, K)
  BY <1>3, <1>4, <1>5, <1>6, HookStartedKeeps
<1>8. QED
  BY <1>1, <1>2, <1>7 DEF HooksKept

LEMMA HookResetKeeps ==
  ASSUME HooksKept, Hooked!Sound, NEW s \in HookShares, Hooked!Reset(s)
  PROVE  HooksKept'
<1>1. PICK f, g, K, L, p, h : /\ f = held /\ g = held' /\ K = carried /\ L = carried'
                              /\ p = <<hook, life>> /\ h = held[s]
  OBVIOUS
<1>2. /\ h \in Hooks /\ L = [K EXCEPT ![h] = @ + 1] /\ g = [f EXCEPT ![s] = Nil]
      /\ hook' = hook /\ life' = life
  BY <1>1, NamesOfHooks DEF Hooked!Reset, HookVars
<1>3. KeptHooks(p, f, K) /\ f \in [HookVars -> HookNames] /\ K \in [Hooks -> Nat] /\ f[s] = h
  BY <1>1 DEF HooksKept, KeptHooks
<1>4. g \in [HookVars -> HookNames] /\ Changes(HookVars, f, g, s, Nil)
  BY <1>2, <1>3 DEF Changes, HookVars, HookNames
<1>5. L = Plus(K, h)
  BY <1>2, <1>3 DEF Plus
<1>6. KeptHooks(p, g, Plus(K, h))
  BY <1>2, <1>3, <1>4, ResetKeeps
<1>7. QED
  BY <1>1, <1>2, <1>5, <1>6 DEF HooksKept

LEMMA HookSetKeeps ==
  ASSUME HooksKept, Hooked!Sound, NEW s \in HookShares, Hooked!Set(s)
  PROVE  HooksKept'
<1>1. PICK f, g, K, L, p : f = held /\ g = held' /\ K = carried /\ L = carried' /\ p = <<hook, life>>
  OBVIOUS
<1>2. PICK h \in Hooks :
        /\ K[h] > 0 /\ g = [f EXCEPT ![s] = h] /\ L = [K EXCEPT ![h] = @ - 1]
        /\ f[s] = Nil /\ hook' = hook /\ life' = life
  BY <1>1 DEF Hooked!Set
<1>3. KeptHooks(p, f, K) /\ f \in [HookVars -> HookNames] /\ K \in [Hooks -> Nat]
  BY <1>1 DEF HooksKept, KeptHooks
<1>4. g \in [HookVars -> HookNames] /\ Changes(HookVars, f, g, s, h)
  BY <1>2, <1>3 DEF Changes, HookVars, HookNames
<1>5. L = Minus(K, h)
  BY <1>2, <1>3 DEF Minus
<1>6. KeptHooks(p, g, Minus(K, h))
  BY <1>2, <1>3, <1>4, SetKeeps
<1>7. QED
  BY <1>1, <1>2, <1>5, <1>6 DEF HooksKept

LEMMA HookThisKeeps ==
  ASSUME HooksKept, Hooked!Sound, NEW s \in HookShares, Hooked!SharePointerThis(s)
  PROVE  HooksKept'
<1>1. PICK h \in Hooks :
        /\ life[h].phase # "out" /\ held' = [held EXCEPT ![s] = h]
        /\ hook' = [hook EXCEPT ![h].use = @ + 1]
        /\ \E n : n = (IF hook[h].use = 0 THEN 1 ELSE 0) /\ life' = [life EXCEPT ![h].raised = @ + n]
        /\ carried' = carried /\ held[s] = NoHook
  BY DEF Hooked!SharePointerThis, Hooked!Exists
<1>2. PICK f, g, K, p, q : /\ f = held /\ g = held' /\ K = carried /\ p = <<hook, life>>
                           /\ q = <<hook', life'>>
  OBVIOUS
<1>3. KeptHooks(p, f, K) /\ f \in [HookVars -> HookNames]
  BY <1>2 DEF HooksKept, KeptHooks
<1>4. g \in [HookVars -> HookNames] /\ Changes(HookVars, f, g, s, h)
  <2>1. g = [f EXCEPT ![s] = h] /\ s \in HookVars /\ h \in HookNames
    BY <1>1, <1>2 DEF HookVars, HookNames
  <2>2. QED
    BY <1>3, <2>1 DEF Changes
<1>5. PICK n : n = (IF hook[h].use = 0 THEN 1 ELSE 0) /\ life' = [life EXCEPT ![h].raised = @ + n]
  BY <1>1
<1>6. /\ q[1] = [p[1] EXCEPT ![h].use = @ + 1] /\ q[2] = [p[2] EXCEPT ![h].raised = @ + n]
      /\ n = (IF p[1][h].use = 0 THEN 1 ELSE 0)
  <2>1. p[1] = hook /\ p[2] = life /\ q[1] = hook' /\ q[2] = life'
    BY <1>2
  <2>2. QED
    BY <1>1, <1>5, <2>1
<1>7. f[s] = NoHook /\ HookInUse(p, h) /\ HookRaised(p, q, h, n)
  BY <1>1, <1>2, <1>6 DEF HookInUse, HookRaised
<1>8. KeptHooks(q, g, K)
  BY <1>3, <1>4, <1>7, HookRaisedKeeps
<1>9. QED
  BY <1>1, <1>2, <1>8 DEF HooksKept

LEMMA HookEndDestructKeeps ==
  ASSUME HooksKept, Hooked!Sound, NEW h \in Hooks, Hooked!EndDestruct(h)
  PROVE  HooksKept'
<1>1. PICK r : r = [life EXCEPT ![h].destructs = @ - 1]
  OBVIOUS
<1>2. /\ life[h].destructs > 0 /\ held' = held /\ carried' = carried
      /\ Hooked!SetCounts(Hooked!LessWeak(<<hook, r>>, h))
  BY <1>1 DEF Hooked!EndDestruct
<1>3. PICK p, q : p = <<hook, life>> /\ q = Hooked!LessWeak(<<hook, r>>, h)
  OBVIOUS
<1>4. /\ q[1] = [p[1] EXCEPT ![h].weak = @ - 1]
      /\ q[2] = IF p[1][h].weak = 1 THEN [r EXCEPT ![h].phase = "out"] ELSE r
  BY <1>3, HooksAside DEF Hooked!LessWeak
<1>5. r = [p[2] EXCEPT ![h].destructs = @ - 1] /\ p[2][h].destructs > 0
  BY <1>1, <1>2, <1>3
<1>6. HookInUse(p, h)
  <2>1. life[h].destructs # 0
    BY <1>2
  <2>2. QED
    BY <1>3, <2>1 DEF Hooked!Sound, HookInUse
<1>7. PICK f, K : f = held /\ K = carried
  OBVIOUS
<1>8. KeptHooks(p, f, K)
  BY <1>3, <1>7 DEF HooksKept
<1>9. KeptHooks(q, f, K)
  BY <1>4, <1>5, <1>6, <1>8, HookDestructedKeeps
<1>10. PICK n : n = <<hook', life'>>
  OBVIOUS
<1>11. n[1] = q[1] /\ n[2] = q[2]
  BY <1>2, <1>3, <1>10 DEF Hooked!SetCounts
<1>12. KeptHooks(n, f, K)
  BY <1>9, <1>11, PairsKeep
<1>13. QED
  BY <1>2, <1>7, <1>10, <1>12 DEF HooksKept

LEMMA HookCopyKeeps ==
  ASSUME HooksKept, Hooked!Sound, NEW s \in HookShares, NEW t \in HookShares, Hooked!Copy(s, t)
  PROVE  HooksKept'
<1>1. PICK x : x = held[t]
  OBVIOUS
<1>2. /\ ~Hooked!Exists(s) /\ Hooked!Exists(t) /\ held' = [held EXCEPT ![s] = x] /\ carried' = carried
      /\ Hooked!SetCounts(Hooked!More(x, "use"))
  BY <1>1 DEF Hooked!Copy
<1>3. t \in HookVars
  BY DEF HookVars
<1>4. x \in Hooks \/ x = Nil
  BY <1>1, <1>2, <1>3, NamesOfHooks
<1>5. (x \in Hooks => hook[x].use > 0) /\ HookInUse(<<hook, life>>, x)
  BY <1>1, <1>3, HookIsThere, HookNamed
<1>6. QED
  BY <1>2, <1>4, <1>5, ShareMadeKeeps

LEMMA HookLockKeeps ==
  ASSUME HooksKept, Hooked!Sound, NEW s \in HookShares, NEW w \in HookWeaks, Hooked!Lock(s, w)
  PROVE  HooksKept'
<1>1. PICK x : x = IF Hooked!Expire(w) THEN held[w] ELSE Nil
  OBVIOUS
<1>2. /\ ~Hooked!Exists(s) /\ Hooked!Exists(w) /\ held' = [held EXCEPT ![s] = x] /\ carried' = carried
      /\ Hooked!SetCounts(Hooked!More(x, "use"))
  BY <1>1 DEF Hooked!Lock
<1>3. x \in Hooks \/ x = Nil
  BY <1>1, <1>2, NamesOfHooks DEF HookVars
<1>4. x \in Hooks => hook[x].use > 0
  <2>1. x \in Hooks => hook[x].use # 0
    BY <1>1, HooksAside DEF Hooked!Expire
  <2>2. x \in Hooks => hook[x].use \in Nat
    BY DEF HooksKept, KeptHooks, HooksBalanced, HookCounts, HookCount
  <2>3. QED
    BY <2>1, <2>2
<1>5. HookInUse(<<hook, life>>, x)
  <2>1. w \in HookVars
    BY DEF HookVars
  <2>2. CASE Hooked!Expire(w)
    BY <1>1, <2>1, <2>2, HookNamed
  <2>3. CASE ~Hooked!Expire(w)
    BY <1>1, <2>3, HooksAside DEF HookInUse
  <2>4. QED
    BY <2>2, <2>3
<1>6. QED
  BY <1>2, <1>3, <1>4, <1>5, ShareMadeKeeps

\* Names of one weak pointer.
LEMMA HookWatchKeeps ==
  ASSUME HooksKept, Hooked!Sound, NEW w \in HookWeaks, NEW v \in HookVars, Hooked!Watch(w, v)
  PROVE  HooksKept'
<1>1. /\ held[w] = NoHook /\ Hooked!Exists(v) /\ held' = [held EXCEPT ![w] = held[v]] /\ carried' = carried
      /\ Hooked!SetCounts(Hooked!More(held[v], "weak"))
  BY DEF Hooked!Watch, Hooked!Exists
<1>2. PICK p, x, y, q : p = <<hook, life>> /\ x = held[v] /\ y = held[w] /\ q = WeakMore(p, x)
  OBVIOUS
<1>3. (x \in Hooks \/ x = Nil) /\ x \in HookNames
  BY <1>1, <1>2, NamesOfHooks
<1>4. HookInUse(<<hook, life>>, x)
  BY <1>2, HookNamed
<1>5. q = WeakLess(WeakMore(p, x), y)
  BY <1>1, <1>2, NothingIs
<1>6. q = WeakLess(WeakMore(<<hook, life>>, x), held[w])
  BY <1>2, <1>5
<1>7. hook' = q[1] /\ life' = q[2]
  <2>1. Hooked!More(x, "weak") = q
    BY <1>2, <1>3, MoreIs
  <2>2. QED
    BY <1>1, <1>2, <2>1 DEF Hooked!SetCounts
<1>8. held' = [held EXCEPT ![w] = x] /\ carried' = carried
  BY <1>1, <1>2
<1>9. QED
  BY <1>3, <1>4, <1>6, <1>7, <1>8, WeakNameKeeps

LEMMA HookWeakDropKeeps ==
  ASSUME HooksKept, Hooked!Sound, NEW w \in HookWeaks, Hooked!WeakDrop(w)
  PROVE  HooksKept'
<1>1. /\ Hooked!Exists(w) /\ held' = [held EXCEPT ![w] = NoHook] /\ carried' = carried
      /\ Hooked!SetCounts(Hooked!LessWeak(<<hook, life>>, held[w]))
  BY DEF Hooked!WeakDrop
<1>2. PICK p, y, q : p = <<hook, life>> /\ y = held[w] /\ q = Hooked!LessWeak(p, y)
  OBVIOUS
<1>3. y \in Hooks \/ y = Nil
  BY <1>1, <1>2, NamesOfHooks DEF HookVars
<1>4. q = WeakLess(WeakMore(p, NoHook), y)
  BY <1>2, <1>3, LessIs, NothingIs
<1>5. q = WeakLess(WeakMore(<<hook, life>>, NoHook), held[w])
  BY <1>2, <1>4
<1>6. hook' = q[1] /\ life' = q[2]
  BY <1>1, <1>2 DEF Hooked!SetCounts
<1>7. NoHook \in HookNames /\ NoHook \notin Hooks /\ HookInUse(<<hook, life>>, NoHook)
  BY HooksAside DEF HookNames, HookInUse
<1>8. held' = [held EXCEPT ![w] = NoHook] /\ carried' = carried
  BY <1>1
<1>9. QED
  BY <1>5, <1>6, <1>7, <1>8, WeakNameKeeps

LEMMA HookWeakAssignKeeps ==
  ASSUME HooksKept, Hooked!Sound, NEW w \in HookWeaks, NEW v \in HookWeaks, Hooked!WeakAssign(w, v)
  PROVE  HooksKept'
<1>1. /\ Hooked!Exists(w) /\ Hooked!Exists(v) /\ held' = [held EXCEPT ![w] = held[v]] /\ carried' = carried
      /\ Hooked!SetCounts(Hooked!LessWeak(Hooked!More(held[v], "weak"), held[w]))
  BY DEF Hooked!WeakAssign
<1>2. PICK p, x, y, q : /\ p = <<hook, life>> /\ x = held[v] /\ y = held[w]
                        /\ q = WeakLess(WeakMore(p, x), y)
  OBVIOUS
<1>3. (x \in Hooks \/ x = Nil) /\ (y \in Hooks \/ y = Nil) /\ x \in HookNames
  BY <1>1, <1>2, NamesOfHooks DEF HookVars
<1>4. HookInUse(<<hook, life>>, x)
  <2>1. v \in HookVars
    BY DEF HookVars
  <2>2. QED
    BY <1>2, <2>1, HookNamed
<1>5. hook' = q[1] /\ life' = q[2]
  <2>1. Hooked!More(x, "weak") = WeakMore(p, x)
    BY <1>2, <1>3, MoreIs
  <2>2. Hooked!LessWeak(Hooked!More(x, "weak"), y) = q
    BY <1>2, <1>3, <2>1, LessIs
  <2>3. QED
    BY <1>1, <1>2, <2>2 DEF Hooked!SetCounts
<1>6. q = WeakLess(WeakMore(<<hook, life>>, x), held[w])
  BY <1>2
<1>7. held' = [held EXCEPT ![w] = x] /\ carried' = carried
  BY <1>1, <1>2
<1>8. QED
  BY <1>3, <1>4, <1>5, <1>6, <1>7, WeakNameKeeps

LEMMA HookWeakMoveAssignKeeps ==
  ASSUME HooksKept, Hooked!Sound, NEW w \in HookWeaks, NEW v \in HookWeaks, Hooked!WeakMoveAssign(w, v)
  PROVE  HooksKept'
<1>1. /\ Hooked!Exists(w) /\ Hooked!Exists(v) /\ carried' = carried
      /\ held' = [held EXCEPT ![v] = Nil, ![w] = held[v]]
      /\ Hooked!SetCounts(IF w = v THEN <<hook, life>> ELSE Hooked!LessWeak(<<hook, life>>, held[w]))
  BY DEF Hooked!WeakMoveAssign
<1>2. PICK f, g, K, p, a, b, r : /\ f = held /\ g = held' /\ K = carried /\ p = <<hook, life>>
                                 /\ a = hook' /\ b = life' /\ r = <<a, b>>
  OBVIOUS
<1>3. KeptHooks(p, f, K) /\ f \in [HookVars -> HookNames]
  BY <1>2 DEF HooksKept, KeptHooks
<1>4. g = [f EXCEPT ![v] = Nil, ![w] = f[v]] /\ K = carried'
  BY <1>1, <1>2
<1>5. CASE w = v
  <2>1. g = f
    BY <1>3, <1>4, <1>5
  <2>2. hook' = hook /\ life' = life
    BY <1>1, <1>5 DEF Hooked!SetCounts
  <2>3. QED
    BY <1>1, <1>2, <2>1, <2>2 DEF HooksKept
<1>6. CASE w # v
  <2>1. w \in HookVars /\ v \in HookVars /\ SameHookKind(w, v)
    BY KindsOfHooks DEF HookVars, SameHookKind
  <2>2. PICK y : y = f[w]
    OBVIOUS
  <2>3. y \in Hooks \/ y = Nil
    BY <1>1, <1>2, <2>1, <2>2, NamesOfHooks
  <2>4. PICK q : q = Hooked!LessWeak(p, y)
    OBVIOUS
  <2>5. a = q[1] /\ b = q[2]
    BY <1>1, <1>2, <1>6, <2>2, <2>4 DEF Hooked!SetCounts
  <2>6. PICK h : h = [f EXCEPT ![w] = Nil]
    OBVIOUS
  <2>7. Nil \in HookNames /\ Nil \notin Hooks
    BY HooksAside DEF HookNames
  <2>8. h \in [HookVars -> HookNames] /\ Changes(HookVars, f, h, w, Nil)
    BY <1>3, <2>1, <2>6, <2>7 DEF Changes
  <2>9. KeptHooks(WeakLess(WeakMore(p, Nil), f[w]), h, K)
    <3>1. HookInUse(p, Nil) /\ HookInUse(p, f[w])
      BY <1>2, <2>1, <2>7, HookNamed DEF HookInUse
    <3>2. QED
      BY <1>3, <2>7, <2>8, <3>1, WeakRenamedKeeps
  <2>10. WeakLess(WeakMore(p, Nil), f[w]) = q
    BY <2>2, <2>3, <2>4, NothingIs, LessIs
  <2>11. KeptHooks(q, h, K)
    BY <2>9, <2>10
  <2>12. PICK x \in HookNames : x = f[v]
    BY <1>3, <2>1
  <2>13. g = [[h EXCEPT ![w] = x] EXCEPT ![v] = Nil]
    BY <1>3, <1>4, <1>6, <2>6, <2>12
  <2>14. h[w] = Nil /\ h[v] = x
    BY <1>3, <1>6, <2>1, <2>6, <2>12
  <2>15. Traded(Hooks, h, w, v, x, Nil)
    BY <2>7, <2>14 DEF Traded, Is
  <2>16. KeptHooks(q, g, K)
    BY <1>6, <2>1, <2>7, <2>11, <2>12, <2>13, <2>15, HooksMovedKeeps
  <2>17. r[1] = q[1] /\ r[2] = q[2]
    BY <1>2, <2>5
  <2>18. KeptHooks(r, g, K)
    BY <2>16, <2>17, PairsKeep
  <2>19. QED
    BY <1>2, <1>4, <2>18 DEF HooksKept
<1>7. QED
  BY <1>5, <1>6

LEMMA HooksStep ==
  ASSUME HooksKept, Hooked!Next
  PROVE  HooksKept'
<1>0. Hooked!Sound
  BY DEF Hooked!Next
<1>1. ASSUME NEW s \in HookShares,
             \/ Hooked!Null(s) \/ Hooked!Construct(s) \/ Hooked!Drop(s)
             \/ Hooked!Reset(s) \/ Hooked!Set(s) \/ Hooked!SharePointerThis(s)
      PROVE  HooksKept'
  <2>1. s \in HookVars
    BY DEF HookVars
  <2>2. QED
    BY <1>0, <1>1, <2>1, HookNullKeeps, HookConstructKeeps, HookDropKeeps, HookResetKeeps, HookSetKeeps, HookThisKeeps
<1>2. ASSUME NEW s \in HookShares, NEW t \in HookShares, Hooked!Convert(s, t) \/ Hooked!Swap(s, t)
      PROVE  HooksKept'
  <2>1. s \in HookVars /\ t \in HookVars /\ SameHookKind(s, t)
    BY KindsOfHooks DEF HookVars, SameHookKind
  <2>2. CASE Hooked!Swap(s, t)
    BY <1>0, <2>1, <2>2, HookSwapKeeps
  <2>3. CASE Hooked!Move(s, t)
    BY <1>0, <2>1, <2>3, HookMoveKeeps
  <2>4. CASE Hooked!Copy(s, t)
    BY <1>0, <2>4, HookCopyKeeps
  <2>5. CASE Hooked!CopyAssign(s, t)
    BY <1>0, <2>5, HookCopyAssignKeeps
  <2>6. CASE Hooked!MoveAssign(s, t)
    BY <1>0, <2>6, HookMoveAssignKeeps
  <2>7. QED
    BY <1>2, <2>2, <2>3, <2>4, <2>5, <2>6 DEF Hooked!Convert
<1>3. ASSUME NEW w \in HookWeaks, Hooked!Null(w) \/ Hooked!WeakDrop(w)
      PROVE  HooksKept'
  <2>1. w \in HookVars
    BY DEF HookVars
  <2>2. QED
    BY <1>0, <1>3, <2>1, HookNullKeeps, HookWeakDropKeeps
<1>4. ASSUME NEW w \in HookWeaks, NEW v \in HookWeaks,
             \/ Hooked!WeakCopy(w, v) \/ Hooked!WeakMove(w, v) \/ Hooked!WeakAssign(w, v)
             \/ Hooked!WeakMoveAssign(w, v) \/ Hooked!Swap(w, v)
      PROVE  HooksKept'
  <2>1. w \in HookVars /\ v \in HookVars /\ SameHookKind(w, v)
    BY KindsOfHooks DEF HookVars, SameHookKind
  <2>2. CASE Hooked!WeakCopy(w, v)
    BY <1>0, <2>1, <2>2, HookWatchKeeps DEF Hooked!WeakCopy
  <2>3. CASE Hooked!WeakMove(w, v)
    BY <1>0, <2>1, <2>3, HookMoveKeeps DEF Hooked!WeakMove
  <2>4. CASE Hooked!WeakAssign(w, v)
    BY <1>0, <2>4, HookWeakAssignKeeps
  <2>5. CASE Hooked!WeakMoveAssign(w, v)
    BY <1>0, <2>5, HookWeakMoveAssignKeeps
  <2>6. CASE Hooked!Swap(w, v)
    BY <1>0, <2>1, <2>6, HookSwapKeeps
  <2>7. QED
    BY <1>4, <2>2, <2>3, <2>4, <2>5, <2>6
<1>5. ASSUME NEW w \in HookWeaks, NEW s \in HookShares, Hooked!Watch(w, s) \/ Hooked!Lock(s, w)
      PROVE  HooksKept'
  <2>1. s \in HookVars
    BY DEF HookVars
  <2>2. QED
    BY <1>0, <1>5, <2>1, HookWatchKeeps, HookLockKeeps
<1>6. ASSUME NEW h \in Hooks, Hooked!EndDestruct(h)
      PROVE  HooksKept'
  BY <1>0, <1>6, HookEndDestructKeeps
<1>7. QED
  BY <1>1, <1>2, <1>3, <1>4, <1>5, <1>6 DEF Hooked!Next

LEMMA HooksAreRight ==
  ASSUME HooksKept
  PROVE  Hooked!HooksAreCounted
<1>1. PICK p, U, W, H : /\ p = <<hook, life>> /\ H = Held(Hooks, HookShares, held)
                        /\ U = Total(H, carried) /\ W = Held(Hooks, HookWeaks, held)
  OBVIOUS
<1>2. HooksBalanced(p, U, W)
  BY <1>1 DEF HooksKept, KeptHooks, HookUsers, HookWatchers
<1>3. ASSUME NEW h \in Hooks
      PROVE  LET usersOf == Hooked!Cardinality({s \in HookShares : held[s] = h}) + carried[h]
                 watchers == Hooked!Cardinality({w \in HookWeaks : held[w] = h}) + life[h].destructs
             IN /\ life[h].phase # "out" =>
                     /\ hook[h].use = usersOf
                     /\ hook[h].weak + life[h].raised = watchers + (IF usersOf > 0 THEN 1 ELSE 0)
                /\ life[h].raised = 0 =>
                     /\ life[h].destructs <= (IF usersOf > 0 THEN 0 ELSE 1)
                     /\ life[h].phase = IF usersOf > 0 THEN "alive"
                                       ELSE IF watchers > 0 THEN "destructed" ELSE "out"
  <2>1. Hooked!Cardinality({s \in HookShares : held[s] = h}) = H[h]
    BY <1>1, FiniteInHooks DEF Held
  <2>2. Hooked!Cardinality({w \in HookWeaks : held[w] = h}) = W[h]
    BY <1>1, FiniteInHooks DEF Held
  <2>3. U[h] = H[h] + carried[h]
    BY <1>1 DEF Total
  <2>4. HookLaw(hook[h], life[h], U[h], W[h])
    BY <1>1, <1>2 DEF HooksBalanced
  <2>5. QED
    BY <2>1, <2>2, <2>3, <2>4 DEF Phase, HookLaw
<1>4. QED
  BY <1>3 DEF Hooked!HooksAreCounted

-----------------------------------------------------------------------------
(* Messages and the buffers they are cut from (module Messages, as Msg).    *)

\* A view ends inside its buffer; the null view has no bytes.
ViewIsRight(x) ==
  /\ x \in Msg!View
  /\ x.front <= x.rear /\ x.rear <= x.capacity /\ x.array + x.capacity <= BufferSize
  /\ x.of = NoBytes => x.array = 0 /\ x.capacity = 0

\* The pool p has not cut what it will cut next from its buffer.
PoolIsRight(p) ==
  /\ p \in Msg!View
  /\ p.front = 0 /\ p.array = 0 /\ p.capacity = BufferSize /\ p.rear <= BufferSize
  /\ p.of \in ByteBuffers

\* The view x lies before what the pool p will cut next; two views are cut
\* from different bytes or begin at the same one.
Before(x, p) == p.of = x.of => x.array + x.capacity <= p.rear
ApartIn(x, y) ==
  x.of = y.of /\ x.array # y.array =>
    x.array + x.capacity <= y.array \/ y.array + y.capacity <= x.array

\* The bytes b from the front of x to its rear are the sequence u.
Reads(x, b, u) ==
  /\ u \in Seq(Data) /\ Len(u) = x.rear - x.front
  /\ \A i \in 1 .. Len(u) : u[i] = b[x.of][x.array + x.front + i]

ViewFits(x, p, b, u) == ViewIsRight(x) /\ Before(x, p) /\ Reads(x, b, u)

MessagesTyped(m, b, n) ==
  /\ m \in [Messages -> Msg!View \union {NoMessage}]
  /\ b \in [ByteBuffers -> [1 .. BufferSize -> Data]]
  /\ n \in [Messages -> Seq(Data)]

AllFit(m, p, b, n) == \A v \in Messages : m[v] # NoMessage => ViewFits(m[v], p, b, n[v])
AllApart(m) == \A v, w \in Messages : m[v] # NoMessage /\ m[w] # NoMessage => ApartIn(m[v], m[w])

ViewsKept(m, p, b, n) == MessagesTyped(m, b, n) /\ PoolIsRight(p) /\ AllFit(m, p, b, n) /\ AllApart(m)

\* The buffer of each message, and the counts c when the pool cuts from q.
BufferOf(m) == [v \in Messages |-> IF m[v] = NoMessage THEN NoBytes ELSE m[v].of]
UsersRight(m, q, c) ==
  /\ c \in [ByteBuffers -> Nat]
  /\ \A b \in ByteBuffers : c[b] = Held(ByteBuffers, Messages, BufferOf(m))[b] + Is(q, b)

MessagesKept == ViewsKept(message, pool, bytes, unread) /\ UsersRight(message, pool.of, users)

LEMMA MessagesAreFinite == IsFiniteSet(Messages) /\ KindOf(Messages, Messages)
<1>1. Msg!IsFiniteSet(Messages)
  BY MessagesAssumed DEF Msg!MessagesAssumption
<1>2. IsFiniteSet(Messages)
  BY <1>1 DEF Msg!IsFiniteSet, IsFiniteSet
<1>3. QED
  BY <1>2 DEF KindOf

LEMMA NullFits ==
  ASSUME NEW p, PoolIsRight(p), NEW b
  PROVE  Msg!NullView \in Msg!View /\ Msg!NullView # NoMessage /\ ViewFits(Msg!NullView, p, b, <<>>)
<1>1. Msg!NullView \in Msg!View
  BY DEF Msg!NullView, Msg!View
<1>2. Msg!NullView # NoMessage
  BY <1>1, MessagesAssumed DEF Msg!MessagesAssumption
<1>3. ViewIsRight(Msg!NullView)
  BY <1>1, MessagesAssumed DEF ViewIsRight, Msg!NullView, Msg!MessagesAssumption
<1>4. Before(Msg!NullView, p)
  BY MessagesAssumed DEF Before, Msg!NullView, PoolIsRight, Msg!View, Msg!MessagesAssumption
<1>5. Reads(Msg!NullView, b, <<>>)
  BY DEF Reads, Msg!NullView
<1>6. QED
  BY <1>1, <1>2, <1>3, <1>4, <1>5 DEF ViewFits

LEMMA NullApart ==
  ASSUME NEW y, y \in Msg!View
  PROVE  ApartIn(Msg!NullView, y)
BY DEF ApartIn, Msg!NullView, Msg!View

LEMMA ApartBothWays ==
  ASSUME NEW x, NEW y, ApartIn(x, y)
  PROVE  ApartIn(y, x)
BY DEF ApartIn

ApartFrom(x, m, v) == \A w \in Messages : w # v /\ m[w] # NoMessage => ApartIn(x, m[w])

\* The view x and what is unread of it fit where v was, if x is one.
Joins(x, u, v, m, p, b) == x # NoMessage => ViewFits(x, p, b, u) /\ ApartFrom(x, m, v)

\* One message has another view.
LEMMA OneViewKeeps ==
  ASSUME NEW m, NEW p, NEW b, NEW n, ViewsKept(m, p, b, n),
         NEW v \in Messages, NEW x \in Msg!View \union {NoMessage}, NEW u \in Seq(Data),
         Joins(x, u, v, m, p, b),
         NEW k, k = [m EXCEPT ![v] = x], NEW l, l = [n EXCEPT ![v] = u]
  PROVE  ViewsKept(k, p, b, l)
<1>1. /\ m \in [Messages -> Msg!View \union {NoMessage}] /\ n \in [Messages -> Seq(Data)]
      /\ b \in [ByteBuffers -> [1 .. BufferSize -> Data]]
  BY DEF ViewsKept, MessagesTyped
<1>2. /\ k[v] = x /\ l[v] = u
      /\ \A w \in Messages : w # v => k[w] = m[w] /\ l[w] = n[w]
  BY <1>1
<1>3. MessagesTyped(k, b, l)
  BY <1>1 DEF MessagesTyped
<1>4. AllFit(k, p, b, l)
  <2>1. ASSUME NEW w \in Messages, k[w] # NoMessage
        PROVE  ViewFits(k[w], p, b, l[w])
    <3>1. CASE w = v
      BY <1>2, <2>1, <3>1 DEF Joins
    <3>2. CASE w # v
      BY <1>2, <2>1, <3>2 DEF ViewsKept, AllFit
    <3>3. QED
      BY <3>1, <3>2
  <2>2. QED
    BY <2>1 DEF AllFit
<1>5. AllApart(k)
  <2>1. ASSUME NEW w \in Messages, NEW z \in Messages, k[w] # NoMessage, k[z] # NoMessage
        PROVE  ApartIn(k[w], k[z])
    <3>1. CASE w = v /\ z = v
      BY <3>1 DEF ApartIn
    <3>2. CASE w = v /\ z # v
      BY <1>2, <2>1, <3>2 DEF ApartFrom, Joins
    <3>3. CASE w # v /\ z = v
      <4>1. ApartIn(k[z], k[w])
        BY <1>2, <2>1, <3>3 DEF ApartFrom, Joins
      <4>2. QED
        BY <4>1, ApartBothWays
    <3>4. CASE w # v /\ z # v
      BY <1>2, <2>1, <3>4 DEF ViewsKept, AllApart
    <3>5. QED
      BY <3>1, <3>2, <3>3, <3>4
  <2>2. QED
    BY <2>1 DEF AllApart
<1>6. QED
  BY <1>3, <1>4, <1>5 DEF ViewsKept

\* The pool cuts on from the same buffer, or begins one that no message has.
LEMMA PoolMoves ==
  ASSUME NEW m, NEW p, NEW b, NEW n, ViewsKept(m, p, b, n),
         NEW q, PoolIsRight(q),
         (q.of = p.of /\ p.rear <= q.rear) \/ \A v \in Messages : m[v] # NoMessage => m[v].of # q.of
  PROVE  ViewsKept(m, q, b, n)
<1>1. ASSUME NEW v \in Messages, m[v] # NoMessage
      PROVE  ViewFits(m[v], q, b, n[v])
  <2>1. ViewIsRight(m[v]) /\ Before(m[v], p) /\ Reads(m[v], b, n[v])
    BY <1>1 DEF ViewsKept, AllFit, ViewFits
  <2>2. CASE q.of = p.of /\ p.rear <= q.rear
    <3>1. m[v].array \in Nat /\ m[v].capacity \in Nat /\ p.rear \in Nat /\ q.rear \in Nat
      BY <2>1 DEF ViewIsRight, ViewsKept, PoolIsRight, Msg!View
    <3>2. Before(m[v], q)
      BY <2>1, <2>2, <3>1 DEF Before
    <3>3. QED
      BY <2>1, <3>2 DEF ViewFits
  <2>3. CASE m[v].of # q.of
    BY <2>1, <2>3 DEF Before, ViewFits
  <2>4. QED
    BY <1>1, <2>2, <2>3
<1>2. AllFit(m, q, b, n)
  BY <1>1 DEF AllFit
<1>3. QED
  BY <1>2 DEF ViewsKept

-----------------------------------------------------------------------------

\* The counts d are c with one for y more and one for z less.
Balance(d, z, c, y) ==
  d \in [ByteBuffers -> Int] /\ \A b \in ByteBuffers : d[b] + Is(z, b) = c[b] + Is(y, b)

BufferIn(x) == IF x = NoMessage THEN NoBytes ELSE x.of

LEMMA BuffersNamed ==
  ASSUME NEW m, m \in [Messages -> Msg!View \union {NoMessage}], NEW v \in Messages,
         NEW x \in Msg!View \union {NoMessage}, NEW k, k = [m EXCEPT ![v] = x],
         NEW y, y = BufferIn(x)
  PROVE  Changes(Messages, BufferOf(m), BufferOf(k), v, y)
BY DEF BufferIn, Changes, BufferOf

LEMMA BuffersHeld ==
  ASSUME NEW f, NEW g, NEW v \in Messages, NEW y, Changes(Messages, f, g, v, y)
  PROVE  \A b \in ByteBuffers : Held(ByteBuffers, Messages, g)[b] + Is(f[v], b)
                                   = Held(ByteBuffers, Messages, f)[b] + Is(y, b)
<1>1. KindOf(Messages, Messages)
  BY MessagesAreFinite
<1>2. PICK K : K = Messages
  OBVIOUS
<1>3. KindOf(K, K) /\ Changes(K, f, g, v, y) /\ v \in K
  BY <1>1, <1>2
<1>4. \A b \in ByteBuffers : Held(ByteBuffers, K, g)[b] + Is(f[v], b) = Held(ByteBuffers, K, f)[b] + Is(y, b)
  BY <1>3, HeldChanges
<1>5. QED
  BY <1>2, <1>4

\* One message more has the buffer y, and one less that of v.
LEMMA OneUserCounts ==
  ASSUME NEW m, m \in [Messages -> Msg!View \union {NoMessage}], NEW q \in ByteBuffers,
         NEW c, UsersRight(m, q, c), NEW v \in Messages,
         NEW x \in Msg!View \union {NoMessage}, NEW k, k = [m EXCEPT ![v] = x],
         NEW y, y = BufferIn(x), NEW z, z = BufferIn(m[v]), NEW d, Balance(d, z, c, y)
  PROVE  UsersRight(k, q, d)
<1>1. PICK f, g : f = BufferOf(m) /\ g = BufferOf(k)
  OBVIOUS
<1>2. IsFiniteSet(Messages) /\ KindOf(Messages, Messages)
  BY MessagesAreFinite
<1>3. f[v] = z /\ Changes(Messages, f, g, v, y)
  <2>1. Changes(Messages, BufferOf(m), BufferOf(k), v, y)
    BY BuffersNamed
  <2>2. BufferOf(m)[v] = z
    BY DEF BufferOf, BufferIn
  <2>3. QED
    BY <1>1, <2>1, <2>2
<1>4. PICK H, G : H = Held(ByteBuffers, Messages, f) /\ G = Held(ByteBuffers, Messages, g)
  OBVIOUS
<1>5. \A b \in ByteBuffers : G[b] + Is(z, b) = H[b] + Is(y, b)
  <2>1. \A b \in ByteBuffers : Held(ByteBuffers, Messages, g)[b] + Is(f[v], b)
                                 = Held(ByteBuffers, Messages, f)[b] + Is(y, b)
    <3>1. Changes(Messages, f, g, v, y)
      BY <1>3
    <3>2. QED
      BY <3>1, BuffersHeld
  <2>2. QED
    BY <1>3, <1>4, <2>1
<1>6. H \in [ByteBuffers -> Nat] /\ G \in [ByteBuffers -> Nat]
  <2>1. Held(ByteBuffers, Messages, f) \in [ByteBuffers -> Nat]
    BY <1>2, HeldIsCount
  <2>2. Held(ByteBuffers, Messages, g) \in [ByteBuffers -> Nat]
    BY <1>2, HeldIsCount
  <2>3. QED
    BY <1>4, <2>1, <2>2
<1>7. ASSUME NEW b \in ByteBuffers
      PROVE  d[b] = G[b] + Is(q, b) /\ d[b] \in Nat
  <2>1. c[b] = H[b] + Is(q, b)
    BY <1>1, <1>4 DEF UsersRight
  <2>2. PICK i, j, h : i = Is(z, b) /\ j = Is(y, b) /\ h = Is(q, b)
    OBVIOUS
  <2>3. i \in {0, 1} /\ j \in {0, 1} /\ h \in {0, 1}
    BY <2>2 DEF Is
  <2>4. G[b] + i = H[b] + j /\ d[b] + i = c[b] + j /\ c[b] = H[b] + h
    BY <1>5, <2>1, <2>2 DEF Balance
  <2>5. d[b] \in Int /\ G[b] \in Nat /\ H[b] \in Nat
    BY <1>6 DEF Balance
  <2>6. d[b] = G[b] + h
    BY <2>3, <2>4, <2>5
  <2>7. QED
    BY <2>2, <2>3, <2>5, <2>6
<1>8. d \in [ByteBuffers -> Nat]
  BY <1>7 DEF Balance
<1>9. QED
  BY <1>1, <1>4, <1>7, <1>8 DEF UsersRight

\* The pool cuts from r instead of q.
LEMMA PoolCounts ==
  ASSUME NEW m, NEW q \in ByteBuffers, NEW c, UsersRight(m, q, c), NEW r \in ByteBuffers,
         NEW d, Balance(d, q, c, r)
  PROVE  UsersRight(m, r, d)
<1>1. PICK H : H = Held(ByteBuffers, Messages, BufferOf(m))
  OBVIOUS
<1>2. H \in [ByteBuffers -> Nat]
  <2>1. IsFiniteSet(Messages)
    BY MessagesAreFinite
  <2>2. Held(ByteBuffers, Messages, BufferOf(m)) \in [ByteBuffers -> Nat]
    BY <2>1, HeldIsCount
  <2>3. QED
    BY <1>1, <2>2
<1>3. ASSUME NEW b \in ByteBuffers
      PROVE  d[b] = H[b] + Is(r, b) /\ d[b] \in Nat
  <2>1. c[b] = H[b] + Is(q, b)
    BY <1>1 DEF UsersRight
  <2>2. PICK i, j : i = Is(q, b) /\ j = Is(r, b)
    OBVIOUS
  <2>3. i \in {0, 1} /\ j \in {0, 1}
    BY <2>2 DEF Is
  <2>4. d[b] + i = c[b] + j /\ c[b] = H[b] + i
    BY <2>1, <2>2 DEF Balance
  <2>5. d[b] \in Int /\ H[b] \in Nat
    BY <1>2 DEF Balance
  <2>6. QED
    BY <2>2, <2>3, <2>4, <2>5
<1>4. d \in [ByteBuffers -> Nat]
  BY <1>3 DEF Balance
<1>5. QED
  BY <1>1, <1>3, <1>4 DEF UsersRight

\* A buffer that is not counted is that of no message and not the pool's.
LEMMA UncountedIsFree ==
  ASSUME NEW m, NEW q \in ByteBuffers, NEW c, UsersRight(m, q, c), NEW b \in ByteBuffers, c[b] = 0
  PROVE  q # b /\ \A v \in Messages : m[v] # NoMessage => m[v].of # b
<1>1. PICK f : f = BufferOf(m)
  OBVIOUS
<1>2. IsFiniteSet(Messages)
  BY MessagesAreFinite
<1>3. PICK h : h = Held(ByteBuffers, Messages, f)[b]
  OBVIOUS
<1>4. h \in Nat /\ (h = 0 <=> \A v \in Messages : f[v] # b)
  <2>1. Held(ByteBuffers, Messages, f) \in [ByteBuffers -> Nat]
    BY <1>2, HeldIsCount
  <2>2. (\A v \in Messages : f[v] # b) => Held(ByteBuffers, Messages, f)[b] = 0
    BY <1>2, HeldNone
  <2>3. ASSUME NEW v \in Messages, f[v] = b
        PROVE  Held(ByteBuffers, Messages, f)[b] > 0
    BY <1>2, <2>3, HeldNamed
  <2>4. QED
    BY <1>3, <2>1, <2>2, <2>3
<1>5. c[b] = h + Is(q, b)
  BY <1>1, <1>3 DEF UsersRight
<1>6. Is(q, b) = 0 /\ h = 0
  BY <1>4, <1>5 DEF Is
<1>7. q # b
  BY <1>6 DEF Is
<1>8. \A v \in Messages : f[v] # b
  BY <1>4, <1>6
<1>9. QED
  BY <1>1, <1>7, <1>8 DEF BufferOf

LEMMA CountedIs ==
  ASSUME NEW c, c \in [ByteBuffers -> Int], NEW b \in ByteBuffers \union {NoBytes},
         NEW d, d = Msg!Counted(c, b)
  PROVE  d \in [ByteBuffers -> Int] /\ \A a \in ByteBuffers : d[a] = c[a] + Is(b, a)
<1>1. CASE b = NoBytes
  BY <1>1, MessagesAssumed DEF Msg!Counted, Is, Msg!MessagesAssumption
<1>2. CASE b # NoBytes
  BY <1>2 DEF Msg!Counted, Is
<1>3. QED
  BY <1>1, <1>2

LEMMA UncountedIs ==
  ASSUME NEW c, c \in [ByteBuffers -> Int], NEW b \in ByteBuffers \union {NoBytes},
         NEW d, d = Msg!Uncounted(c, b)
  PROVE  d \in [ByteBuffers -> Int] /\ \A a \in ByteBuffers : d[a] = c[a] - Is(b, a)
<1>1. CASE b = NoBytes
  BY <1>1, MessagesAssumed DEF Msg!Uncounted, Is, Msg!MessagesAssumption
<1>2. CASE b # NoBytes
  BY <1>2 DEF Msg!Uncounted, Is
<1>3. QED
  BY <1>1, <1>2

-----------------------------------------------------------------------------

\* What a step leaves: message and what is unread, and users that are right for it.
LEMMA MessageFacts ==
  ASSUME MessagesKept
  PROVE  /\ message \in [Messages -> Msg!View \union {NoMessage}] /\ unread \in [Messages -> Seq(Data)]
         /\ pool \in Msg!View /\ pool.of \in ByteBuffers
         /\ users \in [ByteBuffers -> Nat] /\ users \in [ByteBuffers -> Int]
BY DEF MessagesKept, ViewsKept, MessagesTyped, PoolIsRight, UsersRight

\* What a message that exists has: its view, apart from the others.
LEMMA MessageFits ==
  ASSUME MessagesKept, NEW v \in Messages, message[v] # NoMessage
  PROVE  /\ message[v] \in Msg!View /\ unread[v] \in Seq(Data)
         /\ ViewIsRight(message[v]) /\ Before(message[v], pool) /\ Reads(message[v], bytes, unread[v])
         /\ \A w \in Messages : message[w] # NoMessage => ApartIn(message[v], message[w])
BY DEF MessagesKept, ViewsKept, MessagesTyped, AllFit, AllApart, ViewFits, ViewIsRight

\* A message v gets the view x of the buffer y and what is unread of it.
LEMMA MessageGets ==
  ASSUME MessagesKept, NEW v \in Messages, NEW x \in Msg!View \union {NoMessage}, NEW u \in Seq(Data),
         Joins(x, u, v, message, pool, bytes),
         NEW y, y = BufferIn(x), NEW z, z = BufferIn(message[v]), NEW d, Balance(d, z, users, y),
         NEW k, k = [message EXCEPT ![v] = x], NEW l, l = [unread EXCEPT ![v] = u]
  PROVE  ViewsKept(k, pool, bytes, l) /\ UsersRight(k, pool.of, d)
<1>1. PICK m, p, b, n, c, q : m = message /\ p = pool /\ b = bytes /\ n = unread /\ c = users /\ q = pool.of
  OBVIOUS
<1>2. ViewsKept(m, p, b, n) /\ UsersRight(m, q, c) /\ q \in ByteBuffers
  BY <1>1, MessageFacts DEF MessagesKept
<1>3. m \in [Messages -> Msg!View \union {NoMessage}]
  BY <1>1, MessageFacts
<1>4. ViewsKept(k, p, b, l)
  BY <1>1, <1>2, OneViewKeeps
<1>5. UsersRight(k, q, d)
  BY <1>1, <1>2, <1>3, OneUserCounts
<1>6. QED
  BY <1>1, <1>4, <1>5

LEMMA DropMessageKeeps ==
  ASSUME MessagesKept, NEW v \in Messages, Msg!Drop(v)
  PROVE  MessagesKept'
<1>1. PICK x, y, z, d : x = NoMessage /\ y = BufferIn(x) /\ z = BufferIn(message[v]) /\ d = Msg!Uncounted(users, z)
  OBVIOUS
<1>2. z = message[v].of /\ z \in ByteBuffers \union {NoBytes} /\ y = NoBytes
  BY <1>1, MessageFits DEF Msg!Drop, Msg!Exists, Msg!View, BufferIn
<1>3. d \in [ByteBuffers -> Int] /\ \A b \in ByteBuffers : d[b] = users[b] - Is(z, b)
  BY <1>1, <1>2, MessageFacts, UncountedIs
<1>4. Balance(d, z, users, y)
  BY <1>2, <1>3, MessageFacts, MessagesAssumed DEF Is, Msg!MessagesAssumption, Balance
<1>5. PICK u, k, l : u = <<>> /\ k = [message EXCEPT ![v] = x] /\ l = [unread EXCEPT ![v] = u]
  OBVIOUS
<1>6. u \in Seq(Data) /\ x \in Msg!View \union {NoMessage} /\ Joins(x, u, v, message, pool, bytes)
  BY <1>1, <1>5 DEF Joins
<1>7. ViewsKept(k, pool, bytes, l) /\ UsersRight(k, pool.of, d)
  BY <1>1, <1>4, <1>5, <1>6, MessageGets
<1>8. message' = k /\ unread' = l /\ users' = d /\ pool' = pool /\ bytes' = bytes
  BY <1>1, <1>2, <1>5 DEF Msg!Drop
<1>9. QED
  BY <1>7, <1>8 DEF MessagesKept

\* A message that exists, at v too: its view may go to a message that does not.
LEMMA CopyJoins ==
  ASSUME MessagesKept, NEW v \in Messages, NEW w \in Messages, message[w] # NoMessage,
         NEW x, x = message[w], NEW u, u = unread[w]
  PROVE  /\ x \in Msg!View \union {NoMessage} /\ u \in Seq(Data)
         /\ Joins(x, u, v, message, pool, bytes)
         /\ x # NoMessage /\ BufferIn(x) = x.of /\ x.of \in ByteBuffers \union {NoBytes}
BY MessageFits DEF Joins, ViewFits, ApartFrom, BufferIn, Msg!View

LEMMA CopyMessageKeeps ==
  ASSUME MessagesKept, NEW v \in Messages, NEW w \in Messages, Msg!Copy(v, w)
  PROVE  MessagesKept'
<1>1. PICK x, u, y, z, d : /\ x = message[w] /\ u = unread[w] /\ y = BufferIn(x)
                           /\ z = BufferIn(message[v]) /\ d = Msg!Counted(users, y)
  OBVIOUS
<1>2. /\ x \in Msg!View \union {NoMessage} /\ u \in Seq(Data)
      /\ Joins(x, u, v, message, pool, bytes)
      /\ y = x.of /\ y \in ByteBuffers \union {NoBytes}
  BY <1>1, CopyJoins DEF Msg!Copy, Msg!Exists
<1>3. z = NoBytes
  BY <1>1 DEF BufferIn, Msg!Copy, Msg!Exists
<1>4. d \in [ByteBuffers -> Int] /\ \A b \in ByteBuffers : d[b] = users[b] + Is(y, b)
  BY <1>1, <1>2, MessageFacts, CountedIs
<1>5. Balance(d, z, users, y)
  BY <1>3, <1>4, MessageFacts, MessagesAssumed DEF Is, Msg!MessagesAssumption, Balance
<1>6. PICK k, l : k = [message EXCEPT ![v] = x] /\ l = [unread EXCEPT ![v] = u]
  OBVIOUS
<1>7. ViewsKept(k, pool, bytes, l) /\ UsersRight(k, pool.of, d)
  BY <1>1, <1>2, <1>5, <1>6, MessageGets
<1>8. message' = k /\ unread' = l /\ users' = d /\ pool' = pool /\ bytes' = bytes
  BY <1>1, <1>2, <1>6 DEF Msg!Copy
<1>9. QED
  BY <1>7, <1>8 DEF MessagesKept

LEMMA CopyAssignMessageKeeps ==
  ASSUME MessagesKept, NEW v \in Messages, NEW w \in Messages, Msg!CopyAssign(v, w)
  PROVE  MessagesKept'
<1>1. PICK x, u, y, z, e, d : /\ x = message[w] /\ u = unread[w] /\ y = BufferIn(x)
                              /\ z = BufferIn(message[v])
                              /\ e = Msg!Counted(users, y) /\ d = Msg!Uncounted(e, z)
  OBVIOUS
<1>2. /\ x \in Msg!View \union {NoMessage} /\ u \in Seq(Data)
      /\ Joins(x, u, v, message, pool, bytes)
      /\ y = x.of /\ y \in ByteBuffers \union {NoBytes}
  BY <1>1, CopyJoins DEF Msg!CopyAssign, Msg!Exists
<1>3. z = message[v].of /\ z \in ByteBuffers \union {NoBytes}
  BY <1>1, MessageFits DEF BufferIn, Msg!CopyAssign, Msg!Exists, Msg!View
<1>4. e \in [ByteBuffers -> Int] /\ \A b \in ByteBuffers : e[b] = users[b] + Is(y, b)
  BY <1>1, <1>2, MessageFacts, CountedIs
<1>5. d \in [ByteBuffers -> Int] /\ \A b \in ByteBuffers : d[b] = e[b] - Is(z, b)
  BY <1>1, <1>3, <1>4, UncountedIs
<1>6. Balance(d, z, users, y)
  BY <1>4, <1>5, MessageFacts DEF Is, Balance
<1>7. PICK k, l : k = [message EXCEPT ![v] = x] /\ l = [unread EXCEPT ![v] = u]
  OBVIOUS
<1>8. ViewsKept(k, pool, bytes, l) /\ UsersRight(k, pool.of, d)
  BY <1>1, <1>2, <1>6, <1>7, MessageGets
<1>9. message' = k /\ unread' = l /\ users' = d /\ pool' = pool /\ bytes' = bytes
  BY <1>1, <1>2, <1>3, <1>7 DEF Msg!CopyAssign
<1>10. QED
  BY <1>8, <1>9 DEF MessagesKept

\* In g, v has what w had in f, and w has o.
Moved(g, f, v, w, o) == g = [[f EXCEPT ![v] = f[w]] EXCEPT ![w] = o]

\* One message gets the view of another, which is left with the null view.
LEMMA MessageMoves ==
  ASSUME MessagesKept, NEW v \in Messages, NEW w \in Messages, v # w, message[w] # NoMessage,
         NEW x, x = message[w], NEW u, u = unread[w], NEW z, z = BufferIn(message[v]),
         NEW d, Balance(d, z, users, NoBytes),
         NEW k, Moved(k, message, v, w, Msg!NullView), NEW l, Moved(l, unread, v, w, <<>>)
  PROVE  ViewsKept(k, pool, bytes, l) /\ UsersRight(k, pool.of, d)
<1>1. PICK m, n, y, e : /\ m = [message EXCEPT ![v] = x] /\ n = [unread EXCEPT ![v] = u]
                        /\ y = BufferIn(x) /\ e = [b \in ByteBuffers |-> d[b] + Is(y, b)]
  OBVIOUS
<1>2. /\ x \in Msg!View \union {NoMessage} /\ u \in Seq(Data)
      /\ Joins(x, u, v, message, pool, bytes)
      /\ x # NoMessage /\ y = x.of /\ y \in ByteBuffers \union {NoBytes}
  BY <1>1, CopyJoins
<1>3. Balance(e, z, users, y)
  <2>1. ASSUME NEW b \in ByteBuffers
        PROVE  e[b] \in Int /\ e[b] + Is(z, b) = users[b] + Is(y, b)
    <3>1. Is(NoBytes, b) = 0
      BY MessagesAssumed DEF Is, Msg!MessagesAssumption
    <3>2. d[b] \in Int /\ d[b] + Is(z, b) = users[b] + Is(NoBytes, b)
      BY DEF Balance
    <3>3. users[b] \in Int /\ Is(z, b) \in Int /\ Is(y, b) \in Int
      BY MessageFacts DEF Is
    <3>4. e[b] = d[b] + Is(y, b)
      BY <1>1
    <3>5. PICK i, j, g, h : i = d[b] /\ j = Is(z, b) /\ g = users[b] /\ h = Is(y, b)
      OBVIOUS
    <3>6. i + j = g /\ i \in Int /\ j \in Int /\ g \in Int /\ h \in Int
      BY <3>1, <3>2, <3>3, <3>5
    <3>7. (i + h) + j = g + h /\ i + h \in Int
      BY <3>6
    <3>8. QED
      BY <3>4, <3>5, <3>7
  <2>2. e \in [ByteBuffers -> Int]
    BY <1>1, <2>1
  <2>3. QED
    BY <2>1, <2>2 DEF Balance
<1>4. ViewsKept(m, pool, bytes, n) /\ UsersRight(m, pool.of, e)
  BY <1>1, <1>2, <1>3, MessageGets
<1>5. PICK o, i : o = Msg!NullView /\ i = <<>>
  OBVIOUS
<1>6. m \in [Messages -> Msg!View \union {NoMessage}] /\ m[w] = x
  BY <1>1, <1>2, MessageFacts
<1>7. PoolIsRight(pool) /\ pool.of \in ByteBuffers
  BY MessageFacts DEF MessagesKept, ViewsKept
<1>8. /\ o \in Msg!View \union {NoMessage} /\ i \in Seq(Data)
      /\ Joins(o, i, w, m, pool, bytes)
  <2>1. o \in Msg!View /\ ViewFits(o, pool, bytes, i)
    BY <1>5, <1>7, NullFits
  <2>2. ApartFrom(o, m, w)
    BY <1>5, <1>6, NullApart DEF ApartFrom
  <2>3. QED
    BY <1>5, <2>1, <2>2 DEF Joins
<1>9. PICK j, t : j = BufferIn(o) /\ t = BufferIn(m[w])
  OBVIOUS
<1>10. j = NoBytes /\ t = y
  BY <1>1, <1>5, <1>6, <1>9 DEF BufferIn, Msg!NullView
<1>11. Balance(d, t, e, j)
  <2>1. \A b \in ByteBuffers : d[b] \in Int /\ e[b] = d[b] + Is(y, b)
    BY <1>1 DEF Balance
  <2>2. \A b \in ByteBuffers : Is(j, b) = 0
    BY <1>10, MessagesAssumed DEF Is, Msg!MessagesAssumption
  <2>3. QED
    BY <1>10, <2>1, <2>2 DEF Balance, Is
<1>12. k = [m EXCEPT ![w] = o] /\ l = [n EXCEPT ![w] = i]
  BY <1>1, <1>5 DEF Moved
<1>13. ViewsKept(k, pool, bytes, l)
  BY <1>4, <1>8, <1>12, OneViewKeeps
<1>14. PICK q : q = pool.of
  OBVIOUS
<1>15. q \in ByteBuffers /\ UsersRight(m, q, e)
  BY <1>4, <1>7, <1>14
<1>16. UsersRight(k, q, d)
  BY <1>6, <1>8, <1>9, <1>11, <1>12, <1>15, OneUserCounts
<1>17. QED
  BY <1>13, <1>14, <1>16

LEMMA MoveMessageKeeps ==
  ASSUME MessagesKept, NEW v \in Messages, NEW w \in Messages, Msg!Move(v, w)
  PROVE  MessagesKept'
<1>1. PICK x, u, z, d : x = message[w] /\ u = unread[w] /\ z = BufferIn(message[v]) /\ d = users
  OBVIOUS
<1>2. v # w /\ message[w] # NoMessage /\ z = NoBytes
  BY <1>1 DEF BufferIn, Msg!Move, Msg!Exists
<1>3. Balance(d, z, users, NoBytes)
  BY <1>1, <1>2, MessageFacts DEF Balance
<1>4. PICK k, l : Moved(k, message, v, w, Msg!NullView) /\ Moved(l, unread, v, w, <<>>)
  BY DEF Moved
<1>5. ViewsKept(k, pool, bytes, l) /\ UsersRight(k, pool.of, d)
  BY <1>1, <1>2, <1>3, <1>4, MessageMoves
<1>6. message' = k /\ unread' = l /\ users' = d /\ pool' = pool /\ bytes' = bytes
  BY <1>1, <1>4 DEF Msg!Move, Moved
<1>7. QED
  BY <1>5, <1>6 DEF MessagesKept

LEMMA MoveAssignMessageKeeps ==
  ASSUME MessagesKept, NEW v \in Messages, NEW w \in Messages, Msg!MoveAssign(v, w)
  PROVE  MessagesKept'
<1>1. PICK x, u, z, d : /\ x = message[w] /\ u = unread[w] /\ z = BufferIn(message[v])
                        /\ d = Msg!Uncounted(users, z)
  OBVIOUS
<1>2. v # w /\ message[w] # NoMessage
  BY DEF Msg!MoveAssign, Msg!Exists
<1>3. z = message[v].of /\ z \in ByteBuffers \union {NoBytes}
  <2>1. message[v] # NoMessage
    BY DEF Msg!MoveAssign, Msg!Exists
  <2>2. message[v] \in Msg!View
    BY <2>1, MessageFits
  <2>3. QED
    BY <1>1, <2>1, <2>2 DEF BufferIn, Msg!View
<1>4. d \in [ByteBuffers -> Int] /\ \A b \in ByteBuffers : d[b] = users[b] - Is(z, b)
  <2>1. users \in [ByteBuffers -> Int] /\ z \in ByteBuffers \union {NoBytes}
    BY <1>3, MessageFacts
  <2>2. QED
    BY <1>1, <2>1, UncountedIs
<1>5. Balance(d, z, users, NoBytes)
  <2>1. \A b \in ByteBuffers : Is(NoBytes, b) = 0
    BY MessagesAssumed DEF Is, Msg!MessagesAssumption
  <2>2. QED
    BY <1>4, <2>1, MessageFacts DEF Balance, Is
<1>6. PICK k, l : Moved(k, message, v, w, Msg!NullView) /\ Moved(l, unread, v, w, <<>>)
  BY DEF Moved
<1>7. ViewsKept(k, pool, bytes, l) /\ UsersRight(k, pool.of, d)
  BY <1>1, <1>2, <1>5, <1>6, MessageMoves
<1>8. message' = k /\ unread' = l /\ users' = d /\ pool' = pool /\ bytes' = bytes
  BY <1>1, <1>3, <1>6 DEF Msg!MoveAssign, Moved
<1>9. QED
  BY <1>7, <1>8 DEF MessagesKept

LEMMA SameCounts ==
  ASSUME MessagesKept, NEW v \in Messages, message[v] # NoMessage,
         NEW x \in Msg!View, x.of = message[v].of,
         NEW y, y = BufferIn(x), NEW z, z = BufferIn(message[v])
  PROVE  Balance(users, z, users, y)
<1>1. y = z
  BY MessagesAssumed DEF BufferIn, Msg!MessagesAssumption
<1>2. QED
  BY <1>1, MessageFacts DEF Balance

\* A message reads on, or begins anew, in the same bytes.
LEMMA MessageReads ==
  ASSUME MessagesKept, NEW v \in Messages, message[v] # NoMessage,
         NEW x \in Msg!View, x.of = message[v].of, x.array = message[v].array,
         x.capacity = message[v].capacity, ViewIsRight(x),
         NEW u, Reads(x, bytes, u),
         NEW k, k = [message EXCEPT ![v] = x], NEW l, l = [unread EXCEPT ![v] = u]
  PROVE  ViewsKept(k, pool, bytes, l) /\ UsersRight(k, pool.of, users)
<1>1. PICK y, z, d : y = BufferIn(x) /\ z = BufferIn(message[v]) /\ d = users
  OBVIOUS
<1>2. Balance(d, z, users, y)
  BY <1>1, SameCounts
<1>3. /\ Before(message[v], pool)
      /\ \A w \in Messages : message[w] # NoMessage => ApartIn(message[v], message[w])
  BY MessageFits
<1>4. Before(x, pool) /\ ApartFrom(x, message, v)
  BY <1>3 DEF Before, ApartIn, ApartFrom
<1>5. u \in Seq(Data) /\ x \in Msg!View \union {NoMessage} /\ Joins(x, u, v, message, pool, bytes)
  BY <1>4 DEF Joins, ViewFits, Reads
<1>6. QED
  BY <1>1, <1>2, <1>5, MessageGets

LEMMA PopMessageKeeps ==
  ASSUME MessagesKept, NEW v \in Messages, Msg!Pop(v)
  PROVE  MessagesKept'
<1>1. PICK x, u, y, w : /\ y = message[v] /\ w = unread[v]
                        /\ x = [y EXCEPT !.front = @ + 1] /\ u = Tail(w)
  OBVIOUS
<1>2. message[v] # NoMessage /\ y.front < y.rear
  BY <1>1 DEF Msg!Pop, Msg!Exists
<1>3. y \in Msg!View /\ ViewIsRight(y) /\ Reads(y, bytes, w)
  BY <1>1, <1>2, MessageFits
<1>4. /\ x \in Msg!View /\ x.front = y.front + 1 /\ x.rear = y.rear /\ x.capacity = y.capacity
      /\ x.array = y.array /\ x.of = y.of
  BY <1>1, <1>3 DEF Msg!View
<1>5. /\ y.front \in Nat /\ y.rear \in Nat /\ y.capacity \in Nat /\ y.array \in Nat
  BY <1>3 DEF Msg!View
<1>6. ViewIsRight(x)
  BY <1>2, <1>3, <1>4, <1>5 DEF ViewIsRight
<1>7. Reads(x, bytes, u)
  <2>1. w \in Seq(Data) /\ Len(w) = y.rear - y.front /\ w # <<>>
    <3>1. w \in Seq(Data) /\ Len(w) = y.rear - y.front
      BY <1>3 DEF Reads
    <3>2. Len(w) > 0
      BY <1>2, <1>5, <3>1
    <3>3. QED
      BY <3>1, <3>2
  <2>2. u \in Seq(Data) /\ Len(u) = Len(w) - 1 /\ \A i \in 1 .. Len(u) : u[i] = w[i + 1]
    BY <1>1, <2>1
  <2>3. Len(u) = x.rear - x.front
    BY <1>4, <1>5, <2>1, <2>2
  <2>4. ASSUME NEW i \in 1 .. Len(u)
        PROVE  u[i] = bytes[x.of][x.array + x.front + i]
    <3>1. i + 1 \in 1 .. Len(w)
      BY <2>1, <2>2
    <3>2. w[i + 1] = bytes[y.of][y.array + y.front + (i + 1)]
      BY <1>3, <3>1 DEF Reads
    <3>3. x.array + x.front + i = y.array + y.front + (i + 1)
      <4>1. PICK c \in Nat, f \in Nat : c = y.array /\ f = y.front
        BY <1>5
      <4>2. x.array = c /\ x.front = f + 1
        BY <1>4, <4>1
      <4>3. c + (f + 1) + i = c + f + (i + 1)
        OBVIOUS
      <4>4. QED
        BY <4>1, <4>2, <4>3
    <3>4. QED
      BY <1>4, <2>2, <3>2, <3>3
  <2>5. QED
    BY <2>2, <2>3, <2>4 DEF Reads
<1>8. PICK k, l : k = [message EXCEPT ![v] = x] /\ l = [unread EXCEPT ![v] = u]
  OBVIOUS
<1>9. x.of = message[v].of /\ x.array = message[v].array /\ x.capacity = message[v].capacity
  BY <1>1, <1>4
<1>10. ViewsKept(k, pool, bytes, l) /\ UsersRight(k, pool.of, users)
  BY <1>2, <1>4, <1>6, <1>7, <1>8, <1>9, MessageReads
<1>11. message' = k /\ unread' = l /\ users' = users /\ pool' = pool /\ bytes' = bytes
  BY <1>1, <1>8, MessageFacts DEF Msg!Pop
<1>12. QED
  BY <1>10, <1>11 DEF MessagesKept

LEMMA ClearMessageKeeps ==
  ASSUME MessagesKept, NEW v \in Messages, Msg!Clear(v)
  PROVE  MessagesKept'
<1>1. PICK x, u, y : /\ y = message[v] /\ u = <<>>
                     /\ x = [[y EXCEPT !.front = 0] EXCEPT !.rear = 0]
  OBVIOUS
<1>2. message[v] # NoMessage
  BY DEF Msg!Clear, Msg!Exists
<1>3. y \in Msg!View /\ ViewIsRight(y)
  BY <1>1, <1>2, MessageFits
<1>4. /\ x \in Msg!View /\ x.front = 0 /\ x.rear = 0 /\ x.capacity = y.capacity
      /\ x.array = y.array /\ x.of = y.of
  BY <1>1, <1>3 DEF Msg!View
<1>5. ViewIsRight(x)
  BY <1>3, <1>4 DEF ViewIsRight, Msg!View
<1>6. Reads(x, bytes, u)
  BY <1>1, <1>4 DEF Reads
<1>7. PICK k, l : k = [message EXCEPT ![v] = x] /\ l = [unread EXCEPT ![v] = u]
  OBVIOUS
<1>8. x.of = message[v].of /\ x.array = message[v].array /\ x.capacity = message[v].capacity
  BY <1>1, <1>4
<1>9. ViewsKept(k, pool, bytes, l) /\ UsersRight(k, pool.of, users)
  BY <1>2, <1>4, <1>5, <1>6, <1>7, <1>8, MessageReads
<1>10. message' = k /\ unread' = l /\ users' = users /\ pool' = pool /\ bytes' = bytes
  BY <1>1, <1>7, MessageFacts DEF Msg!Clear
<1>11. QED
  BY <1>9, <1>10 DEF MessagesKept

\* In c the byte e stands at p of the buffer o, and the rest is b.
PutByte(c, b, o, p, e) == c = [b EXCEPT ![o][p] = e]

LEMMA OneByte ==
  ASSUME NEW b, b \in [ByteBuffers -> [1 .. BufferSize -> Data]], NEW o \in ByteBuffers,
         NEW p \in 1 .. BufferSize, NEW e \in Data, NEW c, PutByte(c, b, o, p, e)
  PROVE  /\ c \in [ByteBuffers -> [1 .. BufferSize -> Data]]
         /\ c[o][p] = e /\ \A i \in 1 .. BufferSize : i # p => c[o][i] = b[o][i]
         /\ \A q \in ByteBuffers : q # o => c[q] = b[q]
BY DEF PutByte

\* What the others read is not the cell that is written to a message alone with its bytes.
LEMMA OthersRead ==
  ASSUME NEW x, ViewIsRight(x), NEW y, ViewIsRight(y), ApartIn(x, y),
         x.of # y.of \/ x.array # y.array, x.rear < x.capacity,
         NEW b, b \in [ByteBuffers -> [1 .. BufferSize -> Data]], x.of \in ByteBuffers,
         NEW e \in Data, NEW c, PutByte(c, b, x.of, x.array + x.rear + 1, e),
         NEW u, Reads(y, b, u)
  PROVE  Reads(y, c, u)
<1>1. u \in Seq(Data) /\ Len(u) = y.rear - y.front
  BY DEF Reads
<1>2. PICK a \in Nat, r \in Nat, s \in Nat : a = x.array /\ r = x.rear /\ s = x.capacity
  BY DEF ViewIsRight, Msg!View
<1>3. PICK f \in Nat, g \in Nat, h \in Nat, j \in Nat : f = y.front /\ g = y.rear /\ h = y.capacity /\ j = y.array
  BY DEF ViewIsRight, Msg!View
<1>4. /\ r < s /\ f <= g /\ g <= h
      /\ a + s <= BufferSize /\ j + h <= BufferSize /\ BufferSize \in Nat
      /\ y.of = NoBytes => h = 0
  BY <1>2, <1>3, MessagesAssumed DEF ViewIsRight, Msg!MessagesAssumption
<1>5. PICK p \in 1 .. BufferSize : p = a + r + 1
  BY <1>4
<1>6. PutByte(c, b, x.of, p, e)
  BY <1>2, <1>5
<1>7. /\ \A i \in 1 .. BufferSize : i # p => c[x.of][i] = b[x.of][i]
      /\ \A q \in ByteBuffers : q # x.of => c[q] = b[q]
  BY <1>6, OneByte
<1>8. ASSUME NEW i \in 1 .. Len(u)
      PROVE  c[y.of][y.array + y.front + i] = b[y.of][y.array + y.front + i]
  <2>1. i <= g - f /\ i >= 1 /\ i \in Nat
    BY <1>1, <1>3
  <2>2. y.of \in ByteBuffers
    <3>1. h # 0
      BY <1>4, <2>1
    <3>2. y.of \in ByteBuffers \union {NoBytes}
      BY DEF ViewIsRight, Msg!View
    <3>3. QED
      BY <1>4, <3>1, <3>2
  <2>3. j + f + i \in 1 .. BufferSize
    BY <1>4, <2>1
  <2>4. CASE x.of # y.of
    BY <1>7, <2>4, <2>2
  <2>5. CASE x.of = y.of
    <3>1. a + s <= j \/ j + h <= a
      BY <1>2, <1>3, <2>5 DEF ApartIn
    <3>2. j + f + i # p
      BY <1>4, <1>5, <2>1, <3>1
    <3>3. c[x.of][j + f + i] = b[x.of][j + f + i]
      BY <1>7, <2>3, <3>2
    <3>4. QED
      BY <1>3, <2>5, <3>3
  <2>6. QED
    BY <2>4, <2>5
<1>9. QED
  BY <1>1, <1>8 DEF Reads

\* y is x with its rear s further.
Further(y, x, s) == y = [x EXCEPT !.rear = @ + s]

\* e is written to the bytes b behind what is unread of the view x, which is u.
Writing(x, b, u, e, y, c, w) ==
  /\ ViewIsRight(x) /\ x.rear < x.capacity /\ x.of \in ByteBuffers
  /\ b \in [ByteBuffers -> [1 .. BufferSize -> Data]] /\ e \in Data
  /\ PutByte(c, b, x.of, x.array + x.rear + 1, e)
  /\ Reads(x, b, u) /\ Further(y, x, 1) /\ w = Append(u, e)

\* The writer's own reading is longer by what was written.
LEMMA WriterReads ==
  ASSUME NEW x, NEW b, NEW u, NEW e, NEW y, NEW c, NEW w, Writing(x, b, u, e, y, c, w)
  PROVE  /\ y \in Msg!View /\ ViewIsRight(y) /\ Reads(y, c, w)
         /\ y.of = x.of /\ y.array = x.array /\ y.capacity = x.capacity
         /\ c \in [ByteBuffers -> [1 .. BufferSize -> Data]]
<1> USE DEF Writing
<1>1. PICK f \in Nat, r \in Nat, s \in Nat, a \in Nat : f = x.front /\ r = x.rear /\ s = x.capacity /\ a = x.array
  BY DEF ViewIsRight, Msg!View
<1>2. f <= r /\ r < s /\ a + s <= BufferSize /\ BufferSize \in Nat
  BY <1>1, MessagesAssumed DEF ViewIsRight, Msg!MessagesAssumption
<1>3. /\ y \in Msg!View /\ y.front = f /\ y.rear = r + 1 /\ y.capacity = s /\ y.array = a /\ y.of = x.of
  BY <1>1 DEF Further, ViewIsRight, Msg!View
<1>4. ViewIsRight(y)
  BY <1>1, <1>2, <1>3 DEF ViewIsRight
<1>5. PICK p \in 1 .. BufferSize : p = a + r + 1
  BY <1>2
<1>6. PutByte(c, b, x.of, p, e)
  BY <1>1, <1>5
<1>7. c \in [ByteBuffers -> [1 .. BufferSize -> Data]]
  BY <1>6, OneByte
<1>8. c[x.of][p] = e /\ \A i \in 1 .. BufferSize : i # p => c[x.of][i] = b[x.of][i]
  BY <1>6, OneByte
<1>9. u \in Seq(Data) /\ Len(u) = r - f /\ \A i \in 1 .. Len(u) : u[i] = b[x.of][a + f + i]
  BY <1>1 DEF Reads
<1>11. w \in Seq(Data) /\ Len(w) = (r + 1) - f
  BY <1>2, <1>9
<1>12. ASSUME NEW i \in 1 .. Len(w)
       PROVE  w[i] = c[y.of][y.array + y.front + i]
  <2>1. CASE i = Len(w)
    <3>1. a + f + i = p /\ w[i] = e
      BY <1>2, <1>5, <1>9, <1>11, <2>1
    <3>2. QED
      BY <1>3, <1>8, <3>1
  <2>2. CASE i # Len(w)
    <3>1. i \in 1 .. Len(u) /\ w[i] = u[i]
      BY <1>2, <1>9, <1>11, <2>2
    <3>2. a + f + i # p /\ a + f + i \in 1 .. BufferSize
      BY <1>2, <1>5, <1>9, <3>1
    <3>3. QED
      BY <1>3, <1>8, <1>9, <3>1, <3>2
  <2>3. QED
    BY <2>1, <2>2
<1>13. Reads(y, c, w)
  BY <1>3, <1>11, <1>12 DEF Reads
<1>14. QED
  BY <1>1, <1>3, <1>4, <1>7, <1>13

LEMMA PushMessageKeeps ==
  ASSUME MessagesKept, NEW v \in Messages, NEW e \in Data, Msg!Push(v, e)
  PROVE  MessagesKept'
<1>1. PICK x, y, u, w, b, c, m, n, p :
        /\ x = message[v] /\ y = [x EXCEPT !.rear = @ + 1] /\ u = unread[v] /\ w = Append(u, e)
        /\ b = bytes /\ c = bytes' /\ m = message /\ n = unread /\ p = pool
  OBVIOUS
<1>2. /\ message[v] # NoMessage /\ x.rear < x.capacity
      /\ \A o \in Messages : o # v /\ m[o] # NoMessage => x.of # m[o].of \/ x.array # m[o].array
  BY <1>1 DEF Msg!Push, Msg!Exists, Msg!Alone
<1>3. /\ ViewIsRight(x) /\ Reads(x, b, u)
      /\ x \in Msg!View
      /\ ApartFrom(x, m, v)
  BY <1>1, <1>2, MessageFits DEF ApartFrom
<1>4. PutByte(c, b, x.of, x.array + x.rear + 1, e)
  BY <1>1 DEF Msg!Push, PutByte
<1>5. x.of \in ByteBuffers
  <2>1. PICK r \in Nat, s \in Nat : r = x.rear /\ s = x.capacity
    BY <1>3 DEF Msg!View
  <2>2. s # 0
    BY <1>2, <2>1
  <2>3. x.of # NoBytes /\ x.of \in ByteBuffers \union {NoBytes}
    BY <1>3, <2>1, <2>2 DEF ViewIsRight, Msg!View
  <2>4. QED
    BY <2>3
<1>6. /\ ViewsKept(m, p, b, n)
      /\ m \in [Messages -> Msg!View \union {NoMessage}] /\ n \in [Messages -> Seq(Data)]
      /\ b \in [ByteBuffers -> [1 .. BufferSize -> Data]]
  BY <1>1 DEF MessagesKept, ViewsKept, MessagesTyped
<1>7. /\ y \in Msg!View /\ ViewIsRight(y) /\ Reads(y, c, w)
      /\ y.of = x.of /\ y.array = x.array /\ y.capacity = x.capacity
      /\ c \in [ByteBuffers -> [1 .. BufferSize -> Data]]
  <2>1. b \in [ByteBuffers -> [1 .. BufferSize -> Data]]
    BY <1>6
  <2>2. ViewIsRight(x) /\ Reads(x, b, u) /\ x.rear < x.capacity
    BY <1>2, <1>3
  <2>3. Further(y, x, 1) /\ w = Append(u, e)
    BY <1>1 DEF Further
  <2>4. Writing(x, b, u, e, y, c, w)
    BY <1>4, <1>5, <2>1, <2>2, <2>3 DEF Writing
  <2>5. QED
    BY <2>4, WriterReads
<1>8. PICK k, l : k = [m EXCEPT ![v] = y] /\ l = [n EXCEPT ![v] = w]
  OBVIOUS
<1>9. w \in Seq(Data) /\ Before(y, p)
  <2>1. Before(x, p)
    BY <1>1, <1>2, MessageFits
  <2>2. QED
    BY <1>7, <2>1 DEF Before, Reads
<1>10. /\ k \in [Messages -> Msg!View \union {NoMessage}] /\ l \in [Messages -> Seq(Data)]
       /\ k[v] = y /\ l[v] = w /\ \A o \in Messages : o # v => k[o] = m[o] /\ l[o] = n[o]
  BY <1>6, <1>7, <1>8, <1>9
<1>11. AllFit(k, p, c, l)
  <2>1. ASSUME NEW o \in Messages, k[o] # NoMessage
        PROVE  ViewFits(k[o], p, c, l[o])
    <3>1. CASE o = v
      BY <1>7, <1>9, <1>10, <3>1 DEF ViewFits
    <3>2. CASE o # v
      <4>1. PICK z, i : z = m[o] /\ i = n[o]
        OBVIOUS
      <4>2. z # NoMessage /\ k[o] = z /\ l[o] = i
        BY <1>10, <2>1, <3>2, <4>1
      <4>3. ViewIsRight(z) /\ Before(z, p) /\ Reads(z, b, i)
        BY <1>6, <4>1, <4>2 DEF ViewsKept, AllFit, ViewFits
      <4>4. ApartIn(x, z) /\ (x.of # z.of \/ x.array # z.array)
        BY <1>2, <1>3, <3>2, <4>1, <4>2 DEF ApartFrom
      <4>5. Reads(z, c, i)
        BY <1>2, <1>3, <1>4, <1>5, <1>6, <4>3, <4>4, OthersRead
      <4>6. QED
        BY <4>2, <4>3, <4>5 DEF ViewFits
    <3>3. QED
      BY <3>1, <3>2
  <2>2. QED
    BY <2>1 DEF AllFit
<1>12. AllApart(k)
  <2>1. ASSUME NEW o \in Messages, NEW q \in Messages, k[o] # NoMessage, k[q] # NoMessage
        PROVE  ApartIn(k[o], k[q])
    <3>1. m[o] # NoMessage /\ m[q] # NoMessage
      BY <1>1, <1>2, <1>10, <2>1
    <3>2. ApartIn(m[o], m[q])
      BY <1>6, <3>1 DEF ViewsKept, AllApart
    <3>3. /\ k[o].of = m[o].of /\ k[o].array = m[o].array /\ k[o].capacity = m[o].capacity
          /\ k[q].of = m[q].of /\ k[q].array = m[q].array /\ k[q].capacity = m[q].capacity
      BY <1>1, <1>7, <1>10
    <3>4. QED
      BY <3>2, <3>3 DEF ApartIn
  <2>2. QED
    BY <2>1 DEF AllApart
<1>13. ViewsKept(k, p, c, l)
  BY <1>6, <1>7, <1>10, <1>11, <1>12 DEF ViewsKept, MessagesTyped
<1>14. UsersRight(k, pool.of, users)
  <2>1. PICK q, d : q = pool.of /\ d = users
    OBVIOUS
  <2>2. UsersRight(m, q, d)
    BY <1>1, <2>1 DEF MessagesKept
  <2>3. BufferOf(k) = BufferOf(m)
    <3>1. ASSUME NEW o \in Messages
          PROVE  (IF k[o] = NoMessage THEN NoBytes ELSE k[o].of) = (IF m[o] = NoMessage THEN NoBytes ELSE m[o].of)
      <4>1. CASE o = v
        <5>1. y # NoMessage /\ x # NoMessage
          BY <1>3, <1>7, MessagesAssumed DEF Msg!MessagesAssumption
        <5>2. QED
          BY <1>1, <1>7, <1>10, <4>1, <5>1
      <4>2. CASE o # v
        BY <1>10, <4>2
      <4>3. QED
        BY <4>1, <4>2
    <3>2. QED
      BY <3>1 DEF BufferOf
  <2>4. QED
    BY <2>1, <2>2, <2>3 DEF UsersRight
<1>15. message' = k /\ unread' = l /\ users' = users /\ pool' = pool /\ bytes' = c
  BY <1>1, <1>8 DEF Msg!Push
<1>16. QED
  BY <1>1, <1>13, <1>14, <1>15 DEF MessagesKept

\* x is cut from the pool p for a new message v, which leaves the pool q.
Cutting(m, p, b, n, v, size, x, q, k, l) ==
  /\ ViewsKept(m, p, b, n) /\ v \in Messages /\ m[v] = NoMessage
  /\ size \in Nat /\ p.rear + size <= BufferSize
  /\ x = Msg!Slice(p, size) /\ Further(q, p, size)
  /\ k = [m EXCEPT ![v] = x] /\ l = [n EXCEPT ![v] = <<>>]

LEMMA SliceJoins ==
  ASSUME NEW m, NEW p, NEW b, NEW n, NEW v, NEW size, NEW x, NEW q, NEW k, NEW l,
         Cutting(m, p, b, n, v, size, x, q, k, l)
  PROVE  /\ x \in Msg!View /\ x.of = p.of
         /\ PoolIsRight(q) /\ q.of = p.of
         /\ ViewsKept(k, q, b, l)
<1> USE DEF Cutting
<1>1. PICK r \in Nat : r = p.rear
  BY DEF ViewsKept, PoolIsRight, Msg!View
<1>2. /\ p \in Msg!View /\ p.front = 0 /\ p.array = 0 /\ p.capacity = BufferSize /\ p.of \in ByteBuffers
      /\ r <= BufferSize /\ r + size <= BufferSize /\ BufferSize \in Nat
  BY <1>1, MessagesAssumed DEF ViewsKept, PoolIsRight, Msg!MessagesAssumption
<1>3. /\ x \in Msg!View /\ x.front = 0 /\ x.rear = 0 /\ x.capacity = size /\ x.array = r /\ x.of = p.of
  BY <1>1, <1>2 DEF Msg!Slice, Msg!View
<1>4. /\ q \in Msg!View /\ q.front = 0 /\ q.array = 0 /\ q.capacity = BufferSize /\ q.rear = r + size
      /\ q.of = p.of
  BY <1>1, <1>2 DEF Further, Msg!View
<1>5. PoolIsRight(q)
  BY <1>2, <1>4 DEF PoolIsRight
<1>6. ViewsKept(m, q, b, n)
  <2>1. q.of = p.of /\ p.rear <= q.rear
    BY <1>1, <1>4
  <2>2. QED
    BY <1>5, <2>1, PoolMoves
<1>7. x # NoMessage
  BY <1>3, MessagesAssumed DEF Msg!MessagesAssumption
<1>8. ViewIsRight(x)
  BY <1>2, <1>3, MessagesAssumed DEF ViewIsRight, Msg!MessagesAssumption
<1>9. Before(x, q) /\ Reads(x, b, <<>>)
  BY <1>3, <1>4 DEF Before, Reads
<1>10. ASSUME NEW w \in Messages, m[w] # NoMessage
       PROVE  ApartIn(x, m[w])
  <2>1. Before(m[w], p)
    BY <1>10 DEF ViewsKept, AllFit, ViewFits
  <2>2. QED
    BY <1>1, <1>3, <2>1 DEF Before, ApartIn
<1>11. PICK u : u = <<>>
  OBVIOUS
<1>12. u \in Seq(Data) /\ x \in Msg!View \union {NoMessage} /\ Joins(x, u, v, m, q, b)
  BY <1>3, <1>8, <1>9, <1>10, <1>11 DEF Joins, ViewFits, ApartFrom
<1>13. ViewsKept(k, q, b, l)
  BY <1>6, <1>11, <1>12, OneViewKeeps
<1>14. QED
  BY <1>3, <1>4, <1>5, <1>13

\* The counts with one more for the buffer of the pool.
LEMMA SliceCounts ==
  ASSUME NEW m, m \in [Messages -> Msg!View \union {NoMessage}], NEW q \in ByteBuffers,
         NEW c, UsersRight(m, q, c), NEW v \in Messages, m[v] = NoMessage,
         NEW x \in Msg!View, x.of = q, NEW k, k = [m EXCEPT ![v] = x],
         NEW d, d = Msg!Counted(c, q)
  PROVE  UsersRight(k, q, d)
<1>1. PICK y, z : y = BufferIn(x) /\ z = BufferIn(m[v])
  OBVIOUS
<1>2. y = q /\ z = NoBytes
  BY <1>1, MessagesAssumed DEF BufferIn, Msg!MessagesAssumption
<1>3. c \in [ByteBuffers -> Int]
  BY DEF UsersRight
<1>4. d \in [ByteBuffers -> Int] /\ \A b \in ByteBuffers : d[b] = c[b] + Is(q, b)
  BY <1>3, CountedIs
<1>5. \A b \in ByteBuffers : Is(z, b) = 0
  BY <1>2, MessagesAssumed DEF Is, Msg!MessagesAssumption
<1>6. Balance(d, z, c, y)
  BY <1>2, <1>4, <1>5 DEF Balance
<1>7. x \in Msg!View \union {NoMessage}
  OBVIOUS
<1>8. QED
  BY <1>1, <1>6, <1>7, OneUserCounts

\* The pool that a message is cut from, the old one or another buffer, and its counts.
LEMMA SuppliedIsRight ==
  ASSUME MessagesKept, NEW size \in Sizes, NEW s \in Msg!Supplied(size)
  PROVE  /\ ViewsKept(message, s[1], bytes, unread) /\ UsersRight(message, s[1].of, s[2])
         /\ s[1].rear + size <= BufferSize /\ s[1].of \in ByteBuffers
<1>1. size \in Nat /\ size <= BufferSize /\ BufferSize \in Nat
  BY MessagesAssumed DEF Msg!MessagesAssumption
<1>2. PICK m, p, b, n, c, q : m = message /\ p = pool /\ b = bytes /\ n = unread /\ c = users /\ q = pool.of
  OBVIOUS
<1>3. ViewsKept(m, p, b, n) /\ UsersRight(m, q, c) /\ q \in ByteBuffers /\ PoolIsRight(p)
  BY <1>2, MessageFacts DEF MessagesKept, ViewsKept
<1>4. PICK r \in Nat : r = p.rear /\ r <= BufferSize
  BY <1>3 DEF PoolIsRight, Msg!View
<1>5. CASE Msg!Remain(p) >= size
  <2>1. s = <<p, c>>
    BY <1>2, <1>5 DEF Msg!Supplied
  <2>2. p.capacity = BufferSize
    BY <1>3 DEF PoolIsRight
  <2>3. BufferSize - r >= size
    BY <1>4, <1>5, <2>2 DEF Msg!Remain
  <2>4. r + size <= BufferSize
    BY <1>1, <1>4, <2>3
  <2>5. s[1] = p /\ s[2] = c /\ p.of = q
    BY <1>2, <2>1
  <2>6. QED
    BY <1>2, <1>3, <1>4, <2>4, <2>5
<1>6. CASE ~(Msg!Remain(p) >= size)
  <2>1. PICK f \in ByteBuffers :
          /\ users[f] = 0
          /\ s = <<[Msg!NullView EXCEPT !.capacity = BufferSize, !.of = f],
                   Msg!Uncounted([users EXCEPT ![f] = 1], pool.of)>>
    BY <1>2, <1>6 DEF Msg!Supplied
  <2>2. PICK g, e, d : /\ g = [Msg!NullView EXCEPT !.capacity = BufferSize, !.of = f]
                       /\ e = [c EXCEPT ![f] = 1] /\ d = Msg!Uncounted(e, q)
    OBVIOUS
  <2>3. s[1] = g /\ s[2] = d /\ c[f] = 0
    BY <1>2, <2>1, <2>2
  <2>4. /\ g \in Msg!View /\ g.front = 0 /\ g.rear = 0 /\ g.array = 0 /\ g.capacity = BufferSize /\ g.of = f
    BY <1>1, <2>2 DEF Msg!NullView, Msg!View
  <2>5. PoolIsRight(g)
    BY <1>1, <2>4 DEF PoolIsRight
  <2>6. \A v \in Messages : m[v] # NoMessage => m[v].of # f
    BY <1>3, <2>3, UncountedIsFree
  <2>7. ViewsKept(m, g, b, n)
    BY <1>3, <2>4, <2>5, <2>6, PoolMoves
  <2>8. c \in [ByteBuffers -> Int] /\ \A a \in ByteBuffers : c[a] \in Int
    BY <1>3 DEF UsersRight
  <2>9. e \in [ByteBuffers -> Int] /\ \A a \in ByteBuffers : e[a] = c[a] + Is(f, a)
    BY <2>2, <2>3, <2>8 DEF Is
  <2>10. d \in [ByteBuffers -> Int] /\ \A a \in ByteBuffers : d[a] = e[a] - Is(q, a)
    <3>1. e \in [ByteBuffers -> Int] /\ q \in ByteBuffers \union {NoBytes} /\ d = Msg!Uncounted(e, q)
      BY <1>3, <2>2, <2>9
    <3>2. QED
      BY <3>1, UncountedIs
  <2>11. Balance(d, q, c, f)
    <3>1. ASSUME NEW a \in ByteBuffers
          PROVE  d[a] + Is(q, a) = c[a] + Is(f, a)
      BY <2>8, <2>9, <2>10 DEF Is
    <3>2. QED
      BY <2>10, <3>1 DEF Balance
  <2>12. UsersRight(m, f, d)
    BY <1>3, <2>11, PoolCounts
  <2>13. QED
    BY <1>1, <1>2, <2>3, <2>4, <2>7, <2>12
<1>7. QED
  BY <1>5, <1>6

LEMMA AllocateMessageKeeps ==
  ASSUME MessagesKept, NEW v \in Messages, NEW size \in Sizes, Msg!Allocate(v, size)
  PROVE  MessagesKept'
<1>1. PICK s \in Msg!Supplied(size) :
        /\ message' = [message EXCEPT ![v] = Msg!Slice(s[1], size)]
        /\ pool' = [s[1] EXCEPT !.rear = @ + size]
        /\ users' = Msg!Counted(s[2], s[1].of)
  BY DEF Msg!Allocate
<1>2. message[v] = NoMessage /\ unread' = [unread EXCEPT ![v] = <<>>] /\ bytes' = bytes
  BY DEF Msg!Allocate, Msg!Exists
<1>3. PICK p, c, q : p = s[1] /\ c = s[2] /\ q = p.of
  OBVIOUS
<1>4. ViewsKept(message, p, bytes, unread) /\ UsersRight(message, q, c) /\ p.rear + size <= BufferSize
      /\ q \in ByteBuffers
  BY <1>3, SuppliedIsRight
<1>5. PICK m, b, n : m = message /\ b = bytes /\ n = unread
  OBVIOUS
<1>6. PICK x, o, k, l, d : /\ x = Msg!Slice(p, size) /\ o = [p EXCEPT !.rear = @ + size]
                           /\ k = [m EXCEPT ![v] = x] /\ l = [n EXCEPT ![v] = <<>>]
                           /\ d = Msg!Counted(c, q)
  OBVIOUS
<1>7. /\ message' = k /\ pool' = o /\ users' = d /\ unread' = l /\ bytes' = b
  BY <1>1, <1>2, <1>3, <1>5, <1>6
<1>8. /\ ViewsKept(m, p, b, n) /\ UsersRight(m, q, c) /\ m[v] = NoMessage
      /\ m \in [Messages -> Msg!View \union {NoMessage}] /\ size \in Nat
  BY <1>2, <1>4, <1>5, MessageFacts, MessagesAssumed DEF Msg!MessagesAssumption
<1>9. x \in Msg!View /\ x.of = p.of /\ o.of = p.of /\ ViewsKept(k, o, b, l)
  <2>1. ViewsKept(m, p, b, n) /\ m[v] = NoMessage
    BY <1>8
  <2>2. size \in Nat /\ p.rear + size <= BufferSize
    BY <1>4, <1>8
  <2>3. x = Msg!Slice(p, size) /\ Further(o, p, size)
    BY <1>6 DEF Further
  <2>4. k = [m EXCEPT ![v] = x] /\ l = [n EXCEPT ![v] = <<>>]
    BY <1>6
  <2>5. Cutting(m, p, b, n, v, size, x, o, k, l)
    BY <2>1, <2>2, <2>3, <2>4 DEF Cutting
  <2>6. QED
    BY <2>5, SliceJoins
<1>10. UsersRight(k, q, d)
  <2>1. x.of = q /\ x \in Msg!View
    BY <1>3, <1>9
  <2>2. QED
    BY <1>4, <1>6, <1>8, <2>1, SliceCounts
<1>11. QED
  BY <1>3, <1>7, <1>9, <1>10 DEF MessagesKept

-----------------------------------------------------------------------------

\* The messages start right: one buffer, which the pool cuts from.
LEMMA MessagesStart == Msg!Init => MessagesKept
<1>1. SUFFICES ASSUME Msg!Init
               PROVE  MessagesKept
  OBVIOUS
<1>2. PICK m, p, b, n, c, q :
        m = message /\ p = pool /\ b = bytes /\ n = unread /\ c = users /\ q = Msg!FirstBuffer
  OBVIOUS
<1>3. q \in ByteBuffers /\ (CHOOSE d \in Data : TRUE) \in Data /\ BufferSize \in Nat
  BY <1>2, MessagesAssumed DEF Msg!FirstBuffer, Msg!MessagesAssumption
<1>4. /\ m = [v \in Messages |-> NoMessage]
      /\ p = [Msg!NullView EXCEPT !.capacity = BufferSize, !.of = q]
      /\ c = [a \in ByteBuffers |-> IF a = q THEN 1 ELSE 0]
      /\ b = [a \in ByteBuffers |-> [i \in 1 .. BufferSize |-> CHOOSE d \in Data : TRUE]]
      /\ n = [v \in Messages |-> <<>>]
  BY <1>1, <1>2 DEF Msg!Init
<1>5. p.of = q /\ PoolIsRight(p)
  <2>1. /\ p \in Msg!View /\ p.front = 0 /\ p.rear = 0 /\ p.array = 0 /\ p.capacity = BufferSize /\ p.of = q
    BY <1>3, <1>4 DEF Msg!NullView, Msg!View
  <2>2. QED
    BY <1>3, <2>1 DEF PoolIsRight
<1>6. MessagesTyped(m, b, n)
  <2>1. b \in [ByteBuffers -> [1 .. BufferSize -> Data]]
    BY <1>3, <1>4
  <2>2. QED
    BY <1>4, <2>1 DEF MessagesTyped
<1>7. ViewsKept(m, p, b, n)
  BY <1>4, <1>5, <1>6 DEF ViewsKept, AllFit, AllApart
<1>8. UsersRight(m, q, c)
  <2>1. PICK f : f = BufferOf(m)
    OBVIOUS
  <2>2. \A v \in Messages : f[v] = NoBytes
    BY <1>4, <2>1 DEF BufferOf
  <2>3. ASSUME NEW a \in ByteBuffers
        PROVE  Held(ByteBuffers, Messages, f)[a] = 0
    <3>1. \A v \in Messages : f[v] # a
      BY <2>2, MessagesAssumed DEF Msg!MessagesAssumption
    <3>2. IsFiniteSet(Messages)
      BY MessagesAreFinite
    <3>3. QED
      BY <3>1, <3>2, HeldNone
  <2>4. c \in [ByteBuffers -> Nat] /\ \A a \in ByteBuffers : c[a] = Is(q, a)
    BY <1>4 DEF Is
  <2>5. QED
    BY <2>1, <2>3, <2>4 DEF UsersRight, Is
<1>9. QED
  BY <1>2, <1>5, <1>7, <1>8 DEF MessagesKept

LEMMA MessagesStep ==
  ASSUME MessagesKept, Msg!Next
  PROVE  MessagesKept'
<1>1. ASSUME NEW v \in Messages, Msg!Drop(v)
      PROVE  MessagesKept'
  BY <1>1, DropMessageKeeps
<1>2. ASSUME NEW v \in Messages, Msg!Pop(v)
      PROVE  MessagesKept'
  BY <1>2, PopMessageKeeps
<1>3. ASSUME NEW v \in Messages, Msg!Clear(v)
      PROVE  MessagesKept'
  BY <1>3, ClearMessageKeeps
<1>4. ASSUME NEW v \in Messages, NEW size \in Sizes, Msg!Allocate(v, size)
      PROVE  MessagesKept'
  BY <1>4, AllocateMessageKeeps
<1>5. ASSUME NEW v \in Messages, NEW byte \in Data, Msg!Push(v, byte)
      PROVE  MessagesKept'
  BY <1>5, PushMessageKeeps
<1>6. ASSUME NEW v \in Messages, NEW w \in Messages, Msg!Copy(v, w)
      PROVE  MessagesKept'
  BY <1>6, CopyMessageKeeps
<1>7. ASSUME NEW v \in Messages, NEW w \in Messages, Msg!Move(v, w)
      PROVE  MessagesKept'
  BY <1>7, MoveMessageKeeps
<1>8. ASSUME NEW v \in Messages, NEW w \in Messages, Msg!CopyAssign(v, w)
      PROVE  MessagesKept'
  BY <1>8, CopyAssignMessageKeeps
<1>9. ASSUME NEW v \in Messages, NEW w \in Messages, Msg!MoveAssign(v, w)
      PROVE  MessagesKept'
  BY <1>9, MoveAssignMessageKeeps
<1>10. QED
  BY <1>1, <1>2, <1>3, <1>4, <1>5, <1>6, <1>7, <1>8, <1>9 DEF Msg!Next

LEMMA MessagesAreKept ==
  ASSUME MessagesKept
  PROVE  Msg!MessagesKeepBytes
<1>1. ASSUME NEW v \in Messages, Msg!Exists(v)
      PROVE  /\ message[v].array + message[v].capacity <= BufferSize
             /\ pool.of = message[v].of => message[v].array + message[v].capacity <= pool.rear
             /\ Msg!Window(v) = unread[v]
  <2>1. /\ ViewIsRight(message[v]) /\ Before(message[v], pool) /\ Reads(message[v], bytes, unread[v])
    BY <1>1, MessageFits DEF Msg!Exists
  <2>2. PICK u, x : u = unread[v] /\ x = message[v]
    OBVIOUS
  <2>3. u \in Seq(Data) /\ Len(u) = x.rear - x.front
        /\ \A i \in 1 .. Len(u) : u[i] = bytes[x.of][x.array + x.front + i]
    BY <2>1, <2>2 DEF Reads
  <2>4. u = [i \in 1 .. Len(u) |-> u[i]]
    BY <2>3
  <2>5. Msg!Window(v) = [i \in 1 .. Len(u) |-> bytes[x.of][x.array + x.front + i]]
    BY <2>2, <2>3 DEF Msg!Window
  <2>6. Msg!Window(v) = u
    BY <2>3, <2>4, <2>5
  <2>7. QED
    BY <2>1, <2>2, <2>6 DEF ViewIsRight, Before
<1>2. ASSUME NEW b \in ByteBuffers
      PROVE  users[b] = Msg!Cardinality({v \in Messages : Msg!Exists(v) /\ message[v].of = b})
                        + (IF pool.of = b THEN 1 ELSE 0)
  <2>1. PICK S : S = {v \in Messages : BufferOf(message)[v] = b}
    OBVIOUS
  <2>2. S = {v \in Messages : Msg!Exists(v) /\ message[v].of = b}
    <3>1. b # NoBytes
      BY MessagesAssumed DEF Msg!MessagesAssumption
    <3>2. \A v \in Messages : BufferOf(message)[v] = b <=> message[v] # NoMessage /\ message[v].of = b
      BY <3>1 DEF BufferOf
    <3>3. QED
      BY <2>1, <3>2 DEF Msg!Exists
  <2>3. Held(ByteBuffers, Messages, BufferOf(message))[b] = Cardinality(S)
    BY <2>1 DEF Held
  <2>4. Cardinality(S) = Msg!Cardinality(S)
    BY DEF Cardinality, Msg!Cardinality
  <2>5. users[b] = Held(ByteBuffers, Messages, BufferOf(message))[b] + Is(pool.of, b)
    BY DEF MessagesKept, UsersRight
  <2>6. QED
    BY <2>2, <2>3, <2>4, <2>5 DEF Is
<1>3. QED
  BY <1>1, <1>2 DEF Msg!MessagesKeepBytes

-----------------------------------------------------------------------------
(* Buffers that are serialized into (module Serialize, as Serial).          *)

Buffers == Fixed \union Growing
BlockRecords == [allocated : BOOLEAN, bytes : Seq(Serial!Byte)]

\* The cells of the buffer o whose members are x.
CellsOf(o, x, bl) ==
  IF o \in Fixed THEN x.array ELSE IF x.array = NoBlock THEN <<>> ELSE bl[x.array].bytes

\* In the cells c, the window from the front of x to its rear is u.
WindowIs(x, c, u) ==
  /\ x.front <= x.rear /\ x.rear <= x.capacity
  /\ c \in [1 .. x.capacity -> Serial!Byte]
  /\ u \in Seq(Octets) /\ Len(u) = x.rear - x.front
  /\ \A i \in 1 .. Len(u) : u[i] = c[x.front + i]

BufferIsRight(o, x, bl, u) ==
  /\ x \in Serial!View
  /\ WindowIs(x, CellsOf(o, x, bl), u)
  /\ o \in Fixed => x.capacity = BufferBytes
  /\ o \in Growing /\ x.array # NoBlock => x.array \in HeapBlocks /\ bl[x.array].allocated

AllBuffersRight(bf, bl, pd) ==
  \A o \in Buffers : bf[o] # NoBuffer => BufferIsRight(o, bf[o], bl, pd[o])

\* The blocks of the growing buffers: each is of one, and all that is allocated is of one.
ArraysOf(bf) == [o \in Growing |-> IF bf[o] = NoBuffer THEN NoBlock ELSE bf[o].array]
OneOwnerEach(a, bl) ==
  /\ \A b \in HeapBlocks : bl[b].allocated => \E o \in Growing : a[o] = b
  /\ \A o, p \in Growing : a[o] = a[p] /\ a[o] # NoBlock => o = p

BuffersTyped(bf, bl, pd) ==
  /\ bf \in [Buffers -> Serial!View \union {NoBuffer}]
  /\ bl \in [HeapBlocks -> BlockRecords]
  /\ pd \in [Buffers -> Seq(Octets)]

BuffersKeptBy(bf, bl, pd) ==
  /\ BuffersTyped(bf, bl, pd)
  /\ AllBuffersRight(bf, bl, pd)
  /\ OneOwnerEach(ArraysOf(bf), bl)

BuffersKept == BuffersKeptBy(buffer, block, pending)

\* The assumptions on the constants, in the terms of this module.
LEMMA BuffersAre ==
  /\ BufferBytes \in Nat /\ NoBlock \notin HeapBlocks /\ NoBuffer \notin Serial!View
  /\ \A o \in Fixed : o \notin Growing
  /\ \A o \in Growing : o \notin Fixed
BY BuffersAssumed DEF Serial!SerializeAssumption

LEMMA EmptyIsRight ==
  ASSUME NEW o \in Buffers, NEW bl, NEW x, x = Serial!Empty(o)
  PROVE  x # NoBuffer /\ BufferIsRight(o, x, bl, <<>>) /\ (o \in Growing => x.array = NoBlock)
<1>1. CASE o \in Fixed
  <2>1. PICK a : a = [i \in 1 .. BufferBytes |-> Garbage]
    OBVIOUS
  <2>2. a \in [1 .. BufferBytes -> Serial!Byte]
    BY <2>1 DEF Serial!Byte
  <2>3. x = [front |-> 0, rear |-> 0, capacity |-> BufferBytes, array |-> a]
    BY <1>1, <2>1 DEF Serial!Empty
  <2>4. x \in Serial!View
    BY <2>2, <2>3, BuffersAre DEF Serial!View
  <2>5. WindowIs(x, a, <<>>)
    BY <2>2, <2>3, BuffersAre DEF WindowIs
  <2>6. CellsOf(o, x, bl) = a
    BY <1>1, <2>3 DEF CellsOf
  <2>7. QED
    BY <1>1, <2>3, <2>4, <2>5, <2>6, BuffersAre DEF BufferIsRight
<1>2. CASE o \in Growing
  <2>1. o \notin Fixed
    BY <1>2, BuffersAre
  <2>2. x = [front |-> 0, rear |-> 0, capacity |-> 0, array |-> NoBlock]
    BY <2>1 DEF Serial!Empty
  <2>3. x \in Serial!View
    BY <2>2 DEF Serial!View
  <2>4. CellsOf(o, x, bl) = <<>>
    BY <2>1, <2>2 DEF CellsOf
  <2>5. WindowIs(x, <<>>, <<>>)
    BY <2>2 DEF WindowIs
  <2>6. QED
    BY <2>1, <2>2, <2>3, <2>4, <2>5, BuffersAre DEF BufferIsRight
<1>3. QED
  BY <1>1, <1>2 DEF Buffers

\* A buffer stays right while its own block is as it was.
SameBlock(o, x, bl, bk) == o \in Growing /\ x.array # NoBlock => bk[x.array] = bl[x.array]

LEMMA OwnBlockIsEnough ==
  ASSUME NEW o \in Buffers, NEW x, NEW bl, NEW u, BufferIsRight(o, x, bl, u),
         NEW bk, SameBlock(o, x, bl, bk)
  PROVE  BufferIsRight(o, x, bk, u)
<1>1. CellsOf(o, x, bk) = CellsOf(o, x, bl)
  BY BuffersAre DEF CellsOf, SameBlock, Buffers
<1>2. QED
  BY <1>1 DEF BufferIsRight, SameBlock

\* A view of the same cells that goes on or begins anew.
LEMMA OtherWindow ==
  ASSUME NEW o \in Buffers, NEW x, NEW bl, NEW u, BufferIsRight(o, x, bl, u),
         NEW y, y \in Serial!View, y.capacity = x.capacity, y.array = x.array,
         NEW w, WindowIs(y, CellsOf(o, x, bl), w)
  PROVE  BufferIsRight(o, y, bl, w)
<1>1. CellsOf(o, y, bl) = CellsOf(o, x, bl)
  BY DEF CellsOf
<1>2. QED
  BY <1>1 DEF BufferIsRight

\* One buffer has other members, and no block of the others changes.
OnlyOne(k, bf, o, x) == k = [bf EXCEPT ![o] = x]
OthersBlocks(bf, o, bl, bk) == \A p \in Growing : p # o /\ bf[p] # NoBuffer => SameBlock(p, bf[p], bl, bk)

LEMMA OneBufferKeeps ==
  ASSUME NEW bf, NEW bl, NEW pd, BuffersTyped(bf, bl, pd), AllBuffersRight(bf, bl, pd),
         NEW o \in Buffers, NEW x \in Serial!View \union {NoBuffer}, NEW u \in Seq(Octets),
         NEW bk \in [HeapBlocks -> BlockRecords], x # NoBuffer => BufferIsRight(o, x, bk, u),
         OthersBlocks(bf, o, bl, bk),
         NEW k, OnlyOne(k, bf, o, x), NEW l, OnlyOne(l, pd, o, u)
  PROVE  BuffersTyped(k, bk, l) /\ AllBuffersRight(k, bk, l)
<1>1. /\ bf \in [Buffers -> Serial!View \union {NoBuffer}] /\ pd \in [Buffers -> Seq(Octets)]
  BY DEF BuffersTyped
<1>2. /\ k \in [Buffers -> Serial!View \union {NoBuffer}] /\ l \in [Buffers -> Seq(Octets)]
      /\ k[o] = x /\ l[o] = u /\ \A p \in Buffers : p # o => k[p] = bf[p] /\ l[p] = pd[p]
  BY <1>1 DEF OnlyOne
<1>3. ASSUME NEW p \in Buffers, k[p] # NoBuffer
      PROVE  BufferIsRight(p, k[p], bk, l[p])
  <2>1. CASE p = o
    BY <1>2, <1>3, <2>1
  <2>2. CASE p # o
    <3>1. PICK y, w : y = bf[p] /\ w = pd[p]
      OBVIOUS
    <3>2. k[p] = y /\ l[p] = w /\ y # NoBuffer
      BY <1>2, <1>3, <2>2, <3>1
    <3>3. BufferIsRight(p, y, bl, w)
      BY <3>1, <3>2 DEF AllBuffersRight
    <3>4. SameBlock(p, y, bl, bk)
      <4>1. CASE p \in Growing
        BY <2>2, <3>1, <3>2, <4>1 DEF OthersBlocks
      <4>2. CASE p \notin Growing
        BY <4>2 DEF SameBlock
      <4>3. QED
        BY <4>1, <4>2
    <3>5. QED
      BY <3>2, <3>3, <3>4, OwnBlockIsEnough
  <2>3. QED
    BY <2>1, <2>2
<1>4. QED
  BY <1>2, <1>3 DEF BuffersTyped, AllBuffersRight

LEMMA NoBlockChanges ==
  ASSUME NEW bf, NEW o, NEW bl
  PROVE  OthersBlocks(bf, o, bl, bl)
BY DEF OthersBlocks, SameBlock

\* The blocks have their owners while the growing buffers keep theirs.
LEMMA OwnersStayWithBlocks ==
  ASSUME NEW bf, NEW bl, OneOwnerEach(ArraysOf(bf), bl), NEW k, NEW bk,
         \A o \in Growing : ArraysOf(k)[o] = ArraysOf(bf)[o],
         \A b \in HeapBlocks : bk[b].allocated => bl[b].allocated
  PROVE  OneOwnerEach(ArraysOf(k), bk)
BY DEF OneOwnerEach

-----------------------------------------------------------------------------

LEMMA BufferFacts ==
  ASSUME BuffersKept
  PROVE  /\ BuffersTyped(buffer, block, pending) /\ AllBuffersRight(buffer, block, pending)
         /\ OneOwnerEach(ArraysOf(buffer), block)
         /\ buffer \in [Buffers -> Serial!View \union {NoBuffer}]
         /\ block \in [HeapBlocks -> BlockRecords] /\ pending \in [Buffers -> Seq(Octets)]
BY DEF BuffersKept, BuffersKeptBy, BuffersTyped

LEMMA BufferFits ==
  ASSUME BuffersKept, NEW o \in Buffers, buffer[o] # NoBuffer
  PROVE  /\ buffer[o] \in Serial!View /\ pending[o] \in Seq(Octets)
         /\ BufferIsRight(o, buffer[o], block, pending[o])
BY DEF BuffersKept, BuffersKeptBy, BuffersTyped, AllBuffersRight, BufferIsRight

\* A buffer has the members x and the window u, and the blocks keep their owners.
LEMMA BufferGets ==
  ASSUME BuffersKept, NEW o \in Buffers, NEW x \in Serial!View \union {NoBuffer}, NEW u \in Seq(Octets),
         NEW bk \in [HeapBlocks -> BlockRecords], x # NoBuffer => BufferIsRight(o, x, bk, u),
         OthersBlocks(buffer, o, block, bk),
         NEW k, OnlyOne(k, buffer, o, x), NEW l, OnlyOne(l, pending, o, u),
         OneOwnerEach(ArraysOf(k), bk)
  PROVE  BuffersKeptBy(k, bk, l)
<1>1. PICK bf, bl, pd : bf = buffer /\ bl = block /\ pd = pending
  OBVIOUS
<1>2. BuffersTyped(bf, bl, pd) /\ AllBuffersRight(bf, bl, pd)
  BY <1>1, BufferFacts
<1>3. OthersBlocks(bf, o, bl, bk) /\ OnlyOne(k, bf, o, x) /\ OnlyOne(l, pd, o, u)
  BY <1>1
<1>4. BuffersTyped(k, bk, l) /\ AllBuffersRight(k, bk, l)
  BY <1>2, <1>3, OneBufferKeeps
<1>5. QED
  BY <1>4 DEF BuffersKeptBy

\* The same when no block changes, and none changes its owner.
LEMMA BufferMovesOn ==
  ASSUME BuffersKept, NEW o \in Buffers, NEW x \in Serial!View \union {NoBuffer}, NEW u \in Seq(Octets),
         x # NoBuffer => BufferIsRight(o, x, block, u),
         NEW k, OnlyOne(k, buffer, o, x), NEW l, OnlyOne(l, pending, o, u),
         o \in Growing => ArraysOf(k)[o] = ArraysOf(buffer)[o]
  PROVE  BuffersKeptBy(k, block, l)
<1>1. PICK bf, bl : bf = buffer /\ bl = block
  OBVIOUS
<1>2. bf \in [Buffers -> Serial!View \union {NoBuffer}] /\ OneOwnerEach(ArraysOf(bf), bl)
      /\ OnlyOne(k, bf, o, x) /\ bl \in [HeapBlocks -> BlockRecords]
  BY <1>1, BufferFacts
<1>3. \A p \in Growing : ArraysOf(k)[p] = ArraysOf(bf)[p]
  BY <1>1, <1>2 DEF ArraysOf, OnlyOne, Buffers
<1>4. OneOwnerEach(ArraysOf(k), bl)
  BY <1>2, <1>3, OwnersStayWithBlocks
<1>5. OthersBlocks(bf, o, bl, bl)
  BY NoBlockChanges
<1>6. QED
  BY <1>1, <1>2, <1>4, <1>5, BufferGets

LEMMA ConstructBufferKeeps ==
  ASSUME BuffersKept, NEW o \in Buffers, Serial!Construct(o)
  PROVE  BuffersKept'
<1>1. PICK x, u, k, l : x = Serial!Empty(o) /\ u = <<>> /\ OnlyOne(k, buffer, o, x) /\ OnlyOne(l, pending, o, u)
  BY DEF OnlyOne
<1>2. x # NoBuffer /\ BufferIsRight(o, x, block, u) /\ (o \in Growing => x.array = NoBlock)
  BY <1>1, EmptyIsRight
<1>3. buffer[o] = NoBuffer /\ buffer' = k /\ pending' = l /\ block' = block
  BY <1>1 DEF Serial!Construct, Serial!Exists, OnlyOne
<1>4. o \in Growing => ArraysOf(k)[o] = ArraysOf(buffer)[o]
  BY <1>1, <1>2, <1>3, BufferFacts DEF ArraysOf, OnlyOne
<1>5. x \in Serial!View \union {NoBuffer} /\ u \in Seq(Octets)
  BY <1>1, <1>2 DEF BufferIsRight
<1>6. BuffersKeptBy(k, block, l)
  BY <1>1, <1>2, <1>4, <1>5, BufferMovesOn
<1>7. QED
  BY <1>3, <1>6 DEF BuffersKept

LEMMA CopyFixedKeeps ==
  ASSUME BuffersKept, NEW o \in Fixed, NEW p \in Fixed, Serial!CopyFixed(o, p)
  PROVE  BuffersKept'
<1>1. PICK x, u, k, l : /\ x = buffer[p] /\ u = pending[p]
                        /\ OnlyOne(k, buffer, o, x) /\ OnlyOne(l, pending, o, u)
  BY DEF OnlyOne
<1>2. o \in Buffers /\ p \in Buffers /\ o \notin Growing /\ p \notin Growing
  BY BuffersAre DEF Buffers
<1>3. x # NoBuffer /\ buffer' = k /\ pending' = l /\ block' = block
  BY <1>1 DEF Serial!CopyFixed, Serial!Exists, OnlyOne
<1>4. x \in Serial!View /\ u \in Seq(Octets) /\ BufferIsRight(p, x, block, u)
  BY <1>1, <1>2, <1>3, BufferFits
<1>5. BufferIsRight(o, x, block, u)
  <2>1. CellsOf(o, x, block) = CellsOf(p, x, block)
    BY DEF CellsOf
  <2>2. QED
    BY <1>2, <1>4, <2>1 DEF BufferIsRight
<1>6. BuffersKeptBy(k, block, l)
  BY <1>1, <1>2, <1>4, <1>5, BufferMovesOn
<1>7. QED
  BY <1>3, <1>6 DEF BuffersKept

LEMMA PopBufferKeeps ==
  ASSUME BuffersKept, NEW o \in Buffers, Serial!Pop(o)
  PROVE  BuffersKept'
<1>1. PICK y, w, c : y = buffer[o] /\ w = pending[o] /\ c = CellsOf(o, buffer[o], block)
  OBVIOUS
<1>2. PICK x, u, k, l : /\ x = [y EXCEPT !.front = @ + 1] /\ u = Tail(w)
                        /\ OnlyOne(k, buffer, o, x) /\ OnlyOne(l, pending, o, u)
  BY DEF OnlyOne
<1>3. y # NoBuffer /\ y.front < y.rear
  BY <1>1 DEF Serial!Pop, Serial!Exists
<1>4. y \in Serial!View /\ w \in Seq(Octets) /\ BufferIsRight(o, y, block, w)
  BY <1>1, <1>3, BufferFits
<1>5. PICK f \in Nat, r \in Nat, s \in Nat : f = y.front /\ r = y.rear /\ s = y.capacity
  BY <1>4 DEF Serial!View
<1>6. /\ x \in Serial!View /\ x.front = f + 1 /\ x.rear = r /\ x.capacity = s /\ x.array = y.array
  BY <1>2, <1>4, <1>5 DEF Serial!View
<1>7. /\ f < r /\ r <= s /\ c \in [1 .. s -> Serial!Byte] /\ Len(w) = r - f
      /\ \A i \in 1 .. Len(w) : w[i] = c[f + i]
  BY <1>1, <1>3, <1>4, <1>5 DEF BufferIsRight, WindowIs
<1>8. w # <<>> /\ w \in Seq(Octets)
  BY <1>4, <1>7
<1>9. u \in Seq(Octets) /\ Len(u) = Len(w) - 1 /\ \A i \in 1 .. Len(u) : u[i] = w[i + 1]
  BY <1>2, <1>8
<1>10. ASSUME NEW i \in 1 .. Len(u)
       PROVE  u[i] = c[(f + 1) + i]
  <2>1. i + 1 \in 1 .. Len(w)
    BY <1>7, <1>9
  <2>2. w[i + 1] = c[f + (i + 1)]
    BY <1>7, <2>1
  <2>3. f + (i + 1) = (f + 1) + i
    OBVIOUS
  <2>4. u[i] = w[i + 1]
    BY <1>9
  <2>5. QED
    BY <2>2, <2>3, <2>4
<1>11. WindowIs(x, c, u)
  <2>1. x.front <= x.rear /\ x.rear <= x.capacity /\ Len(u) = x.rear - x.front
    BY <1>6, <1>7, <1>9
  <2>2. \A i \in 1 .. Len(u) : u[i] = c[x.front + i]
    BY <1>6, <1>10
  <2>3. QED
    BY <1>6, <1>7, <1>9, <2>1, <2>2 DEF WindowIs
<1>12. BufferIsRight(o, x, block, u)
  BY <1>1, <1>4, <1>5, <1>6, <1>11, OtherWindow
<1>13. buffer' = k /\ pending' = l /\ block' = block
  BY <1>1, <1>2, BufferFacts DEF Serial!Pop, OnlyOne
<1>14. x # NoBuffer /\ (o \in Growing => ArraysOf(k)[o] = ArraysOf(buffer)[o])
  <2>1. x # NoBuffer
    BY <1>6, BuffersAre
  <2>2. k[o] = x
    BY <1>2, BufferFacts DEF OnlyOne
  <2>3. QED
    BY <1>1, <1>3, <1>6, <2>1, <2>2 DEF ArraysOf
<1>15. BuffersKeptBy(k, block, l)
  BY <1>2, <1>6, <1>9, <1>12, <1>14, BufferMovesOn
<1>16. QED
  BY <1>13, <1>15 DEF BuffersKept

LEMMA ClearBufferKeeps ==
  ASSUME BuffersKept, NEW o \in Buffers, Serial!Clear(o)
  PROVE  BuffersKept'
<1>1. PICK y, w : y = buffer[o] /\ w = pending[o]
  OBVIOUS
<1>2. PICK x, u, k, l : /\ x = [[y EXCEPT !.front = 0] EXCEPT !.rear = 0] /\ u = <<>>
                        /\ OnlyOne(k, buffer, o, x) /\ OnlyOne(l, pending, o, u)
  BY DEF OnlyOne
<1>3. y # NoBuffer
  BY <1>1 DEF Serial!Clear, Serial!Exists
<1>4. y \in Serial!View /\ BufferIsRight(o, y, block, w)
  BY <1>1, <1>3, BufferFits
<1>5. x \in Serial!View /\ x.front = 0 /\ x.rear = 0 /\ x.capacity = y.capacity /\ x.array = y.array
  BY <1>2, <1>4 DEF Serial!View
<1>6. PICK s, c : s \in Nat /\ s = y.capacity /\ c = CellsOf(o, y, block)
  BY <1>4 DEF Serial!View
<1>7. c \in [1 .. s -> Serial!Byte]
  BY <1>4, <1>6 DEF BufferIsRight, WindowIs
<1>8. WindowIs(x, c, u)
  BY <1>2, <1>5, <1>6, <1>7 DEF WindowIs
<1>9. BufferIsRight(o, x, block, u)
  BY <1>4, <1>5, <1>6, <1>8, OtherWindow
<1>10. buffer' = k /\ pending' = l /\ block' = block
  BY <1>1, <1>2, BufferFacts DEF Serial!Clear, OnlyOne
<1>11. x # NoBuffer /\ (o \in Growing => ArraysOf(k)[o] = ArraysOf(buffer)[o])
  <2>1. x # NoBuffer
    BY <1>5, BuffersAre
  <2>2. k[o] = x
    BY <1>2, BufferFacts DEF OnlyOne
  <2>3. QED
    BY <1>1, <1>3, <1>5, <2>1, <2>2 DEF ArraysOf
<1>12. u \in Seq(Octets)
  BY <1>2
<1>13. BuffersKeptBy(k, block, l)
  BY <1>2, <1>5, <1>9, <1>11, <1>12, BufferMovesOn
<1>14. QED
  BY <1>10, <1>13 DEF BuffersKept

-----------------------------------------------------------------------------

\* One byte is written behind a window.
LEMMA WindowGrows ==
  ASSUME NEW y, y \in Serial!View, NEW c, NEW w, WindowIs(y, c, w), y.rear < y.capacity,
         NEW e \in Octets, NEW d, d = [c EXCEPT ![y.rear + 1] = e], NEW u, u = Append(w, e),
         NEW x, x.front = y.front, x.rear = y.rear + 1, x.capacity = y.capacity
  PROVE  WindowIs(x, d, u)
<1>1. PICK f \in Nat, r \in Nat, s \in Nat : f = y.front /\ r = y.rear /\ s = y.capacity
  BY DEF Serial!View
<1>2. /\ f <= r /\ r < s /\ c \in [1 .. s -> Serial!Byte]
      /\ w \in Seq(Octets) /\ Len(w) = r - f /\ \A i \in 1 .. Len(w) : w[i] = c[f + i]
  BY <1>1 DEF WindowIs
<1>3. r + 1 \in 1 .. s /\ e \in Serial!Byte
  BY <1>2 DEF Serial!Byte
<1>4. d \in [1 .. s -> Serial!Byte] /\ d[r + 1] = e /\ \A i \in 1 .. s : i # r + 1 => d[i] = c[i]
  BY <1>1, <1>2, <1>3
<1>5. u \in Seq(Octets) /\ Len(u) = (r + 1) - f
  BY <1>2
<1>6. ASSUME NEW i \in 1 .. Len(u)
      PROVE  u[i] = d[f + i]
  <2>1. CASE i = Len(u)
    <3>1. f + i = r + 1 /\ u[i] = e
      BY <1>2, <1>5, <2>1
    <3>2. QED
      BY <1>4, <3>1
  <2>2. CASE i # Len(u)
    <3>1. i \in 1 .. Len(w) /\ u[i] = w[i]
      BY <1>2, <1>5, <2>2
    <3>2. f + i # r + 1 /\ f + i \in 1 .. s
      BY <1>2, <3>1
    <3>3. QED
      BY <1>2, <1>4, <3>1, <3>2
  <2>3. QED
    BY <2>1, <2>2
<1>7. QED
  BY <1>1, <1>2, <1>4, <1>5, <1>6 DEF WindowIs

LEMMA PushFixedKeeps ==
  ASSUME BuffersKept, NEW o \in Buffers, NEW e \in Octets, Serial!PushFixed(o, e)
  PROVE  BuffersKept'
<1>1. PICK y, w : y = buffer[o] /\ w = pending[o]
  OBVIOUS
<1>2. o \in Fixed /\ o \notin Growing /\ y # NoBuffer /\ y.rear < y.capacity
  BY <1>1, BuffersAre DEF Serial!PushFixed, Serial!Written, Serial!Exists
<1>3. y \in Serial!View /\ w \in Seq(Octets) /\ BufferIsRight(o, y, block, w)
  BY <1>1, <1>2, BufferFits
<1>4. PICK c, d : c = y.array /\ d = [c EXCEPT ![y.rear + 1] = e]
  OBVIOUS
<1>5. PICK x, u, k, l : /\ x = [[y EXCEPT !.rear = @ + 1] EXCEPT !.array = d] /\ u = Append(w, e)
                        /\ OnlyOne(k, buffer, o, x) /\ OnlyOne(l, pending, o, u)
  BY DEF OnlyOne
<1>6. c = CellsOf(o, y, block) /\ WindowIs(y, c, w) /\ y.capacity = BufferBytes
  BY <1>2, <1>3, <1>4 DEF CellsOf, BufferIsRight
<1>7. c \in [1 .. BufferBytes -> Serial!Byte] /\ e \in Serial!Byte
  BY <1>6 DEF WindowIs, Serial!Byte
<1>8. d \in [1 .. BufferBytes -> Serial!Byte]
  BY <1>4, <1>7
<1>9. /\ x \in Serial!View /\ x.front = y.front /\ x.rear = y.rear + 1 /\ x.capacity = y.capacity /\ x.array = d
  <2>1. PICK A : A = [1 .. BufferBytes -> Serial!Byte] \union HeapBlocks \union {NoBlock}
    OBVIOUS
  <2>2. Serial!View = [front : Nat, rear : Nat, capacity : Nat, array : A] /\ d \in A
    BY <1>8, <2>1 DEF Serial!View
  <2>3. PICK z : z = [y EXCEPT !.rear = @ + 1]
    OBVIOUS
  <2>4. y \in [front : Nat, rear : Nat, capacity : Nat, array : A]
    BY <1>3, <2>2
  <2>5. /\ z \in [front : Nat, rear : Nat, capacity : Nat, array : A]
        /\ z.front = y.front /\ z.rear = y.rear + 1 /\ z.capacity = y.capacity
    BY <2>3, <2>4
  <2>6. x = [z EXCEPT !.array = d]
    BY <1>5, <2>3
  <2>7. /\ x \in [front : Nat, rear : Nat, capacity : Nat, array : A]
        /\ x.front = z.front /\ x.rear = z.rear /\ x.capacity = z.capacity /\ x.array = d
    BY <2>2, <2>5, <2>6
  <2>8. QED
    BY <2>2, <2>5, <2>7
<1>10. WindowIs(x, d, u)
  BY <1>2, <1>3, <1>4, <1>5, <1>6, <1>9, WindowGrows
<1>11. CellsOf(o, x, block) = d
  BY <1>2, <1>9 DEF CellsOf
<1>12. BufferIsRight(o, x, block, u)
  BY <1>2, <1>6, <1>9, <1>10, <1>11 DEF BufferIsRight
<1>13. buffer' = k
  <2>1. buffer' = [buffer EXCEPT ![o].rear = @ + 1, ![o].array[buffer[o].rear + 1] = e]
    BY <1>2 DEF Serial!PushFixed, Serial!Written
  <2>2. QED
    BY <1>1, <1>3, <1>4, <1>5, <2>1, BufferFacts DEF OnlyOne, Serial!View
<1>14. pending' = l /\ block' = block
  BY <1>1, <1>2, <1>5, BufferFacts DEF Serial!PushFixed, Serial!Written, OnlyOne
<1>15. u \in Seq(Octets)
  BY <1>3, <1>5
<1>16. BuffersKeptBy(k, block, l)
  BY <1>2, <1>5, <1>9, <1>12, <1>15, BufferMovesOn
<1>17. QED
  BY <1>13, <1>14, <1>16 DEF BuffersKept

\* A buffer without a block has no capacity.
LEMMA RoomIsInABlock ==
  ASSUME NEW o \in Growing, NEW y, NEW bl, NEW w, BufferIsRight(o, y, bl, w), y.capacity # 0
  PROVE  /\ y.array \in HeapBlocks /\ y.array # NoBlock /\ bl[y.array].allocated
         /\ CellsOf(o, y, bl) = bl[y.array].bytes
<1>1. CASE y.array = NoBlock
  <2>1. CellsOf(o, y, bl) = <<>>
    BY <1>1, BuffersAre DEF CellsOf
  <2>2. <<>> \in [1 .. y.capacity -> Serial!Byte] /\ y.capacity \in Nat
    BY <2>1 DEF BufferIsRight, WindowIs, Serial!View
  <2>3. 1 .. y.capacity = DOMAIN <<>>
    BY <2>2
  <2>4. 1 \in 1 .. y.capacity
    BY <2>2
  <2>5. QED
    BY <2>3, <2>4
<1>2. CASE y.array # NoBlock
  BY <1>2, BuffersAre DEF BufferIsRight, CellsOf
<1>3. QED
  BY <1>1, <1>2

\* Blocks that are allocated and not the buffer's stay: so do those of the others.
KeepsOthers(a, o, bl, bk) == \A c \in HeapBlocks : bl[c].allocated /\ a[o] # c => bk[c] = bl[c]

LEMMA OthersKeepBlocks ==
  ASSUME NEW bf, NEW bl, NEW pd, AllBuffersRight(bf, bl, pd), OneOwnerEach(ArraysOf(bf), bl),
         NEW o \in Growing, NEW bk, KeepsOthers(ArraysOf(bf), o, bl, bk)
  PROVE  OthersBlocks(bf, o, bl, bk)
<1>1. ASSUME NEW p \in Growing, p # o, bf[p] # NoBuffer, bf[p].array # NoBlock
      PROVE  bk[bf[p].array] = bl[bf[p].array]
  <2>1. BufferIsRight(p, bf[p], bl, pd[p])
    BY <1>1 DEF AllBuffersRight, Buffers
  <2>2. PICK c : c = bf[p].array
    OBVIOUS
  <2>3. c \in HeapBlocks /\ bl[c].allocated
    BY <1>1, <2>1, <2>2 DEF BufferIsRight
  <2>4. ArraysOf(bf)[p] = c /\ c # NoBlock
    BY <1>1, <2>2 DEF ArraysOf
  <2>5. ArraysOf(bf)[o] # c
    BY <1>1, <2>4 DEF OneOwnerEach
  <2>6. QED
    BY <2>2, <2>3, <2>5 DEF KeepsOthers
<1>2. QED
  BY <1>1 DEF OthersBlocks, SameBlock

LEMMA PushGrowingKeeps ==
  ASSUME BuffersKept, NEW o \in Buffers, NEW e \in Octets, Serial!PushGrowing(o, e)
  PROVE  BuffersKept'
<1>1. PICK y, w, bf, bl, pd : y = buffer[o] /\ w = pending[o] /\ bf = buffer /\ bl = block /\ pd = pending
  OBVIOUS
<1>2. o \in Growing /\ o \notin Fixed /\ y # NoBuffer /\ y.rear < y.capacity
  BY <1>1, BuffersAre DEF Serial!PushGrowing, Serial!Written, Serial!Exists
<1>3. y \in Serial!View /\ w \in Seq(Octets) /\ BufferIsRight(o, y, bl, w)
  BY <1>1, <1>2, BufferFits
<1>4. PICK r \in Nat, s \in Nat : r = y.rear /\ s = y.capacity
  BY <1>3 DEF Serial!View
<1>5. y.capacity # 0
  BY <1>2, <1>4
<1>6. PICK b, c : b = y.array /\ c = bl[b].bytes
  OBVIOUS
<1>7. b \in HeapBlocks /\ b # NoBlock /\ bl[b].allocated /\ CellsOf(o, y, bl) = c
  BY <1>2, <1>3, <1>5, <1>6, RoomIsInABlock
<1>8. bl \in [HeapBlocks -> BlockRecords] /\ OneOwnerEach(ArraysOf(bf), bl) /\ AllBuffersRight(bf, bl, pd)
  BY <1>1, BufferFacts
<1>9. PICK d, x, u, k, l, bk :
        /\ d = [c EXCEPT ![y.rear + 1] = e] /\ x = [y EXCEPT !.rear = @ + 1] /\ u = Append(w, e)
        /\ OnlyOne(k, bf, o, x) /\ OnlyOne(l, pd, o, u)
        /\ bk = [bl EXCEPT ![b] = [bl[b] EXCEPT !.bytes = d]]
  BY DEF OnlyOne
<1>10. WindowIs(y, c, w)
  BY <1>3, <1>7 DEF BufferIsRight
<1>11. c \in [1 .. s -> Serial!Byte] /\ e \in Serial!Byte
  BY <1>4, <1>10 DEF WindowIs, Serial!Byte
<1>12. d \in [1 .. s -> Serial!Byte]
  BY <1>9, <1>11
<1>13. d \in Seq(Serial!Byte)
  BY <1>12
<1>14. bk \in [HeapBlocks -> BlockRecords] /\ bk[b].allocated /\ bk[b].bytes = d
       /\ \A a \in HeapBlocks : a # b => bk[a] = bl[a]
  <2>1. PICK q, t : q = bl[b] /\ t = [q EXCEPT !.bytes = d]
    OBVIOUS
  <2>2. q \in BlockRecords /\ q.allocated
    BY <1>7, <1>8, <2>1
  <2>3. t \in BlockRecords /\ t.allocated /\ t.bytes = d
    BY <1>13, <2>1, <2>2 DEF BlockRecords
  <2>4. bk = [bl EXCEPT ![b] = t]
    BY <1>9, <2>1
  <2>5. QED
    BY <1>7, <1>8, <2>3, <2>4
<1>15. /\ x \in Serial!View /\ x.front = y.front /\ x.rear = y.rear + 1 /\ x.capacity = y.capacity /\ x.array = b
  BY <1>3, <1>6, <1>9 DEF Serial!View
<1>16. WindowIs(x, d, u)
  BY <1>2, <1>3, <1>9, <1>10, <1>15, WindowGrows
<1>17. CellsOf(o, x, bk) = d
  BY <1>2, <1>7, <1>14, <1>15 DEF CellsOf
<1>18. BufferIsRight(o, x, bk, u)
  BY <1>2, <1>7, <1>14, <1>15, <1>16, <1>17 DEF BufferIsRight
<1>19. ArraysOf(bf)[o] = b
  BY <1>1, <1>2, <1>6 DEF ArraysOf
<1>20. OthersBlocks(bf, o, bl, bk)
  <2>1. KeepsOthers(ArraysOf(bf), o, bl, bk)
    BY <1>14, <1>19 DEF KeepsOthers
  <2>2. QED
    BY <1>2, <1>8, <2>1, OthersKeepBlocks
<1>21. OneOwnerEach(ArraysOf(k), bk)
  <2>1. bf \in [Buffers -> Serial!View \union {NoBuffer}]
    BY <1>1, BufferFacts
  <2>2. k[o] = x /\ x # NoBuffer /\ \A p \in Growing : p # o => k[p] = bf[p]
    BY <1>9, <1>15, <2>1, BuffersAre DEF OnlyOne, Buffers
  <2>3. ASSUME NEW p \in Growing
        PROVE  ArraysOf(k)[p] = ArraysOf(bf)[p]
    <3>1. CASE p = o
      BY <1>2, <1>15, <1>19, <2>2, <3>1 DEF ArraysOf
    <3>2. CASE p # o
      BY <2>2, <3>2 DEF ArraysOf
    <3>3. QED
      BY <3>1, <3>2
  <2>4. \A a \in HeapBlocks : bk[a].allocated => bl[a].allocated
    BY <1>7, <1>14
  <2>5. QED
    BY <1>8, <2>3, <2>4, OwnersStayWithBlocks
<1>22. u \in Seq(Octets)
  BY <1>3, <1>9
<1>23. BuffersKeptBy(k, bk, l)
  <2>1. OthersBlocks(buffer, o, block, bk) /\ OnlyOne(k, buffer, o, x) /\ OnlyOne(l, pending, o, u)
    BY <1>1, <1>9, <1>20
  <2>2. QED
    BY <1>14, <1>15, <1>18, <1>21, <1>22, <2>1, BufferGets
<1>24. /\ buffer' = [buffer EXCEPT ![o].rear = @ + 1]
       /\ block' = [block EXCEPT ![buffer[o].array].bytes[buffer[o].rear + 1] = e]
       /\ pending' = [pending EXCEPT ![o] = Append(@, e)]
  BY <1>2 DEF Serial!PushGrowing, Serial!Written
<1>25. buffer' = k /\ pending' = l
  BY <1>1, <1>9, <1>24, BufferFacts DEF OnlyOne
<1>26. block' = bk
  BY <1>1, <1>6, <1>9, <1>24
<1>27. QED
  BY <1>23, <1>25, <1>26 DEF BuffersKept

-----------------------------------------------------------------------------

\* The buffer o has the block b from now on, or none; what was its block is free.
LEMMA OwnerChanges ==
  ASSUME NEW a, NEW bl, OneOwnerEach(a, bl), NEW o \in Growing, NEW f, NEW b, f[o] = b,
         \A p \in Growing : p # o => f[p] = a[p] /\ (b = NoBlock \/ a[p] # b),
         NEW bk, \A c \in HeapBlocks : bk[c].allocated => c = b \/ (bl[c].allocated /\ c # a[o])
  PROVE  OneOwnerEach(f, bk)
<1>1. ASSUME NEW c \in HeapBlocks, bk[c].allocated
      PROVE  \E p \in Growing : f[p] = c
  <2>1. CASE c = b
    BY <2>1
  <2>2. CASE bl[c].allocated /\ c # a[o]
    <3>1. PICK p \in Growing : a[p] = c
      BY <2>2 DEF OneOwnerEach
    <3>2. p # o
      BY <2>2, <3>1
    <3>3. QED
      BY <3>1, <3>2
  <2>3. QED
    BY <1>1, <2>1, <2>2
<1>2. ASSUME NEW p \in Growing, NEW q \in Growing, f[p] = f[q], f[p] # NoBlock
      PROVE  p = q
  <2>1. CASE p = o
    BY <1>2, <2>1
  <2>2. CASE q = o
    BY <1>2, <2>2
  <2>3. CASE p # o /\ q # o
    BY <1>2, <2>3 DEF OneOwnerEach
  <2>4. QED
    BY <2>1, <2>2, <2>3
<1>3. QED
  BY <1>1, <1>2 DEF OneOwnerEach

LEMMA DestroyBufferKeeps ==
  ASSUME BuffersKept, NEW o \in Buffers, Serial!Destroy(o)
  PROVE  BuffersKept'
<1>1. PICK y, bf, bl, pd : y = buffer[o] /\ bf = buffer /\ bl = block /\ pd = pending
  OBVIOUS
<1>2. PICK x, u, k, l, bk :
        /\ x = NoBuffer /\ u = <<>> /\ OnlyOne(k, bf, o, x) /\ OnlyOne(l, pd, o, u)
        /\ bk = [c \in HeapBlocks |-> IF o \in Growing /\ c = y.array THEN Serial!Deallocated ELSE bl[c]]
  BY DEF OnlyOne
<1>3. y # NoBuffer /\ buffer' = k /\ block' = bk /\ pending' = l
  BY <1>1, <1>2 DEF Serial!Destroy, Serial!Exists, OnlyOne
<1>4. /\ bl \in [HeapBlocks -> BlockRecords] /\ OneOwnerEach(ArraysOf(bf), bl) /\ AllBuffersRight(bf, bl, pd)
      /\ bf \in [Buffers -> Serial!View \union {NoBuffer}]
  BY <1>1, BufferFacts
<1>5. Serial!Deallocated \in BlockRecords /\ Serial!Deallocated.allocated = FALSE
  BY DEF Serial!Deallocated, BlockRecords
<1>6. bk \in [HeapBlocks -> BlockRecords]
  BY <1>2, <1>4, <1>5
<1>7. k[o] = NoBuffer /\ \A p \in Buffers : p # o => k[p] = bf[p]
  BY <1>2, <1>4 DEF OnlyOne
<1>8. OthersBlocks(bf, o, bl, bk) /\ OneOwnerEach(ArraysOf(k), bk)
  <2>1. CASE o \in Growing
    <3>1. ArraysOf(bf)[o] = y.array
      BY <1>1, <1>3, <2>1 DEF ArraysOf
    <3>2. KeepsOthers(ArraysOf(bf), o, bl, bk)
      BY <1>2, <3>1 DEF KeepsOthers
    <3>3. OthersBlocks(bf, o, bl, bk)
      BY <1>4, <2>1, <3>2, OthersKeepBlocks
    <3>4. PICK a, f, b : a = ArraysOf(bf) /\ f = ArraysOf(k) /\ b = NoBlock
      OBVIOUS
    <3>5. f[o] = b /\ OneOwnerEach(a, bl)
      BY <1>4, <1>7, <2>1, <3>4 DEF ArraysOf
    <3>6. \A p \in Growing : p # o => f[p] = a[p] /\ (b = NoBlock \/ a[p] # b)
      BY <1>7, <3>4 DEF ArraysOf, Buffers
    <3>7. \A c \in HeapBlocks : bk[c].allocated => c = b \/ (bl[c].allocated /\ c # a[o])
      <4>1. ASSUME NEW c \in HeapBlocks, bk[c].allocated
            PROVE  bl[c].allocated /\ c # a[o]
        <5>1. CASE c = y.array
          <6>1. bk[c] = Serial!Deallocated
            BY <1>2, <2>1, <5>1
          <6>2. QED
            BY <1>5, <4>1, <6>1
        <5>2. CASE c # y.array
          BY <1>2, <3>1, <3>4, <4>1, <5>2
        <5>3. QED
          BY <5>1, <5>2
      <4>2. QED
        BY <4>1
    <3>8. OneOwnerEach(f, bk)
      BY <2>1, <3>5, <3>6, <3>7, OwnerChanges
    <3>9. QED
      BY <3>3, <3>4, <3>8
  <2>2. CASE o \notin Growing
    <3>1. bk = bl
      <4>1. \A c \in HeapBlocks : bk[c] = bl[c]
        BY <1>2, <2>2
      <4>2. QED
        BY <1>4, <1>6, <4>1
    <3>2. \A p \in Growing : ArraysOf(k)[p] = ArraysOf(bf)[p]
      BY <1>7, <2>2 DEF ArraysOf, Buffers
    <3>3. OneOwnerEach(ArraysOf(k), bk)
      BY <1>4, <3>1, <3>2, OwnersStayWithBlocks
    <3>4. QED
      BY <3>1, <3>3, NoBlockChanges
  <2>3. QED
    BY <2>1, <2>2
<1>9. BuffersKeptBy(k, bk, l)
  <2>1. OthersBlocks(buffer, o, block, bk) /\ OnlyOne(k, buffer, o, x) /\ OnlyOne(l, pending, o, u)
    BY <1>1, <1>2, <1>8
  <2>2. u \in Seq(Octets) /\ x \in Serial!View \union {NoBuffer} /\ x = NoBuffer
    BY <1>2
  <2>3. QED
    BY <1>6, <1>8, <2>1, <2>2, BufferGets
<1>10. QED
  BY <1>3, <1>9 DEF BuffersKept

LEMMA CellsAre ==
  ASSUME NEW o \in Buffers
  PROVE  Serial!Cells(o) = CellsOf(o, buffer[o], block)
BY DEF Serial!Cells, CellsOf

\* Cells g + 1 .. h of some, in as many as cap, hold a window that lies between.
LEMMA WindowIsCarried ==
  ASSUME NEW y, y \in Serial!View, NEW c, NEW w, WindowIs(y, c, w),
         NEW g \in Nat, NEW h \in Nat, g <= y.front, y.rear <= h, h <= y.capacity,
         NEW cap \in Nat, h <= cap, NEW d, d = Serial!Carried(c, g, h, cap),
         NEW x, x.front = y.front, x.rear = y.rear, x.capacity = cap
  PROVE  d \in Seq(Serial!Byte) /\ WindowIs(x, d, w)
<1>1. PICK f \in Nat, r \in Nat, s \in Nat : f = y.front /\ r = y.rear /\ s = y.capacity
  BY DEF Serial!View
<1>2. /\ f <= r /\ r <= h /\ h <= s /\ g <= f /\ h <= cap /\ c \in [1 .. s -> Serial!Byte]
      /\ w \in Seq(Octets) /\ Len(w) = r - f /\ \A i \in 1 .. Len(w) : w[i] = c[f + i]
  BY <1>1 DEF WindowIs
<1>3. d = [i \in 1 .. cap |-> IF i \in g + 1 .. h THEN c[i] ELSE Garbage]
  BY DEF Serial!Carried
<1>4. d \in [1 .. cap -> Serial!Byte]
  <2>1. ASSUME NEW i \in 1 .. cap
        PROVE  (IF i \in g + 1 .. h THEN c[i] ELSE Garbage) \in Serial!Byte
    <3>1. CASE i \in g + 1 .. h
      <4>1. i \in 1 .. s
        BY <1>2, <3>1
      <4>2. QED
        BY <1>2, <3>1, <4>1
    <3>2. CASE i \notin g + 1 .. h
      BY <3>2 DEF Serial!Byte
    <3>3. QED
      BY <3>1, <3>2
  <2>2. QED
    BY <1>3, <2>1
<1>5. d \in Seq(Serial!Byte)
  BY <1>4
<1>6. ASSUME NEW i \in 1 .. Len(w)
      PROVE  w[i] = d[f + i]
  <2>1. f + i \in g + 1 .. h /\ f + i \in 1 .. cap
    BY <1>2
  <2>2. QED
    BY <1>2, <1>3, <2>1
<1>7. QED
  BY <1>1, <1>2, <1>4, <1>5, <1>6 DEF WindowIs

\* A buffer o, new or not, gets a block b that nobody else has, with the cells d.
LEMMA BlockIsTaken ==
  ASSUME BuffersKept, NEW o \in Growing, NEW b \in HeapBlocks,
         ~block[b].allocated \/ b = ArraysOf(buffer)[o],
         NEW x \in Serial!View, x.array = b, NEW d \in Seq(Serial!Byte), NEW u, WindowIs(x, d, u),
         NEW bk \in [HeapBlocks -> BlockRecords], bk[b] = Serial!Allocated(d),
         \A c \in HeapBlocks : c # b /\ c # ArraysOf(buffer)[o] => bk[c] = block[c],
         ArraysOf(buffer)[o] # b /\ ArraysOf(buffer)[o] # NoBlock => bk[ArraysOf(buffer)[o]] = Serial!Deallocated,
         NEW k, OnlyOne(k, buffer, o, x), NEW l, OnlyOne(l, pending, o, u)
  PROVE  BuffersKeptBy(k, bk, l)
<1>1. PICK bf, bl, pd, a, f : bf = buffer /\ bl = block /\ pd = pending /\ a = ArraysOf(bf) /\ f = ArraysOf(k)
  OBVIOUS
<1>2. /\ bl \in [HeapBlocks -> BlockRecords] /\ OneOwnerEach(a, bl) /\ AllBuffersRight(bf, bl, pd)
      /\ bf \in [Buffers -> Serial!View \union {NoBuffer}]
  BY <1>1, BufferFacts
<1>3. bk[b].allocated /\ bk[b].bytes = d /\ b # NoBlock
  BY BuffersAre DEF Serial!Allocated
<1>4. o \in Buffers /\ o \notin Fixed
  BY BuffersAre DEF Buffers
<1>5. BufferIsRight(o, x, bk, u)
  <2>1. CellsOf(o, x, bk) = d
    BY <1>3, <1>4 DEF CellsOf
  <2>2. QED
    BY <1>3, <1>4, <2>1 DEF BufferIsRight
<1>6. \A p \in Growing : p # o /\ a[p] # NoBlock => a[p] \in HeapBlocks /\ bl[a[p]].allocated
  BY <1>1, <1>2 DEF AllBuffersRight, BufferIsRight, ArraysOf, Buffers
<1>7. \A p \in Growing : p # o => a[p] # b
  BY <1>1, <1>2, <1>3, <1>6 DEF OneOwnerEach
<1>8. OthersBlocks(bf, o, bl, bk)
  <2>1. \A c \in HeapBlocks : bl[c].allocated /\ a[o] # c => bk[c] = bl[c]
    BY <1>1
  <2>2. KeepsOthers(ArraysOf(bf), o, bl, bk)
    BY <1>1, <2>1 DEF KeepsOthers
  <2>3. AllBuffersRight(bf, bl, pd) /\ OneOwnerEach(ArraysOf(bf), bl)
    BY <1>1, <1>2
  <2>4. QED
    BY <2>2, <2>3, OthersKeepBlocks
<1>9. k[o] = x /\ x # NoBuffer /\ \A p \in Buffers : p # o => k[p] = bf[p]
  BY <1>1, <1>2, <1>4, BuffersAre DEF OnlyOne
<1>10. f[o] = b /\ \A p \in Growing : p # o => f[p] = a[p]
  BY <1>1, <1>9 DEF ArraysOf, Buffers
<1>11. ASSUME NEW c \in HeapBlocks, bk[c].allocated
       PROVE  c = b \/ (bl[c].allocated /\ c # a[o])
  <2>1. CASE c = a[o] /\ c # b
    <3>1. bk[c] = Serial!Deallocated
      BY <1>1, <2>1, BuffersAre
    <3>2. QED
      BY <1>11, <3>1 DEF Serial!Deallocated
  <2>2. CASE c # a[o] /\ c # b
    BY <1>1, <1>11, <2>2
  <2>3. QED
    BY <2>1, <2>2
<1>12. OneOwnerEach(f, bk)
  <2>1. \A p \in Growing : p # o => f[p] = a[p] /\ (b = NoBlock \/ a[p] # b)
    BY <1>7, <1>10
  <2>2. QED
    BY <1>2, <1>10, <1>11, <2>1, OwnerChanges
<1>13. u \in Seq(Octets)
  BY DEF WindowIs
<1>14. OthersBlocks(buffer, o, block, bk) /\ OneOwnerEach(ArraysOf(k), bk) /\ x \in Serial!View \union {NoBuffer}
  BY <1>1, <1>8, <1>12
<1>15. QED
  BY <1>4, <1>5, <1>13, <1>14, BufferGets

LEMMA CopyGrowingKeeps ==
  ASSUME BuffersKept, NEW o \in Growing, NEW p \in Growing, Serial!CopyGrowing(o, p)
  PROVE  BuffersKept'
<1>1. PICK b \in Serial!FreeBlocks :
        /\ buffer' = [buffer EXCEPT ![o] = [buffer[p] EXCEPT !.array = b]]
        /\ block' = [block EXCEPT ![b] =
             Serial!Allocated(Serial!Carried(Serial!Cells(p), buffer[p].front, buffer[p].rear, buffer[p].capacity))]
  BY DEF Serial!CopyGrowing
<1>2. buffer[o] = NoBuffer /\ buffer[p] # NoBuffer /\ pending' = [pending EXCEPT ![o] = pending[p]]
  BY DEF Serial!CopyGrowing, Serial!Exists
<1>3. b \in HeapBlocks /\ ~block[b].allocated /\ b # NoBlock /\ p \in Buffers /\ o \in Buffers
  BY BuffersAre DEF Serial!FreeBlocks, Buffers
<1>4. PICK y, u, c : y = buffer[p] /\ u = pending[p] /\ c = Serial!Cells(p)
  OBVIOUS
<1>5. y \in Serial!View /\ u \in Seq(Octets) /\ WindowIs(y, c, u)
  BY <1>2, <1>3, <1>4, BufferFits, CellsAre DEF BufferIsRight
<1>6. PICK f \in Nat, r \in Nat, s \in Nat : f = y.front /\ r = y.rear /\ s = y.capacity
  BY <1>5 DEF Serial!View
<1>7. PICK d, x, e, bk, k, l :
        /\ d = Serial!Carried(c, f, r, s) /\ x = [y EXCEPT !.array = b] /\ e = Serial!Allocated(d)
        /\ bk = [block EXCEPT ![b] = e] /\ OnlyOne(k, buffer, o, x) /\ OnlyOne(l, pending, o, u)
  BY DEF OnlyOne
<1>8. x \in Serial!View /\ x.front = y.front /\ x.rear = y.rear /\ x.capacity = s /\ x.array = b
  <2>1. PICK A : A = [1 .. BufferBytes -> Serial!Byte] \union HeapBlocks \union {NoBlock}
    OBVIOUS
  <2>2. Serial!View = [front : Nat, rear : Nat, capacity : Nat, array : A] /\ b \in A
    BY <1>3, <2>1 DEF Serial!View
  <2>3. QED
    BY <1>5, <1>6, <1>7, <2>2
<1>9. f <= r /\ r <= s
  BY <1>5, <1>6 DEF WindowIs
<1>10. d \in Seq(Serial!Byte) /\ WindowIs(x, d, u)
  <2>1. f <= y.front /\ y.rear <= r /\ r <= y.capacity
    BY <1>6, <1>9
  <2>2. QED
    BY <1>5, <1>7, <1>8, <1>9, <2>1, WindowIsCarried
<1>11. /\ bk \in [HeapBlocks -> BlockRecords] /\ bk[b] = e
       /\ \A i \in HeapBlocks : i # b => bk[i] = block[i]
  <2>1. e \in BlockRecords
    BY <1>7, <1>10 DEF Serial!Allocated, BlockRecords
  <2>2. QED
    BY <1>3, <1>7, <2>1, BufferFacts
<1>12. ArraysOf(buffer)[o] = NoBlock
  BY <1>2 DEF ArraysOf
<1>13. BuffersKeptBy(k, bk, l)
  <2>1. bk[b] = Serial!Allocated(d) /\ \A i \in HeapBlocks : i # b /\ i # ArraysOf(buffer)[o] => bk[i] = block[i]
    BY <1>7, <1>11
  <2>2. ArraysOf(buffer)[o] # b /\ ArraysOf(buffer)[o] # NoBlock => bk[ArraysOf(buffer)[o]] = Serial!Deallocated
    BY <1>12
  <2>3. ~block[b].allocated \/ b = ArraysOf(buffer)[o]
    BY <1>3
  <2>4. OnlyOne(k, buffer, o, x) /\ OnlyOne(l, pending, o, u)
    BY <1>7
  <2>5. x \in Serial!View /\ x.array = b /\ b \in HeapBlocks
    BY <1>3, <1>8
  <2>6. QED
    BY <1>10, <1>11, <2>1, <2>2, <2>3, <2>4, <2>5, BlockIsTaken
<1>14. buffer' = k /\ block' = bk /\ pending' = l
  BY <1>1, <1>2, <1>4, <1>6, <1>7 DEF OnlyOne
<1>15. QED
  BY <1>13, <1>14 DEF BuffersKept

LEMMA ReserveBufferKeeps ==
  ASSUME BuffersKept, NEW o \in Growing, NEW cap \in 1 .. BufferBytes, Serial!Reserve(o, cap)
  PROVE  BuffersKept'
<1>1. PICK b \in Serial!FreeBlocks \union ({buffer[o].array} \ {NoBlock}) :
        /\ buffer' = [buffer EXCEPT ![o].array = b, ![o].capacity = cap]
        /\ block' = [c \in HeapBlocks |->
             IF c = b THEN Serial!Allocated(Serial!Carried(Serial!Cells(o), 0, buffer[o].capacity, cap))
             ELSE IF c = buffer[o].array THEN Serial!Deallocated ELSE block[c]]
  BY DEF Serial!Reserve
<1>2. buffer[o] # NoBuffer /\ buffer[o].capacity < cap /\ pending' = pending /\ o \in Buffers
  BY DEF Serial!Reserve, Serial!Exists, Buffers
<1>3. PICK y, u, c : y = buffer[o] /\ u = pending[o] /\ c = Serial!Cells(o)
  OBVIOUS
<1>4. y \in Serial!View /\ u \in Seq(Octets) /\ WindowIs(y, c, u) /\ BufferIsRight(o, y, block, u)
  BY <1>2, <1>3, BufferFits, CellsAre DEF BufferIsRight
<1>5. PICK f \in Nat, r \in Nat, s \in Nat : f = y.front /\ r = y.rear /\ s = y.capacity
  BY <1>4 DEF Serial!View
<1>6. ArraysOf(buffer)[o] = y.array
  BY <1>2, <1>3 DEF ArraysOf
<1>7. b \in HeapBlocks /\ b # NoBlock /\ (~block[b].allocated \/ b = ArraysOf(buffer)[o])
  <2>1. CASE b \in Serial!FreeBlocks
    BY <2>1, BuffersAre DEF Serial!FreeBlocks
  <2>2. CASE b = y.array /\ b # NoBlock
    BY <1>4, <1>6, <2>2 DEF BufferIsRight
  <2>3. QED
    BY <1>3, <2>1, <2>2
<1>8. PICK d, x, e, k, l :
        /\ d = Serial!Carried(c, 0, s, cap) /\ x = [[y EXCEPT !.array = b] EXCEPT !.capacity = cap]
        /\ e = Serial!Allocated(d)
        /\ OnlyOne(k, buffer, o, x) /\ OnlyOne(l, pending, o, u)
  BY DEF OnlyOne
<1>9. x \in Serial!View /\ x.front = y.front /\ x.rear = y.rear /\ x.capacity = cap /\ x.array = b
  <2>1. PICK A : A = [1 .. BufferBytes -> Serial!Byte] \union HeapBlocks \union {NoBlock}
    OBVIOUS
  <2>2. Serial!View = [front : Nat, rear : Nat, capacity : Nat, array : A] /\ b \in A /\ cap \in Nat
    BY <1>7, <2>1 DEF Serial!View
  <2>3. PICK z : z = [y EXCEPT !.array = b]
    OBVIOUS
  <2>4. y \in [front : Nat, rear : Nat, capacity : Nat, array : A]
    BY <1>4, <2>2
  <2>5. /\ z \in [front : Nat, rear : Nat, capacity : Nat, array : A]
        /\ z.front = y.front /\ z.rear = y.rear /\ z.array = b
    BY <2>2, <2>3, <2>4
  <2>6. x = [z EXCEPT !.capacity = cap]
    BY <1>8, <2>3
  <2>7. QED
    BY <2>2, <2>5, <2>6
<1>10. f <= r /\ r <= s /\ s < cap /\ cap \in Nat
  BY <1>2, <1>3, <1>4, <1>5 DEF WindowIs
<1>11. d \in Seq(Serial!Byte) /\ WindowIs(x, d, u)
  <2>1. PICK g \in Nat : g = 0
    OBVIOUS
  <2>2. g <= y.front /\ y.rear <= s /\ s <= y.capacity /\ s <= cap
    BY <1>5, <1>10, <2>1
  <2>3. d = Serial!Carried(c, g, s, cap)
    BY <1>8, <2>1
  <2>4. y \in Serial!View /\ WindowIs(y, c, u) /\ cap \in Nat
    BY <1>4, <1>10
  <2>5. x.front = y.front /\ x.rear = y.rear /\ x.capacity = cap
    BY <1>9
  <2>6. QED
    BY <2>2, <2>3, <2>4, <2>5, WindowIsCarried
<1>12. PICK bk : bk = [i \in HeapBlocks |-> IF i = b THEN e ELSE IF i = y.array THEN Serial!Deallocated ELSE block[i]]
  OBVIOUS
<1>13. e \in BlockRecords /\ Serial!Deallocated \in BlockRecords
  BY <1>8, <1>11 DEF Serial!Allocated, Serial!Deallocated, BlockRecords
<1>14. bk \in [HeapBlocks -> BlockRecords] /\ bk[b] = e
  BY <1>7, <1>12, <1>13, BufferFacts
<1>15. BuffersKeptBy(k, bk, l)
  <2>1. bk[b] = Serial!Allocated(d) /\ \A i \in HeapBlocks : i # b /\ i # ArraysOf(buffer)[o] => bk[i] = block[i]
    BY <1>6, <1>8, <1>12, <1>14
  <2>2. ArraysOf(buffer)[o] # b /\ ArraysOf(buffer)[o] # NoBlock => bk[ArraysOf(buffer)[o]] = Serial!Deallocated
    <3>1. y.array # NoBlock => y.array \in HeapBlocks
      BY <1>4 DEF BufferIsRight
    <3>2. QED
      BY <1>6, <1>12, <3>1
  <2>3. OnlyOne(k, buffer, o, x) /\ OnlyOne(l, pending, o, u)
    BY <1>8
  <2>4. x \in Serial!View /\ x.array = b /\ b \in HeapBlocks
    BY <1>7, <1>9
  <2>5. QED
    BY <1>7, <1>11, <1>14, <2>1, <2>2, <2>3, <2>4, BlockIsTaken
<1>16. buffer' = k /\ block' = bk /\ pending' = l
  <2>1. block' = bk
    BY <1>1, <1>3, <1>5, <1>8, <1>12
  <2>2. pending' = l
    BY <1>2, <1>3, <1>8, BufferFacts DEF OnlyOne
  <2>3. buffer' = k
    BY <1>1, <1>2, <1>3, <1>8, BufferFacts DEF OnlyOne
  <2>4. QED
    BY <2>1, <2>2, <2>3
<1>17. QED
  BY <1>15, <1>16 DEF BuffersKept

LEMMA MoveGrowingKeeps ==
  ASSUME BuffersKept, NEW o \in Growing, NEW p \in Growing, Serial!MoveGrowing(o, p)
  PROVE  BuffersKept'
<1>1. PICK y, u, z, bf, bl, pd :
        y = buffer[p] /\ u = pending[p] /\ z = Serial!Empty(p) /\ bf = buffer /\ bl = block /\ pd = pending
  OBVIOUS
<1>2. /\ bf[o] = NoBuffer /\ y # NoBuffer /\ o # p /\ o \in Buffers /\ p \in Buffers
      /\ o \notin Fixed /\ p \notin Fixed
  BY <1>1, BuffersAre DEF Serial!MoveGrowing, Serial!Exists, Buffers
<1>3. /\ buffer' = [buffer EXCEPT ![o] = buffer[p], ![p] = Serial!Empty(p)] /\ block' = block
      /\ pending' = [pending EXCEPT ![o] = pending[p], ![p] = <<>>]
  BY DEF Serial!MoveGrowing
<1>4. /\ BuffersTyped(bf, bl, pd) /\ AllBuffersRight(bf, bl, pd) /\ OneOwnerEach(ArraysOf(bf), bl)
      /\ bf \in [Buffers -> Serial!View \union {NoBuffer}] /\ bl \in [HeapBlocks -> BlockRecords]
  BY <1>1, BufferFacts
<1>5. y \in Serial!View /\ u \in Seq(Octets) /\ BufferIsRight(p, y, bl, u)
  BY <1>1, <1>2, BufferFits
<1>6. BufferIsRight(o, y, bl, u)
  <2>1. CellsOf(o, y, bl) = CellsOf(p, y, bl)
    BY <1>2 DEF CellsOf
  <2>2. QED
    BY <1>2, <1>5, <2>1 DEF BufferIsRight
<1>7. PICK m, n : OnlyOne(m, bf, o, y) /\ OnlyOne(n, pd, o, u)
  BY DEF OnlyOne
<1>8. BuffersTyped(m, bl, n) /\ AllBuffersRight(m, bl, n)
  <2>1. y \in Serial!View \union {NoBuffer} /\ OthersBlocks(bf, o, bl, bl)
    BY <1>5, NoBlockChanges
  <2>2. QED
    BY <1>2, <1>4, <1>5, <1>6, <1>7, <2>1, OneBufferKeeps
<1>9. PICK w, k, l : w = <<>> /\ OnlyOne(k, m, p, z) /\ OnlyOne(l, n, p, w)
  BY DEF OnlyOne
<1>10. z # NoBuffer /\ BufferIsRight(p, z, bl, w) /\ z.array = NoBlock /\ z \in Serial!View /\ w \in Seq(Octets)
  BY <1>1, <1>2, <1>9, EmptyIsRight DEF BufferIsRight
<1>11. BuffersTyped(k, bl, l) /\ AllBuffersRight(k, bl, l)
  <2>1. z \in Serial!View \union {NoBuffer} /\ OthersBlocks(m, p, bl, bl)
    BY <1>10, NoBlockChanges
  <2>2. QED
    BY <1>2, <1>4, <1>8, <1>9, <1>10, <2>1, OneBufferKeeps
<1>12. /\ k[o] = y /\ k[p] = z /\ \A q \in Buffers : q # o /\ q # p => k[q] = bf[q]
  BY <1>2, <1>4, <1>5, <1>7, <1>9 DEF OnlyOne
<1>13. PICK a, f : a = ArraysOf(bf) /\ f = ArraysOf(k)
  OBVIOUS
<1>14. /\ f[o] = a[p] /\ f[p] = NoBlock /\ a[o] = NoBlock
       /\ \A q \in Growing : q # o /\ q # p => f[q] = a[q]
  BY <1>1, <1>2, <1>10, <1>12, <1>13 DEF ArraysOf, Buffers
<1>15. OneOwnerEach(f, bl)
  <2>1. ASSUME NEW c \in HeapBlocks, bl[c].allocated
        PROVE  \E q \in Growing : f[q] = c
    <3>1. PICK q \in Growing : a[q] = c
      BY <1>4, <1>13, <2>1 DEF OneOwnerEach
    <3>2. q # o
      BY <1>14, <3>1, BuffersAre
    <3>3. QED
      BY <1>14, <3>1, <3>2
  <2>2. \A g, h \in Growing : a[g] = a[h] /\ a[g] # NoBlock => g = h
    BY <1>4, <1>13 DEF OneOwnerEach
  <2>3. ASSUME NEW g \in Growing, NEW h \in Growing, f[g] = f[h], f[g] # NoBlock
        PROVE  g = h
    <3>1. g # p /\ h # p
      BY <1>14, <2>3
    <3>2. CASE g = o /\ h # o
      BY <1>14, <2>2, <2>3, <3>1, <3>2
    <3>3. CASE h = o /\ g # o
      BY <1>14, <2>2, <2>3, <3>1, <3>3
    <3>4. CASE g # o /\ h # o
      BY <1>14, <2>2, <2>3, <3>1, <3>4
    <3>5. QED
      BY <3>2, <3>3, <3>4
  <2>4. QED
    BY <2>1, <2>3 DEF OneOwnerEach
<1>16. buffer' = k /\ block' = bl /\ pending' = l
  BY <1>1, <1>3, <1>7, <1>9 DEF OnlyOne
<1>17. QED
  BY <1>11, <1>13, <1>15, <1>16 DEF BuffersKept, BuffersKeptBy

-----------------------------------------------------------------------------

\* There is no buffer at first, and no block is allocated.
LEMMA BuffersStart == Serial!Init => BuffersKept
<1>1. SUFFICES ASSUME Serial!Init
               PROVE  BuffersKept
  OBVIOUS
<1>2. /\ buffer = [o \in Buffers |-> NoBuffer] /\ pending = [o \in Buffers |-> <<>>]
      /\ block = [b \in HeapBlocks |-> [allocated |-> FALSE, bytes |-> <<>>]]
  BY <1>1 DEF Serial!Init, Buffers
<1>3. BuffersTyped(buffer, block, pending)
  BY <1>2 DEF BuffersTyped, BlockRecords
<1>4. AllBuffersRight(buffer, block, pending)
  BY <1>2 DEF AllBuffersRight
<1>5. OneOwnerEach(ArraysOf(buffer), block)
  BY <1>2 DEF OneOwnerEach, ArraysOf, Buffers
<1>6. QED
  BY <1>3, <1>4, <1>5 DEF BuffersKept, BuffersKeptBy

LEMMA BuffersStep ==
  ASSUME BuffersKept, Serial!Next
  PROVE  BuffersKept'
<1>1. ASSUME NEW o \in Buffers, Serial!Construct(o)
      PROVE  BuffersKept'
  BY <1>1, ConstructBufferKeeps
<1>2. ASSUME NEW o \in Buffers, Serial!Destroy(o)
      PROVE  BuffersKept'
  BY <1>2, DestroyBufferKeeps
<1>3. ASSUME NEW o \in Buffers, Serial!Pop(o)
      PROVE  BuffersKept'
  BY <1>3, PopBufferKeeps
<1>4. ASSUME NEW o \in Buffers, Serial!Clear(o)
      PROVE  BuffersKept'
  BY <1>4, ClearBufferKeeps
<1>5. ASSUME NEW o \in Buffers, NEW byte \in Octets, Serial!PushFixed(o, byte)
      PROVE  BuffersKept'
  BY <1>5, PushFixedKeeps
<1>6. ASSUME NEW o \in Buffers, NEW byte \in Octets, Serial!PushGrowing(o, byte)
      PROVE  BuffersKept'
  BY <1>6, PushGrowingKeeps
<1>7. ASSUME NEW o \in Fixed, NEW p \in Fixed, Serial!CopyFixed(o, p)
      PROVE  BuffersKept'
  BY <1>7, CopyFixedKeeps
<1>8. ASSUME NEW o \in Growing, NEW p \in Growing, Serial!CopyGrowing(o, p)
      PROVE  BuffersKept'
  BY <1>8, CopyGrowingKeeps
<1>9. ASSUME NEW o \in Growing, NEW p \in Growing, Serial!MoveGrowing(o, p)
      PROVE  BuffersKept'
  BY <1>9, MoveGrowingKeeps
<1>10. ASSUME NEW o \in Growing, NEW capacity \in 1 .. BufferBytes, Serial!Reserve(o, capacity)
       PROVE  BuffersKept'
  BY <1>10, ReserveBufferKeeps
<1>11. QED
  BY <1>1, <1>2, <1>3, <1>4, <1>5, <1>6, <1>7, <1>8, <1>9, <1>10 DEF Serial!Next, Buffers

LEMMA BuffersAreRight ==
  ASSUME BuffersKept
  PROVE  Serial!BuffersKeepBytes
<1>1. ASSUME NEW o \in Buffers, Serial!Exists(o)
      PROVE  /\ Serial!Size(o) = Len(pending[o])
             /\ SubSeq(Serial!Cells(o), buffer[o].front + 1, buffer[o].rear) = pending[o]
             /\ Serial!Size(o) > 0 => Serial!Peeked(o) = Head(pending[o])
  <2>1. PICK x, u, c : x = buffer[o] /\ u = pending[o] /\ c = Serial!Cells(o)
    OBVIOUS
  <2>2. x \in Serial!View /\ WindowIs(x, c, u)
    BY <1>1, <2>1, BufferFits, CellsAre DEF Serial!Exists, BufferIsRight
  <2>3. PICK f \in Nat, r \in Nat, s \in Nat : f = x.front /\ r = x.rear /\ s = x.capacity
    BY <2>2 DEF Serial!View
  <2>4. /\ f <= r /\ r <= s /\ c \in [1 .. s -> Serial!Byte]
        /\ u \in Seq(Octets) /\ Len(u) = r - f /\ \A i \in 1 .. Len(u) : u[i] = c[f + i]
    BY <2>2, <2>3 DEF WindowIs
  <2>5. Serial!Size(o) = Len(u)
    BY <2>1, <2>3, <2>4 DEF Serial!Size
  <2>6. SubSeq(c, f + 1, r) = u
    <3>1. PICK g, h, t : g \in Int /\ h \in Int /\ g = f + 1 /\ h = r /\ t = SubSeq(c, g, h)
      <4>1. f + 1 \in Int /\ r \in Int
        OBVIOUS
      <4>2. QED
        BY <4>1, Zenon
    <3>2. \A i \in g .. h : c[i] \in Serial!Byte
      BY <2>4, <3>1
    <3>3. /\ t \in Seq(Serial!Byte) /\ Len(t) = IF g <= h THEN h - g + 1 ELSE 0
          /\ \A i \in 1 .. h - g + 1 : t[i] = c[g + i - 1]
      BY <3>1, <3>2, SubSeqProperties
    <3>4. Len(t) = Len(u)
      BY <2>4, <3>1, <3>3
    <3>5. ASSUME NEW i \in 1 .. Len(u)
          PROVE  t[i] = u[i]
      <4>1. i \in 1 .. h - g + 1 /\ g + i - 1 = f + i
        BY <2>4, <3>1
      <4>2. QED
        BY <2>4, <3>3, <4>1
    <3>6. t = [i \in 1 .. Len(t) |-> t[i]] /\ u = [i \in 1 .. Len(u) |-> u[i]]
      BY <2>4, <3>3
    <3>7. t = u
      BY <3>4, <3>5, <3>6
    <3>8. QED
      BY <3>1, <3>7
  <2>7. Serial!Size(o) > 0 => Serial!Peeked(o) = Head(u)
    <3>1. SUFFICES ASSUME Len(u) > 0
                   PROVE  Serial!Peeked(o) = Head(u)
      BY <2>5
    <3>2. u[1] = c[f + 1]
      BY <2>4, <3>1
    <3>3. Head(u) = u[1]
      BY <2>4, <3>1
    <3>4. QED
      BY <2>1, <2>3, <3>2, <3>3 DEF Serial!Peeked
  <2>8. QED
    BY <2>1, <2>3, <2>5, <2>6, <2>7
<1>2. ASSUME NEW b \in HeapBlocks
      PROVE  Serial!Cardinality({o \in Growing : Serial!Exists(o) /\ buffer[o].array = b})
               = (IF block[b].allocated THEN 1 ELSE 0)
  <2>1. PICK S : S = {o \in Growing : Serial!Exists(o) /\ buffer[o].array = b}
    OBVIOUS
  <2>2. S = {o \in Growing : ArraysOf(buffer)[o] = b}
    BY <2>1, BuffersAre DEF ArraysOf, Serial!Exists
  <2>3. Cardinality(S) = Serial!Cardinality(S)
    BY DEF Cardinality, Serial!Cardinality
  <2>4. CASE block[b].allocated
    <3>1. PICK o \in Growing : ArraysOf(buffer)[o] = b
      BY <2>4, BufferFacts DEF OneOwnerEach
    <3>2. \A p \in Growing : ArraysOf(buffer)[p] = b => p = o
      BY <3>1, BufferFacts, BuffersAre DEF OneOwnerEach
    <3>3. S = {o}
      BY <2>2, <3>1, <3>2
    <3>4. Cardinality(S) = 1
      BY <3>3, FS_Singleton
    <3>5. QED
      BY <2>1, <2>3, <2>4, <3>4
  <2>5. CASE ~block[b].allocated
    <3>1. ASSUME NEW o \in Growing, Serial!Exists(o)
          PROVE  buffer[o].array # b
      <4>1. BufferIsRight(o, buffer[o], block, pending[o])
        BY <3>1, BufferFits DEF Serial!Exists, Buffers
      <4>2. QED
        BY <2>5, <4>1, BuffersAre DEF BufferIsRight
    <3>2. S = {}
      BY <2>1, <3>1
    <3>3. Cardinality(S) = 0
      BY <3>2, FS_EmptySet
    <3>4. QED
      BY <2>1, <2>3, <2>5, <3>3
  <2>6. QED
    BY <2>4, <2>5
<1>3. QED
  BY <1>1, <1>2 DEF Serial!BuffersKeepBytes, Buffers

-----------------------------------------------------------------------------

\* Every operation leaves every owner exact: each number and each block has one
\* owner, every count is that of the names that hold what it counts, and bytes that were
\* written stay until they are read.
OwnersKept ==
  /\ Handle!OwnedOnce
  /\ BlocksKept
  /\ PointersKept
  /\ HooksKept
  /\ MessagesKept
  /\ BuffersKept

LEMMA OwnersStart ==
  ASSUME OwnersInit
  PROVE  OwnersKept
BY HandleStarts, BlocksStart, PointersStart, HooksStart, MessagesStart, BuffersStart DEF OwnersInit, OwnersKept

LEMMA OwnersStep ==
  ASSUME OwnersKept, [OwnersNext]_ownerVars
  PROVE  OwnersKept'
<1>1. ASSUME UNCHANGED handleVars
      PROVE  Handle!OwnedOnce'
  BY <1>1 DEF OwnersKept, handleVars, Handle!OwnedOnce, Handle!TypeOK, Handle!Owns
<1>2. ASSUME UNCHANGED blockVars
      PROVE  BlocksKept'
  BY <1>2 DEF OwnersKept, blockVars, BlocksKept
<1>3. ASSUME UNCHANGED pointerVars
      PROVE  PointersKept'
  BY <1>3 DEF OwnersKept, pointerVars, PointersKept
<1>4. ASSUME UNCHANGED hookVars
      PROVE  HooksKept'
  BY <1>4 DEF OwnersKept, hookVars, HooksKept
<1>5. ASSUME UNCHANGED messageVars
      PROVE  MessagesKept'
  BY <1>5 DEF OwnersKept, messageVars, MessagesKept
<1>6. ASSUME UNCHANGED bufferVars
      PROVE  BuffersKept'
  BY <1>6 DEF OwnersKept, bufferVars, BuffersKept
<1>7. CASE OwnersNext
  <2>1. Handle!Next \/ UNCHANGED handleVars
    BY <1>7 DEF OwnersNext
  <2>2. Block!Next \/ UNCHANGED blockVars
    BY <1>7 DEF OwnersNext
  <2>3. Pointer!Next \/ UNCHANGED pointerVars
    BY <1>7 DEF OwnersNext
  <2>4. Hooked!Next \/ UNCHANGED hookVars
    BY <1>7 DEF OwnersNext
  <2>5. Msg!Next \/ UNCHANGED messageVars
    BY <1>7 DEF OwnersNext
  <2>6. Serial!Next \/ UNCHANGED bufferVars
    BY <1>7 DEF OwnersNext
  <2>7. Handle!OwnedOnce'
    BY <1>1, <2>1, HandlesStep DEF OwnersKept
  <2>8. BlocksKept'
    BY <1>2, <2>2, BlocksStep DEF OwnersKept
  <2>9. PointersKept'
    BY <1>3, <2>3, PointersStep DEF OwnersKept
  <2>10. HooksKept'
    BY <1>4, <2>4, HooksStep DEF OwnersKept
  <2>11. MessagesKept'
    BY <1>5, <2>5, MessagesStep DEF OwnersKept
  <2>12. BuffersKept'
    BY <1>6, <2>6, BuffersStep DEF OwnersKept
  <2>13. QED
    BY <2>7, <2>8, <2>9, <2>10, <2>11, <2>12 DEF OwnersKept
<1>8. CASE UNCHANGED ownerVars
  BY <1>1, <1>2, <1>3, <1>4, <1>5, <1>6, <1>8 DEF ownerVars, OwnersKept
<1>9. QED
  BY <1>7, <1>8

\* Whatever is owned has the owners that are counted (socket.h:218,
\* array.h:57, pool.h:75, pointer.h:126, :546, iocp/message.h:33, serialize.h:66):
\* no operation of an owner forgets a number or a block, gives it back twice, or
\* miscounts, and none changes bytes that another wrote.
THEOREM OwnersCorrect == OwnersSpec => []OwnersAreExact
<1>1. OwnersInit => OwnersKept
  BY OwnersStart
<1>2. OwnersKept /\ [OwnersNext]_ownerVars => OwnersKept'
  BY OwnersStep
<1>3. OwnersKept => OwnersAreExact
  BY BlocksAreRight, PointersAreCounted, HooksAreRight, MessagesAreKept, BuffersAreRight DEF OwnersKept, OwnersAreExact
<1>4. QED
  BY <1>1, <1>2, <1>3, PTL DEF OwnersSpec

=============================================================================
