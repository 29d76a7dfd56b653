---------------------------- MODULE ArenaProofs ----------------------------
(***************************************************************************)
(* The safety of grc::arena for any number of slots, threads and            *)
(* generations.  The argument rests on CountIsExact: a thread that passes   *)
(* the compare-exchange of release from 0 knows that no other thread is     *)
(* between acquire and release, hence that nobody uses the object; from     *)
(* then on the dead bit turns every newcomer away until attach clears it.   *)
(***************************************************************************)
EXTENDS Arena, FiniteSetTheorems, TLAPS

\* A slot is dead exactly while the pool has it or one thread builds or
\* destroys its object.
SlotOwner ==
  /\ \A t, u \in Threads :
       pc[t] \in Exclusive /\ pc[u] \in Exclusive /\ slot[t] = slot[u] => t = u
  /\ \A t \in Threads : pc[t] \in Exclusive => dead[slot[t]] /\ slot[t] \notin free
  /\ \A s \in free : dead[s]
  /\ \A s \in Slots : dead[s] /\ s \notin free =>
       \E t \in Threads : pc[t] \in Exclusive /\ slot[t] = s

\* The reference of attach exists from its increment to its release.
AttachOwner ==
  /\ \A t \in Threads : pc[t] = "attach_and" => slot[t] \in attached
  /\ \A s \in attached : dead[s] =>
       \E t \in Threads : pc[t] = "attach_and" /\ slot[t] = s

\* A thread whose acquire was answered yes finds the slot alive, and after
\* the comparison finds its own generation in it.
CallerSafe ==
  /\ \A t \in Threads : pc[t] = "compare" => ~dead[slot[t]]
  /\ \A t \in Threads : pc[t] \in Using => ~dead[slot[t]] /\ key[slot[t]] = gen[t]

\* A count that has reached zero has a thread on its way to the
\* compare-exchange.
ZeroIsSeen ==
  \A s \in Slots : ~dead[s] /\ count[s] = 0 =>
    \E t \in Threads : pc[t] = "mark" /\ slot[t] = s

\* What has been deleted is an earlier object of its slot, or the current one
\* once its deleter has run.
DeletedIsPast ==
  /\ \A h \in deleted : h.gen <= key[h.slot]
  /\ \A h \in deleted : h.gen = key[h.slot] =>
       /\ dead[h.slot]
       /\ \A t \in Threads : slot[t] = h.slot =>
            pc[t] \notin {"delete", "attach_increment", "attach_and"}
  /\ \A t \in Threads : pc[t] = "deallocate" => Object(slot[t]) \in deleted
  /\ \A s \in free : key[s] = 0 \/ Object(s) \in deleted

IInv ==
  /\ TypeOK
  /\ CountIsExact
  /\ SlotOwner
  /\ AttachOwner
  /\ CallerSafe
  /\ ZeroIsSeen
  /\ DeletedIsPast

-----------------------------------------------------------------------------

\* A thread that enters the counted region of its node adds one holder.
LEMMA HolderAdded ==
  ASSUME TypeOK, NEW t \in Threads, NEW l \in Counted,
         pc[t] \notin Counted, pc' = [pc EXCEPT ![t] = l], slot' = slot,
         NEW s \in Slots
  PROVE  /\ Cardinality(Holders(s)) \in Nat
         /\ Cardinality(Holders(s)') = Cardinality(Holders(s)) + IF s = slot[t] THEN 1 ELSE 0
<1>1. IsFiniteSet(Holders(s))
  BY ArenaAssumption, FS_Subset DEF Holders
<1>2. CASE s = slot[t]
  <2>1. Holders(s)' = Holders(s) \union {t} /\ t \notin Holders(s)
    BY <1>2 DEF Holders, TypeOK
  <2>2. QED
    BY <1>1, <1>2, <2>1, FS_AddElement, FS_CardinalityType
<1>3. CASE s # slot[t]
  <2>1. Holders(s)' = Holders(s)
    BY <1>3 DEF Holders, TypeOK
  <2>2. QED
    BY <1>1, <1>3, <2>1, FS_CardinalityType
<1>4. QED
  BY <1>2, <1>3

\* A thread that leaves it takes one away.
LEMMA HolderRemoved ==
  ASSUME TypeOK, NEW t \in Threads, NEW l \in PCs \ Counted,
         pc[t] \in Counted, pc' = [pc EXCEPT ![t] = l], slot' = slot,
         NEW s \in Slots
  PROVE  /\ Cardinality(Holders(s)) \in Nat
         /\ Cardinality(Holders(s)') = Cardinality(Holders(s)) - IF s = slot[t] THEN 1 ELSE 0
<1>1. IsFiniteSet(Holders(s))
  BY ArenaAssumption, FS_Subset DEF Holders
<1>2. CASE s = slot[t]
  <2>1. Holders(s)' = Holders(s) \ {t} /\ t \in Holders(s)
    BY <1>2 DEF Holders, TypeOK
  <2>2. QED
    BY <1>1, <1>2, <2>1, FS_RemoveElement, FS_CardinalityType
<1>3. CASE s # slot[t]
  <2>1. Holders(s)' = Holders(s)
    BY <1>3 DEF Holders, TypeOK
  <2>2. QED
    BY <1>1, <1>3, <2>1, FS_CardinalityType
<1>4. QED
  BY <1>2, <1>3

\* A slot somebody holds has a count of at least one, one more if it is
\* attached; a slot with a count of zero has no holder.
LEMMA HeldIsCounted ==
  ASSUME TypeOK, CountIsExact, NEW s \in Slots
  PROVE  /\ \A t \in Holders(s) : count[s] >= 1 + IF s \in attached THEN 1 ELSE 0
         /\ count[s] = 0 => Holders(s) = {} /\ s \notin attached
<1>1. IsFiniteSet(Holders(s))
  BY ArenaAssumption, FS_Subset DEF Holders
<1>2. Cardinality(Holders(s)) \in Nat /\ (Cardinality(Holders(s)) = 0 <=> Holders(s) = {})
  BY <1>1, FS_CardinalityType, FS_EmptySet
<1>3. QED
  BY <1>2 DEF CountIsExact, TypeOK

LEMMA TypeStep ==
  ASSUME IInv, [Next]_vars
  PROVE  TypeOK'
<1> USE DEF IInv, TypeOK, Goto, PCs, Exclusive, Constructing, Destroying, Counted, Using
<1>1. ASSUME NEW t \in Threads, NEW s \in Slots, Allocate(t, s) PROVE TypeOK'
  BY <1>1 DEF Allocate
<1>2. ASSUME NEW t \in Threads, AttachWrite(t) PROVE TypeOK'
  BY <1>2 DEF AttachWrite
<1>3. ASSUME NEW t \in Threads, AttachIncrement(t) PROVE TypeOK'
  BY <1>3 DEF AttachIncrement
<1>4. ASSUME NEW t \in Threads, AttachAnd(t) PROVE TypeOK'
  BY <1>4 DEF AttachAnd, Object, Handle
<1>5. ASSUME NEW t \in Threads, NEW h \in issued, Get(t, h) PROVE TypeOK'
  BY <1>5 DEF Get
<1>6. ASSUME NEW t \in Threads, AcquireIncrement(t) PROVE TypeOK'
  BY <1>6 DEF AcquireIncrement
<1>7. ASSUME NEW t \in Threads, AcquireCompare(t) PROVE TypeOK'
  BY <1>7 DEF AcquireCompare
<1>8. ASSUME NEW t \in Threads, Retire(t) PROVE TypeOK'
  <2>1. count[slot[t]] >= 1
    BY <1>8, HeldIsCounted DEF Retire, Holders
  <2>2. QED
    BY <1>8, <2>1 DEF Retire
<1>9. ASSUME NEW t \in Threads, ReleaseDecrement(t) PROVE TypeOK'
  <2>1. count[slot[t]] >= 1
    BY <1>9, HeldIsCounted DEF ReleaseDecrement, Holders
  <2>2. QED
    BY <1>9, <2>1 DEF ReleaseDecrement
<1>10. ASSUME NEW t \in Threads, ReleaseMark(t) PROVE TypeOK'
  BY <1>10 DEF ReleaseMark
<1>11. ASSUME NEW t \in Threads, Delete(t) PROVE TypeOK'
  BY <1>11 DEF Delete, Object, Handle
<1>12. ASSUME NEW t \in Threads, Deallocate(t) PROVE TypeOK'
  BY <1>12 DEF Deallocate
<1>13. CASE UNCHANGED vars
  BY <1>13 DEF vars
<1>14. QED
  BY <1>1, <1>2, <1>3, <1>4, <1>5, <1>6, <1>7, <1>8, <1>9, <1>10, <1>11, <1>12, <1>13
  DEF Next, Attach, Acquire, Release

\* Each step moves the count together with the set of holders and the
\* reference of attach.
LEMMA CountStep ==
  ASSUME IInv, [Next]_vars
  PROVE  CountIsExact'
<1> USE DEF IInv, Goto
<1>0. \A s \in Slots : Cardinality(Holders(s)) \in Nat
  BY ArenaAssumption, FS_Subset, FS_CardinalityType DEF Holders
<1>1. ASSUME NEW t \in Threads, NEW l \in PCs, pc' = [pc EXCEPT ![t] = l],
             \/ pc[t] \notin Counted /\ l \notin Counted
             \/ pc[t] \in Counted /\ l \in Counted /\ slot' = slot,
             \A u \in Threads \ {t} : slot'[u] = slot[u],
             count' = count, attached' = attached
      PROVE  CountIsExact'
  <2>1. \A s \in Slots : Holders(s)' = Holders(s)
    BY <1>1 DEF Holders, TypeOK
  <2>2. QED
    BY <1>1, <2>1 DEF CountIsExact
<1>2. ASSUME NEW t \in Threads,
             (\E s \in Slots : Allocate(t, s)) \/ (\E h \in issued : Get(t, h))
      PROVE  CountIsExact'
  BY <1>1, <1>2 DEF Allocate, Get, Exclusive, Constructing, Destroying, Counted, Using, PCs, TypeOK
<1>3. ASSUME NEW t \in Threads,
             AttachWrite(t) \/ AttachAnd(t) \/ AcquireCompare(t) \/ ReleaseMark(t)
                            \/ Delete(t) \/ Deallocate(t)
      PROVE  CountIsExact'
  <2>1. CASE AttachWrite(t) \/ AttachAnd(t)
    BY <1>1, <2>1 DEF AttachWrite, AttachAnd, Exclusive, Constructing, Counted, Using, PCs
  <2>2. CASE AcquireCompare(t)
    BY <1>1, <2>2 DEF AcquireCompare, Counted, Using, PCs
  <2>3. CASE ReleaseMark(t)
    BY <1>1, <2>3 DEF ReleaseMark, Exclusive, Destroying, Counted, Using, PCs
  <2>4. CASE Delete(t) \/ Deallocate(t)
    BY <1>1, <2>4 DEF Delete, Deallocate, Exclusive, Destroying, Counted, Using, PCs
  <2>5. QED
    BY <1>3, <2>1, <2>2, <2>3, <2>4
<1>4. ASSUME NEW t \in Threads, AttachIncrement(t) PROVE CountIsExact'
  <2>1. slot[t] \notin attached
    BY <1>4 DEF AttachIncrement, AttachOwner, SlotOwner, Exclusive, Constructing
  <2>2. \A s \in Slots : Holders(s)' = Holders(s)
    BY <1>4 DEF AttachIncrement, Holders, TypeOK, Counted, Using
  <2>3. QED
    BY <1>0, <1>4, <2>1, <2>2 DEF AttachIncrement, CountIsExact, TypeOK
<1>5. ASSUME NEW t \in Threads, AcquireIncrement(t) PROVE CountIsExact'
  <2>1. \A s \in Slots :
          Cardinality(Holders(s)') = Cardinality(Holders(s)) + IF s = slot[t] THEN 1 ELSE 0
    BY <1>5, HolderAdded DEF AcquireIncrement, Counted, Using
  <2>2. QED
    BY <1>0, <1>5, <2>1 DEF AcquireIncrement, CountIsExact, TypeOK
<1>6. ASSUME NEW t \in Threads, Retire(t) PROVE CountIsExact'
  <2>1. \A s \in Slots : Holders(s)' = Holders(s)
    BY <1>6 DEF Retire, Holders, TypeOK, Counted, Using
  <2>2. QED
    BY <1>0, <1>6, <2>1 DEF Retire, CountIsExact, TypeOK
<1>7. ASSUME NEW t \in Threads, ReleaseDecrement(t) PROVE CountIsExact'
  <2>1. \A s \in Slots :
          Cardinality(Holders(s)') = Cardinality(Holders(s)) - IF s = slot[t] THEN 1 ELSE 0
    <3> DEFINE l == IF count[slot[t]] = 1 /\ ~dead[slot[t]] THEN "mark" ELSE "idle"
    <3>1. l \in PCs \ Counted
      BY DEF PCs, Counted, Using
    <3>2. pc[t] \in Counted /\ pc' = [pc EXCEPT ![t] = l] /\ slot' = slot
      BY <1>7 DEF ReleaseDecrement, Counted
    <3> HIDE DEF l
    <3>3. QED
      BY <3>1, <3>2, HolderRemoved
  <2>2. QED
    BY <1>0, <1>7, <2>1 DEF ReleaseDecrement, CountIsExact, TypeOK
<1>8. CASE UNCHANGED vars
  BY <1>8 DEF vars, CountIsExact, Holders
<1>9. QED
  BY <1>2, <1>3, <1>4, <1>5, <1>6, <1>7, <1>8 DEF Next, Attach, Acquire, Release

LEMMA OwnerStep ==
  ASSUME IInv, [Next]_vars
  PROVE  SlotOwner'
<1> USE DEF IInv, Goto, SlotOwner, TypeOK, Exclusive, Constructing, Destroying
<1>1. ASSUME NEW t \in Threads, NEW s \in Slots, Allocate(t, s) PROVE SlotOwner'
  BY <1>1 DEF Allocate
<1>2. ASSUME NEW t \in Threads, AttachWrite(t) PROVE SlotOwner'
  BY <1>2 DEF AttachWrite
<1>3. ASSUME NEW t \in Threads, AttachIncrement(t) PROVE SlotOwner'
  BY <1>3 DEF AttachIncrement
<1>4. ASSUME NEW t \in Threads, AttachAnd(t) PROVE SlotOwner'
  BY <1>4 DEF AttachAnd
<1>5. ASSUME NEW t \in Threads, NEW h \in issued, Get(t, h) PROVE SlotOwner'
  BY <1>5 DEF Get
<1>6. ASSUME NEW t \in Threads, AcquireIncrement(t) PROVE SlotOwner'
  BY <1>6 DEF AcquireIncrement
<1>7. ASSUME NEW t \in Threads, AcquireCompare(t) PROVE SlotOwner'
  BY <1>7 DEF AcquireCompare
<1>8. ASSUME NEW t \in Threads, Retire(t) PROVE SlotOwner'
  BY <1>8 DEF Retire, Using
<1>9. ASSUME NEW t \in Threads, ReleaseDecrement(t) PROVE SlotOwner'
  BY <1>9 DEF ReleaseDecrement, Using
<1>10. ASSUME NEW t \in Threads, ReleaseMark(t) PROVE SlotOwner'
  <2>1. CASE count[slot[t]] = 0 /\ ~dead[slot[t]]
    BY <1>10, <2>1 DEF ReleaseMark
  <2>2. CASE ~(count[slot[t]] = 0 /\ ~dead[slot[t]])
    BY <1>10, <2>2 DEF ReleaseMark
  <2>3. QED
    BY <2>1, <2>2
<1>11. ASSUME NEW t \in Threads, Delete(t) PROVE SlotOwner'
  BY <1>11 DEF Delete
<1>12. ASSUME NEW t \in Threads, Deallocate(t) PROVE SlotOwner'
  BY <1>12 DEF Deallocate
<1>13. CASE UNCHANGED vars
  BY <1>13 DEF vars
<1>14. QED
  BY <1>1, <1>2, <1>3, <1>4, <1>5, <1>6, <1>7, <1>8, <1>9, <1>10, <1>11, <1>12, <1>13
  DEF Next, Attach, Acquire, Release

LEMMA AttachStep ==
  ASSUME IInv, [Next]_vars
  PROVE  AttachOwner'
<1> USE DEF IInv, Goto, AttachOwner, TypeOK
<1>1. ASSUME NEW t \in Threads, NEW s \in Slots, Allocate(t, s) PROVE AttachOwner'
  BY <1>1 DEF Allocate
<1>2. ASSUME NEW t \in Threads, AttachWrite(t) PROVE AttachOwner'
  BY <1>2 DEF AttachWrite
<1>3. ASSUME NEW t \in Threads, AttachIncrement(t) PROVE AttachOwner'
  BY <1>3 DEF AttachIncrement
<1>4. ASSUME NEW t \in Threads, AttachAnd(t) PROVE AttachOwner'
  BY <1>4 DEF AttachAnd
<1>5. ASSUME NEW t \in Threads, NEW h \in issued, Get(t, h) PROVE AttachOwner'
  BY <1>5 DEF Get
<1>6. ASSUME NEW t \in Threads, AcquireIncrement(t) PROVE AttachOwner'
  BY <1>6 DEF AcquireIncrement
<1>7. ASSUME NEW t \in Threads, AcquireCompare(t) PROVE AttachOwner'
  BY <1>7 DEF AcquireCompare
<1>8. ASSUME NEW t \in Threads, Retire(t) PROVE AttachOwner'
  BY <1>8 DEF Retire, CallerSafe, SlotOwner, Using, Exclusive, Constructing
<1>9. ASSUME NEW t \in Threads, ReleaseDecrement(t) PROVE AttachOwner'
  BY <1>9 DEF ReleaseDecrement, Using
<1>10. ASSUME NEW t \in Threads, ReleaseMark(t) PROVE AttachOwner'
  <2>1. CASE count[slot[t]] = 0 /\ ~dead[slot[t]]
    <3>1. slot[t] \notin attached
      BY <2>1, HeldIsCounted
    <3>2. QED
      BY <1>10, <2>1, <3>1 DEF ReleaseMark
  <2>2. CASE ~(count[slot[t]] = 0 /\ ~dead[slot[t]])
    BY <1>10, <2>2 DEF ReleaseMark
  <2>3. QED
    BY <2>1, <2>2
<1>11. ASSUME NEW t \in Threads, Delete(t) PROVE AttachOwner'
  BY <1>11 DEF Delete
<1>12. ASSUME NEW t \in Threads, Deallocate(t) PROVE AttachOwner'
  BY <1>12 DEF Deallocate
<1>13. CASE UNCHANGED vars
  BY <1>13 DEF vars
<1>14. QED
  BY <1>1, <1>2, <1>3, <1>4, <1>5, <1>6, <1>7, <1>8, <1>9, <1>10, <1>11, <1>12, <1>13
  DEF Next, Attach, Acquire, Release

\* The only step that makes a slot dead needs a count of zero, so it finds no
\* caller between acquire and release.
LEMMA CallerStep ==
  ASSUME IInv, [Next]_vars
  PROVE  CallerSafe'
<1> USE DEF IInv, Goto, CallerSafe, TypeOK, Using
<1>1. ASSUME NEW t \in Threads, NEW s \in Slots, Allocate(t, s) PROVE CallerSafe'
  BY <1>1 DEF Allocate
<1>2. ASSUME NEW t \in Threads, AttachWrite(t) PROVE CallerSafe'
  <2>1. dead[slot[t]]
    BY <1>2 DEF AttachWrite, SlotOwner, Exclusive, Constructing
  <2>2. QED
    BY <1>2, <2>1 DEF AttachWrite
<1>3. ASSUME NEW t \in Threads, AttachIncrement(t) PROVE CallerSafe'
  BY <1>3 DEF AttachIncrement
<1>4. ASSUME NEW t \in Threads, AttachAnd(t) PROVE CallerSafe'
  BY <1>4 DEF AttachAnd
<1>5. ASSUME NEW t \in Threads, NEW h \in issued, Get(t, h) PROVE CallerSafe'
  BY <1>5 DEF Get
<1>6. ASSUME NEW t \in Threads, AcquireIncrement(t) PROVE CallerSafe'
  BY <1>6 DEF AcquireIncrement
<1>7. ASSUME NEW t \in Threads, AcquireCompare(t) PROVE CallerSafe'
  BY <1>7 DEF AcquireCompare
<1>8. ASSUME NEW t \in Threads, Retire(t) PROVE CallerSafe'
  BY <1>8 DEF Retire
<1>9. ASSUME NEW t \in Threads, ReleaseDecrement(t) PROVE CallerSafe'
  BY <1>9 DEF ReleaseDecrement
<1>10. ASSUME NEW t \in Threads, ReleaseMark(t) PROVE CallerSafe'
  <2>1. CASE count[slot[t]] = 0 /\ ~dead[slot[t]]
    <3>1. \A u \in Threads : slot[u] = slot[t] => pc[u] \notin Counted
      BY <2>1, HeldIsCounted DEF Holders
    <3>2. QED
      BY <1>10, <2>1, <3>1 DEF ReleaseMark, Counted
  <2>2. CASE ~(count[slot[t]] = 0 /\ ~dead[slot[t]])
    BY <1>10, <2>2 DEF ReleaseMark
  <2>3. QED
    BY <2>1, <2>2
<1>11. ASSUME NEW t \in Threads, Delete(t) PROVE CallerSafe'
  BY <1>11 DEF Delete
<1>12. ASSUME NEW t \in Threads, Deallocate(t) PROVE CallerSafe'
  BY <1>12 DEF Deallocate
<1>13. CASE UNCHANGED vars
  BY <1>13 DEF vars
<1>14. QED
  BY <1>1, <1>2, <1>3, <1>4, <1>5, <1>6, <1>7, <1>8, <1>9, <1>10, <1>11, <1>12, <1>13
  DEF Next, Attach, Acquire, Release

\* A failed compare-exchange found another reference or the dead bit, so the
\* count it gives up on is no longer zero, or no longer alive.
LEMMA ZeroStep ==
  ASSUME IInv, [Next]_vars
  PROVE  ZeroIsSeen'
<1> USE DEF IInv, Goto, ZeroIsSeen, TypeOK
<1>1. ASSUME NEW t \in Threads, NEW s \in Slots, Allocate(t, s) PROVE ZeroIsSeen'
  BY <1>1 DEF Allocate
<1>2. ASSUME NEW t \in Threads, AttachWrite(t) PROVE ZeroIsSeen'
  BY <1>2 DEF AttachWrite
<1>3. ASSUME NEW t \in Threads, AttachIncrement(t) PROVE ZeroIsSeen'
  BY <1>3 DEF AttachIncrement
<1>4. ASSUME NEW t \in Threads, AttachAnd(t) PROVE ZeroIsSeen'
  <2>1. slot[t] \in attached
    BY <1>4 DEF AttachAnd, AttachOwner
  <2>2. count[slot[t]] # 0
    BY <2>1, HeldIsCounted
  <2>3. QED
    BY <1>4, <2>2 DEF AttachAnd
<1>5. ASSUME NEW t \in Threads, NEW h \in issued, Get(t, h) PROVE ZeroIsSeen'
  BY <1>5 DEF Get
<1>6. ASSUME NEW t \in Threads, AcquireIncrement(t) PROVE ZeroIsSeen'
  BY <1>6 DEF AcquireIncrement
<1>7. ASSUME NEW t \in Threads, AcquireCompare(t) PROVE ZeroIsSeen'
  BY <1>7 DEF AcquireCompare
<1>8. ASSUME NEW t \in Threads, Retire(t) PROVE ZeroIsSeen'
  <2>1. count[slot[t]] >= 2
    BY <1>8, HeldIsCounted DEF Retire, Holders, Counted, Using
  <2>2. QED
    BY <1>8, <2>1 DEF Retire
<1>9. ASSUME NEW t \in Threads, ReleaseDecrement(t) PROVE ZeroIsSeen'
  <2>1. count[slot[t]] >= 1
    BY <1>9, HeldIsCounted DEF ReleaseDecrement, Holders, Counted
  <2>2. CASE count[slot[t]] = 1 /\ ~dead[slot[t]]
    BY <1>9, <2>2 DEF ReleaseDecrement, Using
  <2>3. CASE ~(count[slot[t]] = 1 /\ ~dead[slot[t]])
    BY <1>9, <2>1, <2>3 DEF ReleaseDecrement, Using
  <2>4. QED
    BY <2>2, <2>3
<1>10. ASSUME NEW t \in Threads, ReleaseMark(t) PROVE ZeroIsSeen'
  <2>1. CASE count[slot[t]] = 0 /\ ~dead[slot[t]]
    BY <1>10, <2>1 DEF ReleaseMark
  <2>2. CASE ~(count[slot[t]] = 0 /\ ~dead[slot[t]])
    BY <1>10, <2>2 DEF ReleaseMark
  <2>3. QED
    BY <2>1, <2>2
<1>11. ASSUME NEW t \in Threads, Delete(t) PROVE ZeroIsSeen'
  BY <1>11 DEF Delete
<1>12. ASSUME NEW t \in Threads, Deallocate(t) PROVE ZeroIsSeen'
  BY <1>12 DEF Deallocate
<1>13. CASE UNCHANGED vars
  BY <1>13 DEF vars
<1>14. QED
  BY <1>1, <1>2, <1>3, <1>4, <1>5, <1>6, <1>7, <1>8, <1>9, <1>10, <1>11, <1>12, <1>13
  DEF Next, Attach, Acquire, Release

\* A deleter runs for the current object of a slot whose generation can only
\* grow, and the slot is not reused before it has run.
LEMMA DeletedStep ==
  ASSUME IInv, [Next]_vars
  PROVE  DeletedIsPast'
<1> USE DEF IInv, Goto, DeletedIsPast, TypeOK, Object, Handle
<1>1. ASSUME NEW t \in Threads, NEW s \in Slots, Allocate(t, s) PROVE DeletedIsPast'
  BY <1>1 DEF Allocate
<1>2. ASSUME NEW t \in Threads, AttachWrite(t) PROVE DeletedIsPast'
  <2>1. /\ \A s \in free : s # slot[t]
        /\ \A u \in Threads \ {t} : pc[u] = "deallocate" => slot[u] # slot[t]
    BY <1>2 DEF AttachWrite, SlotOwner, Exclusive, Constructing, Destroying
  <2>2. \A h \in deleted : h.gen = key'[h.slot] => h.slot # slot[t]
    BY <1>2 DEF AttachWrite
  <2>3. QED
    BY <1>2, <2>1, <2>2 DEF AttachWrite
<1>3. ASSUME NEW t \in Threads, AttachIncrement(t) PROVE DeletedIsPast'
  BY <1>3 DEF AttachIncrement
<1>4. ASSUME NEW t \in Threads, AttachAnd(t) PROVE DeletedIsPast'
  <2>1. \A h \in deleted : h.gen = key[h.slot] => h.slot # slot[t]
    BY <1>4 DEF AttachAnd
  <2>2. QED
    BY <1>4, <2>1 DEF AttachAnd
<1>5. ASSUME NEW t \in Threads, NEW h \in issued, Get(t, h) PROVE DeletedIsPast'
  BY <1>5 DEF Get
<1>6. ASSUME NEW t \in Threads, AcquireIncrement(t) PROVE DeletedIsPast'
  BY <1>6 DEF AcquireIncrement
<1>7. ASSUME NEW t \in Threads, AcquireCompare(t) PROVE DeletedIsPast'
  BY <1>7 DEF AcquireCompare
<1>8. ASSUME NEW t \in Threads, Retire(t) PROVE DeletedIsPast'
  BY <1>8 DEF Retire, Using
<1>9. ASSUME NEW t \in Threads, ReleaseDecrement(t) PROVE DeletedIsPast'
  BY <1>9 DEF ReleaseDecrement, Using
<1>10. ASSUME NEW t \in Threads, ReleaseMark(t) PROVE DeletedIsPast'
  <2>1. CASE count[slot[t]] = 0 /\ ~dead[slot[t]]
    <3>1. \A h \in deleted : h.gen = key[h.slot] => h.slot # slot[t]
      BY <2>1
    <3>2. QED
      BY <1>10, <2>1, <3>1 DEF ReleaseMark
  <2>2. CASE ~(count[slot[t]] = 0 /\ ~dead[slot[t]])
    BY <1>10, <2>2 DEF ReleaseMark
  <2>3. QED
    BY <2>1, <2>2
<1>11. ASSUME NEW t \in Threads, Delete(t) PROVE DeletedIsPast'
  <2>1. dead[slot[t]] /\ slot[t] \notin free
    BY <1>11 DEF Delete, SlotOwner, Exclusive, Destroying
  <2>2. \A u \in Threads \ {t} : slot[u] = slot[t] => pc[u] \notin Exclusive
    BY <1>11 DEF Delete, SlotOwner, Exclusive, Destroying
  <2>3. \A h \in deleted' : h \in deleted \/ h = Object(slot[t])
    BY <1>11 DEF Delete
  <2>4. QED
    BY <1>11, <2>1, <2>2, <2>3 DEF Delete, Exclusive, Constructing, Destroying
<1>12. ASSUME NEW t \in Threads, Deallocate(t) PROVE DeletedIsPast'
  BY <1>12 DEF Deallocate
<1>13. CASE UNCHANGED vars
  BY <1>13 DEF vars
<1>14. QED
  BY <1>1, <1>2, <1>3, <1>4, <1>5, <1>6, <1>7, <1>8, <1>9, <1>10, <1>11, <1>12, <1>13
  DEF Next, Attach, Acquire, Release

LEMMA IInvInit == Init => IInv
<1> SUFFICES ASSUME Init PROVE IInv
  OBVIOUS
<1>1. TypeOK
  BY ArenaAssumption DEF Init, TypeOK, PCs
<1>2. CountIsExact
  <2>1. \A s \in Slots : Holders(s) = {}
    BY DEF Init, Holders, Counted, Using
  <2>2. QED
    BY <2>1, FS_EmptySet DEF Init, CountIsExact
<1>3. SlotOwner /\ AttachOwner /\ CallerSafe /\ ZeroIsSeen /\ DeletedIsPast
  BY DEF Init, SlotOwner, AttachOwner, CallerSafe, ZeroIsSeen, DeletedIsPast, Exclusive,
         Constructing, Destroying, Using
<1>4. QED
  BY <1>1, <1>2, <1>3 DEF IInv

\* The conjunction above holds in every state.
THEOREM Invariance == Spec => []IInv
<1>1. IInv /\ [Next]_vars => IInv'
  BY TypeStep, CountStep, OwnerStep, AttachStep, CallerStep, ZeroStep, DeletedStep DEF IInv
<1>2. QED
  BY IInvInit, <1>1, PTL DEF Spec

\* Every state is well typed: in particular no count is ever decremented
\* below zero, into the dead bit.
THEOREM TypeCorrect == Spec => []TypeOK
<1>1. IInv => TypeOK
  BY DEF IInv
<1>2. QED
  BY Invariance, <1>1, PTL

\* The reference count of a slot is the number of callers that hold it, plus
\* one for the reference of attach (node::attach, acquire and release).
THEOREM CountCorrect == Spec => []CountIsExact
<1>1. IInv => CountIsExact
  BY DEF IInv
<1>2. QED
  BY Invariance, <1>1, PTL

\* A caller whose acquire(key) answered yes works on the very object the key
\* was issued for, and that object is not deleted before the caller releases.
THEOREM UseCorrect == Spec => []UseIsSafe
<1>1. IInv => UseIsSafe
  BY DEF IInv, UseIsSafe, CallerSafe, SlotOwner, DeletedIsPast, Object, Handle, TypeOK
<1>2. QED
  BY Invariance, <1>1, PTL

\* No object is deleted twice and no slot is returned to the pool twice.
THEOREM DestroyCorrect == Spec => []DestroyOnce
<1>1. IInv => DestroyOnce
  BY DEF IInv, DestroyOnce, SlotOwner, DeletedIsPast, Object, Handle, TypeOK
<1>2. QED
  BY Invariance, <1>1, PTL

\* No slot is lost: with no call in progress a slot is in the pool, its last
\* object deleted, or it holds an object that nobody has retired.
THEOREM NoLeakCorrect == Spec => []NoLeak
<1>1. IInv => NoLeak
  <2> SUFFICES ASSUME IInv, \A t \in Threads : pc[t] = "idle", NEW s \in Slots
               PROVE  IF dead[s] THEN s \in free /\ (key[s] = 0 \/ Object(s) \in deleted)
                                 ELSE s \in attached
    BY DEF NoLeak
  <2>1. CASE dead[s]
    BY <2>1 DEF IInv, SlotOwner, DeletedIsPast, Exclusive, Constructing, Destroying
  <2>2. CASE ~dead[s]
    <3>1. Holders(s) = {}
      BY DEF Holders, Counted, Using
    <3>2. count[s] # 0
      BY <2>2 DEF IInv, ZeroIsSeen
    <3>3. QED
      BY <2>2, <3>1, <3>2, FS_EmptySet DEF IInv, CountIsExact
  <2>3. QED
    BY <2>1, <2>2
<1>2. QED
  BY Invariance, <1>1, PTL

-----------------------------------------------------------------------------

\* What the handle table needs besides: every handle ever issued is one of
\* Handles, callers work with issued handles, and a slot that is alive holds
\* the object of a handle that was issued.
HandlesAreRight ==
  /\ issued \subseteq Handles
  /\ \A s \in Slots : key[s] <= KeyLimit
  /\ \A t \in Threads : pc[t] = "attach_write" => key[slot[t]] < KeyLimit
  /\ \A t \in Threads : pc[t] \in {"attach_increment", "attach_and"} => key[slot[t]] >= 1
  /\ \A t \in Threads : pc[t] \in {"increment"} \union Counted => Handle(slot[t], gen[t]) \in issued
  /\ \A s \in Slots : ~dead[s] => Object(s) \in issued

\* A generation is given to a slot that nobody else builds.
LEMMA HandlesStep ==
  ASSUME IInv, HandlesAreRight, [Next]_vars
  PROVE  HandlesAreRight'
<1> USE DEF IInv, HandlesAreRight, TypeOK, Goto, Handle, Handles, Object, Counted, Using, Constructing
<1>0. \A t, u \in Threads :
        pc[t] = "attach_write" /\ pc[u] \in Constructing /\ slot[t] = slot[u] => t = u
  BY DEF SlotOwner, Exclusive, Constructing
<1>1. ASSUME NEW t \in Threads, NEW s \in Slots, Allocate(t, s) PROVE HandlesAreRight'
  BY <1>1 DEF Allocate
<1>2. ASSUME NEW t \in Threads, AttachWrite(t) PROVE HandlesAreRight'
  <2>1. dead[slot[t]]
    BY <1>2 DEF AttachWrite, SlotOwner, Exclusive
  <2>2. \A u \in Threads : pc[u] = "attach_write" /\ slot[u] = slot[t] => u = t
    BY <1>2, <1>0 DEF AttachWrite
  <2>3. slot[t] \in Slots /\ key[slot[t]] < KeyLimit /\ key[slot[t]] \in Nat
    BY <1>2 DEF AttachWrite
  <2>4. /\ key' = [key EXCEPT ![slot[t]] = key[slot[t]] + 1]
        /\ pc' = [pc EXCEPT ![t] = "attach_increment"]
        /\ UNCHANGED <<dead, slot, gen, issued>>
    BY <1>2 DEF AttachWrite
  <2>5. \A s \in Slots : key'[s] <= KeyLimit
    BY ArenaAssumption, <2>3, <2>4
  <2>6. \A u \in Threads : pc'[u] = "attach_write" => key'[slot'[u]] < KeyLimit
    BY <2>2, <2>3, <2>4
  <2>7. \A u \in Threads : pc'[u] \in {"attach_increment", "attach_and"} => key'[slot'[u]] >= 1
    BY <2>3, <2>4
  <2>8. QED
    BY <2>1, <2>3, <2>4, <2>5, <2>6, <2>7
<1>3. ASSUME NEW t \in Threads, AttachIncrement(t) PROVE HandlesAreRight'
  BY <1>3 DEF AttachIncrement
<1>4. ASSUME NEW t \in Threads, AttachAnd(t) PROVE HandlesAreRight'
  BY <1>4 DEF AttachAnd
<1>5. ASSUME NEW t \in Threads, NEW h \in issued, Get(t, h) PROVE HandlesAreRight'
  BY <1>5 DEF Get
<1>6. ASSUME NEW t \in Threads, AcquireIncrement(t) PROVE HandlesAreRight'
  BY <1>6 DEF AcquireIncrement
<1>7. ASSUME NEW t \in Threads, AcquireCompare(t) PROVE HandlesAreRight'
  BY <1>7 DEF AcquireCompare
<1>8. ASSUME NEW t \in Threads, Retire(t) PROVE HandlesAreRight'
  BY <1>8 DEF Retire
<1>9. ASSUME NEW t \in Threads, ReleaseDecrement(t) PROVE HandlesAreRight'
  BY <1>9 DEF ReleaseDecrement
<1>10. ASSUME NEW t \in Threads, ReleaseMark(t) PROVE HandlesAreRight'
  BY <1>10 DEF ReleaseMark
<1>11. ASSUME NEW t \in Threads, Delete(t) PROVE HandlesAreRight'
  BY <1>11 DEF Delete
<1>12. ASSUME NEW t \in Threads, Deallocate(t) PROVE HandlesAreRight'
  BY <1>12 DEF Deallocate
<1>13. CASE UNCHANGED vars
  BY <1>13 DEF vars
<1>14. QED
  BY <1>1, <1>2, <1>3, <1>4, <1>5, <1>6, <1>7, <1>8, <1>9, <1>10, <1>11, <1>12, <1>13
  DEF Next, Attach, Acquire, Release

\* The handles are right in every state.
THEOREM HandlesCorrect == Spec => []HandlesAreRight
<1>1. Init => HandlesAreRight
  BY ArenaAssumption DEF Init, HandlesAreRight, Counted, Using
<1>2. IInv /\ HandlesAreRight /\ [Next]_vars => HandlesAreRight'
  BY HandlesStep
<1>3. QED
  BY Invariance, <1>1, <1>2, PTL DEF Spec

\* What a caller was told, by the place it is at.
LEMMA StatusIs ==
  ASSUME NEW t \in Threads
  PROVE  /\ pc[t] \in Using => StatusOf(t) = Table!Opened(Handle(slot[t], gen[t]))
         /\ pc[t] = "refused" => StatusOf(t) = Table!Refused(Handle(slot[t], gen[t]))
         /\ pc[t] \notin Using /\ pc[t] # "refused" => StatusOf(t) = Table!Idle
BY DEF StatusOf, Table!Opened, Table!Refused, Table!Idle, Using

\* The same after a step.
LEMMA StatusBecomes ==
  ASSUME NEW t \in Threads
  PROVE  /\ pc'[t] \in Using => StatusOf(t)' = Table!Opened(Handle(slot'[t], gen'[t]))
         /\ pc'[t] = "refused" => StatusOf(t)' = Table!Refused(Handle(slot'[t], gen'[t]))
         /\ pc'[t] \notin Using /\ pc'[t] # "refused" => StatusOf(t)' = Table!Idle
BY DEF StatusOf, Handle, Table!Opened, Table!Refused, Table!Idle, Using

\* The answers of the table are three different things.
LEMMA AnswersDiffer ==
  ASSUME NEW h, NEW g
  PROVE  /\ Table!Opened(h) # Table!Idle
         /\ Table!Refused(h) # Table!Idle
         /\ Table!Refused(h) # Table!Opened(g)
         /\ Table!Opened(h) = Table!Opened(g) => h = g
BY DEF Table!Opened, Table!Refused, Table!Idle

\* A step of one thread changes its own status alone.
LEMMA StatusMoves ==
  ASSUME TypeOK, NEW t \in Threads,
         \A u \in Threads \ {t} : pc'[u] = pc[u] /\ slot'[u] = slot[u] /\ gen'[u] = gen[u]
  PROVE  Status' = [Status EXCEPT ![t] = StatusOf(t)']
<1>1. \A u \in Threads \ {t} : StatusOf(u)' = StatusOf(u)
  BY DEF StatusOf, Handle
<1>2. QED
  BY <1>1 DEF Status

\* A step that changes neither the live handles nor what anybody was told is a
\* stutter of the table.
LEMMA TableStutter ==
  ASSUME TypeOK, NEW t \in Threads,
         \A u \in Threads \ {t} : pc'[u] = pc[u] /\ slot'[u] = slot[u] /\ gen'[u] = gen[u],
         StatusOf(t)' = StatusOf(t), Live' = Live, Rooted' = Rooted
  PROVE  UNCHANGED Table!hvars
<1>1. Status' = Status
  BY StatusMoves DEF Status
<1>2. QED
  BY <1>1 DEF Table!hvars

\* The actions of the table.
LEMMA TableNext ==
  ASSUME NEW h \in Handles, NEW t \in Threads
  PROVE  /\ Table!Create(h) => Table!HNext
         /\ Table!Destroy(h) => Table!HNext
         /\ Table!Close(t) => Table!HNext
         /\ Table!Open(t, h) => Table!HNext
         /\ Table!Refuse(t, h) => Table!HNext
         /\ Table!Unroot(t, h) => Table!HNext
BY DEF Table!HNext

\* Each step of the arena is a step of the table or a stutter of it.
LEMMA TableStep ==
  ASSUME IInv, HandlesAreRight, [Next]_vars
  PROVE  Table!HNext \/ UNCHANGED Table!hvars
<1> USE DEF IInv, HandlesAreRight, TypeOK, Goto, Handle, Object, Counted, Using
<1>1. ASSUME NEW t \in Threads, NEW s \in Slots, Allocate(t, s) PROVE Table!HNext \/ UNCHANGED Table!hvars
  <2>f. \A u \in Threads \ {t} : pc'[u] = pc[u] /\ slot'[u] = slot[u] /\ gen'[u] = gen[u]
    BY <1>1 DEF Allocate
  <2>1. Live' = Live /\ Rooted' = Rooted
    BY <1>1 DEF Allocate, Live, Rooted
  <2>2. StatusOf(t)' = StatusOf(t)
    BY <1>1, StatusIs, StatusBecomes DEF Allocate, Exclusive, Constructing, Destroying
  <2>3. QED
    BY <2>f, <2>1, <2>2, TableStutter
<1>2. ASSUME NEW t \in Threads, AttachWrite(t) PROVE Table!HNext \/ UNCHANGED Table!hvars
  <2>f. \A u \in Threads \ {t} : pc'[u] = pc[u] /\ slot'[u] = slot[u] /\ gen'[u] = gen[u]
    BY <1>2 DEF AttachWrite
  <2>0. dead[slot[t]]
    BY <1>2 DEF AttachWrite, SlotOwner, Exclusive, Constructing
  <2>1. Live' = Live /\ Rooted' = Rooted
    BY <1>2, <2>0 DEF AttachWrite, Live, Rooted
  <2>2. StatusOf(t)' = StatusOf(t)
    BY <1>2, StatusIs, StatusBecomes DEF AttachWrite
  <2>3. QED
    BY <2>f, <2>1, <2>2, TableStutter
<1>3. ASSUME NEW t \in Threads, AttachIncrement(t) PROVE Table!HNext \/ UNCHANGED Table!hvars
  <2>f. \A u \in Threads \ {t} : pc'[u] = pc[u] /\ slot'[u] = slot[u] /\ gen'[u] = gen[u]
    BY <1>3 DEF AttachIncrement
  <2>0. dead[slot[t]]
    BY <1>3 DEF AttachIncrement, SlotOwner, Exclusive, Constructing
  <2>1. Live' = Live /\ Rooted' = Rooted
    BY <1>3, <2>0 DEF AttachIncrement, Live, Rooted
  <2>2. StatusOf(t)' = StatusOf(t)
    BY <1>3, StatusIs, StatusBecomes DEF AttachIncrement
  <2>3. QED
    BY <2>f, <2>1, <2>2, TableStutter
<1>4. ASSUME NEW t \in Threads, AttachAnd(t) PROVE Table!HNext \/ UNCHANGED Table!hvars
  <2>f. \A u \in Threads \ {t} : pc'[u] = pc[u] /\ slot'[u] = slot[u] /\ gen'[u] = gen[u]
    BY <1>4 DEF AttachAnd
  <2>0. dead[slot[t]] /\ slot[t] \in attached
    BY <1>4 DEF AttachAnd, SlotOwner, AttachOwner, Exclusive, Constructing
  <2>1. PICK h \in Handles : h = Object(slot[t])
    <3>1. slot[t] \in Slots /\ key[slot[t]] \in 1..KeyLimit
      BY <1>4, ArenaAssumption DEF AttachAnd
    <3>2. QED
      BY <3>1 DEF Handles
  <2>2. h \notin Live /\ Live' = Live \union {h}
    BY <1>4, <2>0, <2>1 DEF AttachAnd, Live
  <2>3. Rooted' = Rooted \union {h}
    BY <1>4, <2>0, <2>1, <2>2 DEF AttachAnd, Rooted
  <2>4. StatusOf(t)' = StatusOf(t)
    BY <1>4, StatusIs, StatusBecomes DEF AttachAnd
  <2>5. Status' = Status
    BY <2>f, <2>4, StatusMoves DEF Status
  <2>6. Table!Create(h)
    BY <2>2, <2>3, <2>5 DEF Table!Create
  <2>7. QED
    BY <2>6, TableNext
<1>5. ASSUME NEW t \in Threads, NEW h \in issued, Get(t, h) PROVE Table!HNext \/ UNCHANGED Table!hvars
  <2>f. \A u \in Threads \ {t} : pc'[u] = pc[u] /\ slot'[u] = slot[u] /\ gen'[u] = gen[u]
    BY <1>5 DEF Get
  <2>1. Live' = Live /\ Rooted' = Rooted
    BY <1>5 DEF Get, Live, Rooted
  <2>2. StatusOf(t)' = StatusOf(t)
    BY <1>5, StatusIs, StatusBecomes DEF Get, Exclusive, Constructing, Destroying
  <2>3. QED
    BY <2>f, <2>1, <2>2, TableStutter
<1>6. ASSUME NEW t \in Threads, AcquireIncrement(t) PROVE Table!HNext \/ UNCHANGED Table!hvars
  <2>f. \A u \in Threads \ {t} : pc'[u] = pc[u] /\ slot'[u] = slot[u] /\ gen'[u] = gen[u]
    BY <1>6 DEF AcquireIncrement
  <2>1. Live' = Live /\ Rooted' = Rooted
    BY <1>6 DEF AcquireIncrement, Live, Rooted
  <2>2. CASE ~dead[slot[t]]
    <3>1. StatusOf(t)' = StatusOf(t)
      BY <1>6, <2>2, StatusIs, StatusBecomes DEF AcquireIncrement
    <3>2. QED
      BY <2>f, <2>1, <3>1, TableStutter
  <2>3. CASE dead[slot[t]]
    <3>1. PICK h \in Handles : h = Handle(slot[t], gen[t])
      BY <1>6 DEF AcquireIncrement
    <3>2. h \notin Live
      BY <2>3, <3>1 DEF Live
    <3>3. StatusOf(t) = Table!Idle /\ StatusOf(t)' = Table!Refused(h)
      BY <1>6, <2>3, <3>1, StatusIs, StatusBecomes DEF AcquireIncrement
    <3>4. Status' = [Status EXCEPT ![t] = Table!Refused(h)] /\ Status[t] = Table!Idle
      BY <2>f, <3>3, StatusMoves DEF Status
    <3>5. Table!Refuse(t, h)
      BY <2>1, <3>2, <3>4 DEF Table!Refuse
    <3>6. QED
      BY <3>5, TableNext
  <2>4. QED
    BY <2>2, <2>3
<1>7. ASSUME NEW t \in Threads, AcquireCompare(t) PROVE Table!HNext \/ UNCHANGED Table!hvars
  <2>f. \A u \in Threads \ {t} : pc'[u] = pc[u] /\ slot'[u] = slot[u] /\ gen'[u] = gen[u]
    BY <1>7 DEF AcquireCompare
  <2>1. Live' = Live /\ Rooted' = Rooted
    BY <1>7 DEF AcquireCompare, Live, Rooted
  <2>2. PICK h \in Handles : h = Handle(slot[t], gen[t]) /\ h \in issued
    BY <1>7 DEF AcquireCompare
  <2>3. StatusOf(t) = Table!Idle
    BY <1>7, StatusIs DEF AcquireCompare
  <2>4. CASE key[slot[t]] = gen[t]
    <3>1. h \in Live
      BY <1>7, <2>2, <2>4 DEF Live, AcquireCompare, CallerSafe
    <3>2. StatusOf(t)' = Table!Opened(h)
      BY <1>7, <2>2, <2>4, StatusBecomes DEF AcquireCompare
    <3>3. Status' = [Status EXCEPT ![t] = Table!Opened(h)] /\ Status[t] = Table!Idle
      BY <2>f, <2>3, <3>2, StatusMoves DEF Status
    <3>4. Table!Open(t, h)
      BY <2>1, <3>1, <3>3 DEF Table!Open
    <3>5. QED
      BY <3>4, TableNext
  <2>5. CASE key[slot[t]] # gen[t]
    <3>1. h \notin Live
      BY <2>2, <2>5 DEF Live
    <3>2. StatusOf(t)' = Table!Refused(h)
      BY <1>7, <2>2, <2>5, StatusBecomes DEF AcquireCompare
    <3>3. Status' = [Status EXCEPT ![t] = Table!Refused(h)] /\ Status[t] = Table!Idle
      BY <2>f, <2>3, <3>2, StatusMoves DEF Status
    <3>4. Table!Refuse(t, h)
      BY <2>1, <3>1, <3>3 DEF Table!Refuse
    <3>5. QED
      BY <3>4, TableNext
  <2>6. QED
    BY <2>4, <2>5
<1>8. ASSUME NEW t \in Threads, Retire(t) PROVE Table!HNext \/ UNCHANGED Table!hvars
  <2>f. \A u \in Threads \ {t} : pc'[u] = pc[u] /\ slot'[u] = slot[u] /\ gen'[u] = gen[u]
    BY <1>8 DEF Retire
  <2>1. PICK h \in Handles : h = Handle(slot[t], gen[t]) /\ h \in issued
    BY <1>8 DEF Retire
  <2>2. h \in Rooted
    BY <1>8, <2>1 DEF Retire, CallerSafe, Live, Rooted
  <2>3. Live' = Live
    BY <1>8 DEF Retire, Live
  <2>4. Rooted' = Rooted \ {h}
    BY <1>8, <2>1, <2>2, <2>3 DEF Retire, Live, Rooted
  <2>5. StatusOf(t) = Table!Opened(h) /\ StatusOf(t)' = Table!Opened(h)
    BY <1>8, <2>1, StatusIs, StatusBecomes DEF Retire
  <2>6. Status' = Status /\ Status[t] = Table!Opened(h)
    BY <2>f, <2>5, StatusMoves DEF Status
  <2>7. Table!Unroot(t, h)
    BY <2>2, <2>3, <2>4, <2>6 DEF Table!Unroot
  <2>8. QED
    BY <2>7, TableNext
<1>9. ASSUME NEW t \in Threads, ReleaseDecrement(t) PROVE Table!HNext \/ UNCHANGED Table!hvars
  <2>f. \A u \in Threads \ {t} : pc'[u] = pc[u] /\ slot'[u] = slot[u] /\ gen'[u] = gen[u]
    BY <1>9 DEF ReleaseDecrement
  <2>1. Live' = Live /\ Rooted' = Rooted
    BY <1>9 DEF ReleaseDecrement, Live, Rooted
  <2>2. StatusOf(t)' = Table!Idle
    BY <1>9, StatusBecomes DEF ReleaseDecrement
  <2>3. StatusOf(t) # Table!Idle
    BY <1>9, StatusIs, AnswersDiffer DEF ReleaseDecrement
  <2>4. Status' = [Status EXCEPT ![t] = Table!Idle] /\ Status[t] # Table!Idle
    BY <2>f, <2>2, <2>3, StatusMoves DEF Status
  <2>5. Table!Close(t)
    BY <2>1, <2>4 DEF Table!Close
  <2>6. Handle(slot[t], gen[t]) \in Handles
    BY <1>9 DEF ReleaseDecrement
  <2>7. QED
    BY <2>5, <2>6, TableNext
<1>10. ASSUME NEW t \in Threads, ReleaseMark(t) PROVE Table!HNext \/ UNCHANGED Table!hvars
  <2>f. \A u \in Threads \ {t} : pc'[u] = pc[u] /\ slot'[u] = slot[u] /\ gen'[u] = gen[u]
    BY <1>10 DEF ReleaseMark
  <2>1. StatusOf(t)' = StatusOf(t)
    BY <1>10, StatusIs, StatusBecomes DEF ReleaseMark
  <2>2. CASE count[slot[t]] = 0 /\ ~dead[slot[t]]
    <3>1. PICK h \in Handles : h = Object(slot[t]) /\ h \in issued
      BY <1>10, <2>2 DEF ReleaseMark
    <3>2. Holders(slot[t]) = {} /\ slot[t] \notin attached
      BY <2>2, HeldIsCounted
    <3>3. h \in Live \ Rooted
      BY <2>2, <3>1, <3>2 DEF Live, Rooted
    <3>4. Live' = Live \ {h} /\ Rooted' = Rooted
      BY <1>10, <2>2, <3>1, <3>2 DEF ReleaseMark, Live, Rooted
    <3>5. ASSUME NEW u \in Threads, Status[u] = Table!Opened(h) PROVE FALSE
      <4>1. pc[u] \in Using
        BY <3>5, StatusIs, AnswersDiffer DEF Status
      <4>2. h = Handle(slot[u], gen[u])
        BY <3>5, <4>1, StatusIs, AnswersDiffer DEF Status
      <4>3. QED
        BY <3>1, <3>2, <4>1, <4>2 DEF Holders
    <3>6. Status' = Status
      BY <2>f, <2>1, StatusMoves DEF Status
    <3>7. Table!Destroy(h)
      BY <3>3, <3>4, <3>5, <3>6 DEF Table!Destroy
    <3>8. QED
      BY <3>7, TableNext
  <2>3. CASE ~(count[slot[t]] = 0 /\ ~dead[slot[t]])
    <3>1. Live' = Live /\ Rooted' = Rooted
      BY <1>10, <2>3 DEF ReleaseMark, Live, Rooted
    <3>2. QED
      BY <2>f, <2>1, <3>1, TableStutter
  <2>4. QED
    BY <2>2, <2>3
<1>11. ASSUME NEW t \in Threads, Delete(t) PROVE Table!HNext \/ UNCHANGED Table!hvars
  <2>f. \A u \in Threads \ {t} : pc'[u] = pc[u] /\ slot'[u] = slot[u] /\ gen'[u] = gen[u]
    BY <1>11 DEF Delete
  <2>1. Live' = Live /\ Rooted' = Rooted
    BY <1>11 DEF Delete, Live, Rooted
  <2>2. StatusOf(t)' = StatusOf(t)
    BY <1>11, StatusIs, StatusBecomes DEF Delete, Exclusive, Constructing, Destroying
  <2>3. QED
    BY <2>f, <2>1, <2>2, TableStutter
<1>12. ASSUME NEW t \in Threads, Deallocate(t) PROVE Table!HNext \/ UNCHANGED Table!hvars
  <2>f. \A u \in Threads \ {t} : pc'[u] = pc[u] /\ slot'[u] = slot[u] /\ gen'[u] = gen[u]
    BY <1>12 DEF Deallocate
  <2>1. Live' = Live /\ Rooted' = Rooted
    BY <1>12 DEF Deallocate, Live, Rooted
  <2>2. StatusOf(t)' = StatusOf(t)
    BY <1>12, StatusIs, StatusBecomes DEF Deallocate, Exclusive, Constructing, Destroying
  <2>3. QED
    BY <2>f, <2>1, <2>2, TableStutter
<1>13. CASE UNCHANGED vars
  <2>1. Status' = Status /\ Live' = Live /\ Rooted' = Rooted
    BY <1>13 DEF vars, Status, StatusOf, Live, Rooted
  <2>2. QED
    BY <2>1 DEF Table!hvars
<1>14. QED
  BY <1>1, <1>2, <1>3, <1>4, <1>5, <1>6, <1>7, <1>8, <1>9, <1>10, <1>11, <1>12, <1>13
  DEF Next, Attach, Acquire, Release

\* The reference-counted slots implement the table of handles: a handle opens
\* its own object or is refused for good, and no open object is destroyed.
THEOREM TableImplemented == Spec => ImplementsTable
<1>1. Init => Table!HInit
  <2> SUFFICES ASSUME Init PROVE Table!HInit
    OBVIOUS
  <2>1. Live = {} /\ Rooted = {}
    BY DEF Init, Live, Rooted
  <2>2. Status = [t \in Threads |-> Table!Idle]
    BY StatusIs DEF Init, Status, Using
  <2>3. QED
    BY <2>1, <2>2 DEF Table!HInit
<1>2. IInv /\ HandlesAreRight /\ [Next]_vars => [Table!HNext]_(Table!hvars)
  BY TableStep
<1>3. QED
  BY Invariance, HandlesCorrect, <1>1, <1>2, PTL DEF Spec, ImplementsTable, Table!HSpec
=============================================================================
