---------------------------- MODULE LocksProofs ----------------------------
(***************************************************************************)
(* The safety of the locks for any number of threads, words, readers,       *)
(* coroutines and mutexes.  The argument for wait_on_address_lock: the word is 1 exactly   *)
(* while one thread is inside, and whoever takes the word from 1 to 0 wakes *)
(* a sleeper next.  For the sequence lock: the sequence is even exactly     *)
(* between two writes and never returns, so what a reader copied at the     *)
(* sequence it started at is what the words still hold.  For the lock of    *)
(* coroutines: a coroutine has been given, or is in the queue of, each      *)
(* mutex of its request that it has come to and not given back, not both;   *)
(* one that a queue lets go is suspended, because one that still takes its  *)
(* mutexes holds the spin lock of each it has seen; and what it depends on  *)
(* is counted by its queues and by the news on its way to it.               *)
(***************************************************************************)
EXTENDS MCLocks, FiniteSetTheorems, SequenceTheorems, WellFoundedInduction, TLAPS

Inside == {t \in Threads : pc[t] = "inside"}

\* Only threads of the lock that sleeps are on their way to sleep or to wake.
SpinnersAreAwake ==
  ~sleeps => \A t \in Threads : pc[t] \notin {"wait", "asleep", "wake"}

WaitLockIsRight ==
  /\ TypeOK
  /\ IF address = 1 THEN \E t \in Threads : Inside = {t} ELSE Inside = {}
  /\ SpinnersAreAwake
  /\ NoLostWakeup

\* The sequence counts the beginnings and the ends of writes; outside of a
\* write every word is of the last one.
WordsAreRight ==
  /\ IF inside THEN sequence = 2 * round - 1 ELSE sequence = 2 * round
  /\ ~inside => writing = {}
  /\ \A w \in Words \ writing : data[w] = round

\* While the sequence stands where a reader found it, and no write is going
\* on, what the reader has copied is what the words hold.
CopyIsRight(r) ==
  /\ start[r] <= sequence
  /\ reading[r] = "copy" /\ start[r] = sequence /\ ~inside =>
       \A w \in copied[r] : copy[r][w] = data[w]

SeqLockIsRight ==
  /\ Sequenced!TypeOK
  /\ WordsAreRight
  /\ \A r \in Readers : CopyIsRight(r)

Modes == {"exclude", "share"}
Stages == {"idle", "taking", "leaving", "suspended", "inside", "unlocking"}

GrantsAreTyped ==
  /\ spin \in [Suspending!Mutexes -> Coroutines \union {0}]
  /\ exclusive \in [Suspending!Mutexes -> BOOLEAN] /\ shared \in [Suspending!Mutexes -> Int]
  /\ waiter \in [Suspending!Mutexes -> Seq([lock : Coroutines, mode : Modes])]
  /\ proxy \in [Coroutines -> Seq(Suspending!Proxies)]
  /\ dependency \in [Coroutines -> Int]
  /\ stage \in [Coroutines -> Stages]
  /\ taking \in [Coroutines -> Nat]
  /\ spun \in [Coroutines -> SUBSET Suspending!Mutexes]
  /\ granted \in [Coroutines -> SUBSET Suspending!Mutexes]
  /\ woken \in [Coroutines -> Seq(Coroutines)]

\* A request names a mutex once; a coroutine at rest asks for nothing.
RequestIsRight(c) ==
  /\ taking[c] <= Len(proxy[c])
  /\ \A i, j \in 1 .. Len(proxy[c]) : proxy[c][i].mutex = proxy[c][j].mutex => i = j
  /\ stage[c] = "idle" => proxy[c] = <<>>

\* A spin lock is held by the coroutine that has still to let it go, and one that
\* takes its mutexes holds the spin locks of all it has seen.
SpinIsRight(c) ==
  /\ \A m \in Suspending!Mutexes : m \in spun[c] <=> spin[m] = c
  /\ stage[c] = "taking" => \A i \in 1 .. taking[c] : proxy[c][i].mutex \in spun[c]

\* The places of a request that a coroutine has been given or queues for.
Places(c) ==
  IF stage[c] = "taking" THEN 1 .. taking[c]
  ELSE IF stage[c] = "unlocking" THEN taking[c] + 1 .. Len(proxy[c])
  ELSE 1 .. Len(proxy[c])

InQueue(c, m) == \E i \in 1 .. Len(waiter[m]) : waiter[m][i].lock = c

\* It has what it asked for or is in its queue, not both, and goes on when it is
\* in no queue.
PlacesAreRight(c) ==
  \A m \in Suspending!Mutexes :
    /\ m \in granted[c] \/ InQueue(c, m) <=> \E i \in Places(c) : proxy[c][i].mutex = m
    /\ ~(m \in granted[c] /\ InQueue(c, m))
    /\ InQueue(c, m) => stage[c] \in {"taking", "suspended"}

\* A queue has a coroutine once, in the mode that it asked for.
QueueIsRight(m) ==
  /\ \A i, j \in 1 .. Len(waiter[m]) : waiter[m][i].lock = waiter[m][j].lock => i = j
  /\ \A i \in 1 .. Len(waiter[m]) :
       \E k \in 1 .. Len(proxy[waiter[m][i].lock]) :
         proxy[waiter[m][i].lock][k] = [mutex |-> m, mode |-> waiter[m][i].mode]

\* News is on its way only from one that unlocks to those that are suspended.
NewsIsRight(d) ==
  /\ woken[d] # <<>> => stage[d] = "unlocking"
  /\ \A i, j \in 1 .. Len(woken[d]) : woken[d][i] = woken[d][j] => i = j
  /\ \A i \in 1 .. Len(woken[d]) : stage[woken[d][i]] = "suspended"

DependencyIsRight(c) ==
  /\ dependency[c] = Cardinality(Suspending!Queued(c)) + Cardinality(Suspending!Told(c))
  /\ stage[c] = "suspended" => dependency[c] # 0

MutexIsRight(m) ==
  /\ IF exclusive[m] THEN \E c \in Coroutines : Suspending!Holders(m, "exclude") = {c}
     ELSE Suspending!Holders(m, "exclude") = {}
  /\ shared[m] = Cardinality(Suspending!Holders(m, "share"))
  /\ ~(exclusive[m] /\ shared[m] > 0)
  /\ waiter[m] # <<>> => exclusive[m] \/ shared[m] > 0

SuspendingIsRight ==
  /\ GrantsAreTyped
  /\ \A c \in Coroutines :
       /\ RequestIsRight(c) /\ SpinIsRight(c) /\ PlacesAreRight(c)
       /\ NewsIsRight(c) /\ DependencyIsRight(c)
  /\ \A m \in Suspending!Mutexes : QueueIsRight(m) /\ MutexIsRight(m)

IInv == WaitLockIsRight /\ SeqLockIsRight /\ SuspendingIsRight

-----------------------------------------------------------------------------
(* The locks that sleep and spin.                                          *)

\* Initially nobody has asked for the lock.
LEMMA WaitLockInit ==
  ASSUME Init
  PROVE  WaitLockIsRight
BY DEF Init, WaitLockIsRight, TypeOK, PCs, Inside, SpinnersAreAwake, NoLostWakeup, Sleepers

\* A step keeps the types.
LEMMA WaitLockType ==
  ASSUME TypeOK, NEW t \in Threads, Lock(t) \/ WakeUp(t) \/ Step(t)
  PROVE  TypeOK'
<1> USE DEF TypeOK, PCs, Goto
<1>1. CASE Lock(t) \/ WakeUp(t)
  BY <1>1 DEF Lock, WakeUp
<1>2. CASE LockLoad(t) \/ LockExchange(t) \/ Wait(t) \/ Unlock(t)
  BY <1>2 DEF LockLoad, LockExchange, Wait, Unlock, Again
<1>3. CASE UnlockWake(t)
  BY <1>3 DEF UnlockWake, Sleepers
<1>4. QED
  BY <1>1, <1>2, <1>3 DEF Step

\* A step keeps one thread inside the lock, and only while it is taken.
LEMMA OneInside ==
  ASSUME WaitLockIsRight, NEW t \in Threads, Lock(t) \/ WakeUp(t) \/ Step(t), TypeOK'
  PROVE  (IF address = 1 THEN \E u \in Threads : Inside = {u} ELSE Inside = {})'
<1> USE DEF TypeOK, Goto, Inside, WaitLockIsRight
<1>1. CASE Lock(t) \/ WakeUp(t) \/ LockLoad(t) \/ Wait(t) \/ UnlockWake(t)
  <2>1. Inside' = Inside /\ address' = address
    BY <1>1 DEF Lock, WakeUp, LockLoad, Wait, UnlockWake, Again, Sleepers
  <2>2. QED
    BY <2>1
<1>2. CASE LockExchange(t)
  <2>1. CASE address = 1
    <3>1. Inside' = Inside /\ address' = 1
      BY <1>2, <2>1 DEF LockExchange, Again
    <3>2. QED
      BY <2>1, <3>1
  <2>2. CASE address = 0
    <3>1. Inside' = {t} /\ address' = 1
      BY <1>2, <2>2 DEF LockExchange
    <3>2. QED
      BY <3>1
  <2>3. QED
    BY <2>1, <2>2
<1>3. CASE Unlock(t)
  <2>1. t \in Inside /\ address = 1
    BY <1>3 DEF Unlock
  <2>2. Inside = {t}
    BY <2>1
  <2>3. Inside' = {} /\ address' = 0
    BY <1>3, <2>2 DEF Unlock
  <2>4. QED
    BY <2>3
<1>4. QED
  BY <1>1, <1>2, <1>3 DEF Step

\* A step leaves nobody asleep whom nobody will wake.
LEMMA WakeupIsKept ==
  ASSUME WaitLockIsRight, NEW t \in Threads, Lock(t) \/ WakeUp(t) \/ Step(t), TypeOK'
  PROVE  (SpinnersAreAwake /\ NoLostWakeup)'
<1> USE DEF TypeOK, Goto, WaitLockIsRight, SpinnersAreAwake, NoLostWakeup, Sleepers
<1>1. CASE Lock(t) \/ WakeUp(t)
  BY <1>1 DEF Lock, WakeUp
<1>2. CASE LockLoad(t)
  BY <1>2 DEF LockLoad, Again
<1>3. CASE LockExchange(t)
  BY <1>3 DEF LockExchange, Again
<1>4. CASE Wait(t)
  BY <1>4 DEF Wait
<1>5. CASE Unlock(t)
  BY <1>5 DEF Unlock
<1>6. CASE UnlockWake(t)
  BY <1>6 DEF UnlockWake
<1>7. QED
  BY <1>1, <1>2, <1>3, <1>4, <1>5, <1>6 DEF Step

\* Every step of the lock keeps its invariant.
LEMMA WaitLockStep ==
  ASSUME WaitLockIsRight, Next
  PROVE  WaitLockIsRight'
<1>1. PICK t \in Threads : Lock(t) \/ WakeUp(t) \/ Step(t)
  BY DEF Next
<1>2. TypeOK'
  BY <1>1, WaitLockType DEF WaitLockIsRight
<1>3. QED
  BY <1>1, <1>2, OneInside, WakeupIsKept DEF WaitLockIsRight

\* The invariant is that the lock is a lock.
LEMMA WaitLockImplies ==
  ASSUME WaitLockIsRight, WaitLockAssumption
  PROVE  MutualExclusion /\ NoLostWakeup
<1>1. CASE address = 1
  <2>1. PICK t \in Threads : Inside = {t}
    BY <1>1 DEF WaitLockIsRight
  <2>2. Cardinality(Inside) = 1
    BY <2>1, FS_Singleton
  <2>3. QED
    BY <1>1, <2>2 DEF WaitLockIsRight, MutualExclusion, Inside
<1>2. CASE address = 0
  <2>1. Cardinality(Inside) = 0
    BY <1>2, FS_EmptySet DEF WaitLockIsRight
  <2>2. QED
    BY <1>2, <2>1 DEF WaitLockIsRight, MutualExclusion, Inside
<1>3. QED
  BY <1>1, <1>2 DEF WaitLockIsRight, TypeOK

-----------------------------------------------------------------------------
(* The sequence lock.                                                      *)

\* Initially nothing was written and nobody reads.
LEMMA SeqLockInit ==
  ASSUME Sequenced!Init
  PROVE  SeqLockIsRight
<1> USE DEF Sequenced!Init
<1>1. Sequenced!TypeOK
  BY DEF Sequenced!TypeOK
<1>2. WordsAreRight
  <2>1. ~inside /\ sequence = 0 /\ round = 0 /\ writing = {} /\ \A w \in Words : data[w] = 0
    OBVIOUS
  <2>2. QED
    BY <2>1 DEF WordsAreRight
<1>3. \A r \in Readers : CopyIsRight(r)
  BY DEF CopyIsRight
<1>4. QED
  BY <1>1, <1>2, <1>3 DEF SeqLockIsRight

\* The three steps of the writer keep it.
LEMMA WriterStep ==
  ASSUME SeqLockIsRight,
         Sequenced!WriteStart \/ (\E w \in Words : Sequenced!WriteWord(w)) \/ Sequenced!WriteEnd
  PROVE  SeqLockIsRight'
<1> USE DEF SeqLockIsRight, WordsAreRight, CopyIsRight, Sequenced!TypeOK, Sequenced!readerVars
<1>1. CASE Sequenced!WriteStart
  BY <1>1 DEF Sequenced!WriteStart
<1>2. ASSUME NEW w \in Words, Sequenced!WriteWord(w)
      PROVE  SeqLockIsRight'
  BY <1>2 DEF Sequenced!WriteWord
<1>3. CASE Sequenced!WriteEnd
  <2> USE <1>3 DEF Sequenced!WriteEnd
  <2>1. Sequenced!TypeOK'
    <3>1. sequence' \in Nat
      OBVIOUS
    <3>2. inside' = FALSE
      OBVIOUS
    <3>3. QED
      BY <3>1, <3>2
  <2>2. WordsAreRight'
    OBVIOUS
  <2>3. ASSUME NEW r \in Readers
        PROVE  CopyIsRight(r)'
    OBVIOUS
  <2>4. QED
    BY <2>1, <2>2, <2>3
<1>4. QED
  BY <1>1, <1>2, <1>3

\* The steps of a reader keep it.
LEMMA ReaderStep ==
  ASSUME SeqLockIsRight, NEW r \in Readers, Sequenced!Read(r)
  PROVE  SeqLockIsRight'
<1> USE DEF SeqLockIsRight, WordsAreRight, CopyIsRight, Sequenced!TypeOK
<1>1. CASE Sequenced!ReadStart(r)
  BY <1>1 DEF Sequenced!ReadStart
<1>2. ASSUME NEW w \in Words, Sequenced!ReadWord(r, w)
      PROVE  SeqLockIsRight'
  BY <1>2 DEF Sequenced!ReadWord
<1>3. CASE Sequenced!ReadEnd(r) \/ Sequenced!Done(r)
  <2>1. UNCHANGED <<sequence, data, writing, round, inside, start, copied, copy>>
    BY <1>3 DEF Sequenced!ReadEnd, Sequenced!Done
  <2>2. \/ reading' = [reading EXCEPT ![r] = "accepted"]
        \/ reading' = [reading EXCEPT ![r] = "idle"]
    BY <1>3 DEF Sequenced!ReadEnd, Sequenced!Done
  <2>3. Sequenced!TypeOK' /\ WordsAreRight'
    BY <2>1, <2>2
  <2>4. ASSUME NEW q \in Readers
        PROVE  CopyIsRight(q)'
    BY <2>1, <2>2
  <2>5. QED
    BY <2>3, <2>4
<1>4. QED
  BY <1>1, <1>2, <1>3 DEF Sequenced!Read

\* What a reader is about to accept was copied between two writes.
LEMMA SeqLockImplies ==
  ASSUME SeqLockIsRight
  PROVE  Sequenced!AcceptedIsCurrent
<1> SUFFICES ASSUME NEW r \in Readers, reading[r] = "copy", copied[r] = Words,
                    Sequenced!Valid(start[r])
             PROVE  copy[r] = data /\ \A w \in Words : data[w] = round
  BY DEF Sequenced!AcceptedIsCurrent, SeqLockIsRight
<1>1. start[r] = sequence /\ sequence % 2 = 0
  BY DEF Sequenced!Valid
<1>2. ~inside
  <2>1. round \in Nat /\ inside \in BOOLEAN
    BY DEF SeqLockIsRight, Sequenced!TypeOK
  <2>2. IF inside THEN sequence = 2 * round - 1 ELSE sequence = 2 * round
    BY DEF SeqLockIsRight, WordsAreRight
  <2>3. (2 * round - 1) % 2 = 1
    BY <2>1
  <2>4. QED
    BY <1>1, <2>2, <2>3
<1>3. \A w \in Words : data[w] = round
  BY <1>2 DEF SeqLockIsRight, WordsAreRight
<1>4. \A w \in Words : copy[r][w] = data[w]
  BY <1>1, <1>2 DEF SeqLockIsRight, CopyIsRight
<1>5. copy[r] \in [Words -> Nat] /\ data \in [Words -> Nat]
  BY DEF SeqLockIsRight, Sequenced!TypeOK
<1>6. QED
  BY <1>3, <1>4, <1>5

-----------------------------------------------------------------------------
(* The lock of coroutines.                                                 *)

\* A member of a sequence is one of what it is a sequence of.
LEMMA ElementOf ==
  ASSUME NEW S, NEW s \in Seq(S), NEW i \in 1 .. Len(s)
  PROVE  s[i] \in S
OBVIOUS

\* The instance counts as this module does.
LEMMA SuspendingCardinality ==
  ASSUME NEW S
  PROVE  /\ Suspending!Cardinality(S) = Cardinality(S)
         /\ Suspending!IsFiniteSet(S) <=> IsFiniteSet(S)
<1>1. Suspending!Cardinality(S) = Cardinality(S)
  BY DEF Suspending!Cardinality, Cardinality
<1>2. Suspending!IsFiniteSet(S) <=> IsFiniteSet(S)
  BY DEF Suspending!IsFiniteSet, IsFiniteSet
<1>3. QED
  BY <1>1, <1>2

\* A set of numbers that is not empty has a least one.
LEMMA LeastNumber ==
  ASSUME NEW S \in SUBSET Nat, S # {}
  PROVE  \E n \in S : \A o \in S : n <= o
<1> DEFINE Smaller == {ss \in Nat \X Nat : ss[1] < ss[2]}
<1>1. IsWellFoundedOn(Smaller, Nat)
  BY NatLessThanWellFounded DEF OpToRel
<1>2. \E x \in S : \A y \in S : ~ (<<y, x>> \in Smaller)
  BY <1>1, WFMin
<1>3. PICK x \in S : \A y \in S : ~ (<<y, x>> \in Smaller)
  BY <1>2
<1>4. ASSUME NEW y \in S PROVE x <= y
  <2>1. ~ (y < x)
    BY <1>3
  <2>2. QED
    BY <2>1
<1>5. QED
  BY <1>4

\* What is counted is finite.
LEMMA GrantsAreFinite ==
  ASSUME NEW c \in Coroutines, NEW m \in Suspending!Mutexes, NEW mode
  PROVE  /\ IsFiniteSet(Suspending!Queued(c)) /\ IsFiniteSet(Suspending!Told(c))
         /\ IsFiniteSet(Suspending!Holders(m, mode))
<1>1. IsFiniteSet(Coroutines) /\ MutexCount \in Nat
  BY SuspendingAssumed, SuspendingCardinality DEF Suspending!CoroutineLockAssumption
<1>2. IsFiniteSet(Suspending!Mutexes)
  BY <1>1, FS_Interval DEF Suspending!Mutexes
<1>3. /\ Suspending!Queued(c) \subseteq Suspending!Mutexes /\ Suspending!Told(c) \subseteq Coroutines
      /\ Suspending!Holders(m, mode) \subseteq Coroutines
  BY DEF Suspending!Queued, Suspending!Told, Suspending!Holders
<1>4. QED
  BY <1>1, <1>2, <1>3, FS_Subset

\* Who is in a queue is a coroutine, in one of the modes.
LEMMA EntryIsTyped ==
  ASSUME GrantsAreTyped, NEW m \in Suspending!Mutexes, NEW i \in 1 .. Len(waiter[m])
  PROVE  waiter[m][i].lock \in Coroutines /\ waiter[m][i].mode \in Modes
<1>1. waiter[m] \in Seq([lock : Coroutines, mode : Modes])
  BY DEF GrantsAreTyped
<1>2. waiter[m][i] \in [lock : Coroutines, mode : Modes]
  BY <1>1, ElementOf
<1>3. QED
  BY <1>2

\* What a coroutine asks for, in the order in which it is taken.
LEMMA SortedIsRight ==
  ASSUME NEW request \in Requests, NEW order \in Suspending!Sorted(request)
  PROVE  /\ order \in Seq(Suspending!Proxies)
         /\ \A i, j \in 1 .. Len(order) : order[i].mutex = order[j].mutex => i = j
<1>1. /\ request \in Seq(Suspending!Proxies)
      /\ \A i, j \in DOMAIN request : request[i].mutex = request[j].mutex => i = j
  BY SuspendingAssumed DEF Suspending!CoroutineLockAssumption
<1>2. DOMAIN request = 1 .. Len(request) /\ Len(request) \in Nat
  BY <1>1
<1>3. PICK o \in Suspending!Injection(DOMAIN request, DOMAIN request) :
        order = [i \in DOMAIN request |-> request[o[i]]]
  BY DEF Suspending!Sorted
<1>4. /\ o \in [1 .. Len(request) -> 1 .. Len(request)]
      /\ \A i, j \in 1 .. Len(request) : o[i] = o[j] => i = j
  BY <1>2, <1>3 DEF Suspending!Injection, Suspending!IsInjective
<1>5. order = [i \in 1 .. Len(request) |-> request[o[i]]]
  BY <1>2, <1>3
<1>6. \A i \in 1 .. Len(request) : request[o[i]] \in Suspending!Proxies
  BY <1>1, <1>4
<1>7. order \in Seq(Suspending!Proxies) /\ Len(order) = Len(request)
  BY <1>2, <1>5, <1>6
<1>8. ASSUME NEW i \in 1 .. Len(order), NEW j \in 1 .. Len(order), order[i].mutex = order[j].mutex
      PROVE  i = j
  <2>1. i \in 1 .. Len(request) /\ j \in 1 .. Len(request) /\ o[i] \in DOMAIN request /\ o[j] \in DOMAIN request
    BY <1>2, <1>4, <1>7
  <2>2. request[o[i]].mutex = request[o[j]].mutex
    BY <1>5, <1>8, <2>1
  <2>3. QED
    BY <1>1, <1>4, <2>1, <2>2
<1>9. QED
  BY <1>7, <1>8

\* Initially nobody asks for a mutex.
LEMMA SuspendingInit ==
  ASSUME Suspending!Init
  PROVE  SuspendingIsRight
<1> USE DEF Suspending!Init, Suspending!Nobody
<1>0. 0 \notin Coroutines
  BY SuspendingAssumed DEF Suspending!CoroutineLockAssumption
<1>1. GrantsAreTyped
  BY DEF GrantsAreTyped, Stages
<1>2. ASSUME NEW c \in Coroutines
      PROVE  /\ RequestIsRight(c) /\ SpinIsRight(c) /\ PlacesAreRight(c) /\ NewsIsRight(c)
             /\ Suspending!Queued(c) = {} /\ Suspending!Told(c) = {}
  <2>1. /\ proxy[c] = <<>> /\ taking[c] = 0 /\ stage[c] = "idle" /\ spun[c] = {} /\ granted[c] = {}
        /\ woken[c] = <<>> /\ Len(proxy[c]) = 0
    OBVIOUS
  <2>2. \A m \in Suspending!Mutexes : waiter[m] = <<>> /\ spin[m] = 0 /\ ~InQueue(c, m)
    BY DEF InQueue
  <2>3. RequestIsRight(c) /\ NewsIsRight(c)
    BY <2>1 DEF RequestIsRight, NewsIsRight
  <2>4. SpinIsRight(c)
    BY <1>0, <2>1, <2>2 DEF SpinIsRight
  <2>5. PlacesAreRight(c)
    BY <2>1, <2>2 DEF PlacesAreRight, Places
  <2>6. Suspending!Queued(c) = {} /\ Suspending!Told(c) = {}
    BY <2>2 DEF Suspending!Queued, Suspending!Told
  <2>7. QED
    BY <2>3, <2>4, <2>5, <2>6
<1>3. ASSUME NEW c \in Coroutines
      PROVE  DependencyIsRight(c)
  <2>1. dependency[c] = 0 /\ stage[c] = "idle"
    OBVIOUS
  <2>2. Cardinality(Suspending!Queued(c)) = 0 /\ Cardinality(Suspending!Told(c)) = 0
    BY <1>2, FS_EmptySet
  <2>3. QED
    BY <2>1, <2>2 DEF DependencyIsRight
<1>4. ASSUME NEW m \in Suspending!Mutexes
      PROVE  QueueIsRight(m) /\ MutexIsRight(m)
  <2>1. \A mode : Suspending!Holders(m, mode) = {}
    BY DEF Suspending!Holders
  <2>2. waiter[m] = <<>> /\ exclusive[m] = FALSE /\ shared[m] = 0
    OBVIOUS
  <2>3. QueueIsRight(m)
    BY <2>2 DEF QueueIsRight
  <2>4. Suspending!Holders(m, "exclude") = {} /\ Cardinality(Suspending!Holders(m, "share")) = 0
    BY <2>1, FS_EmptySet
  <2>5. QED
    BY <2>2, <2>3, <2>4 DEF MutexIsRight
<1>5. QED
  BY <1>1, <1>2, <1>3, <1>4 DEF SuspendingIsRight
\* What does not change while nobody is given a mutex, queues for one or hears of one.
Quiet ==
  /\ UNCHANGED <<waiter, woken, granted, exclusive, shared, dependency>>
  /\ \A c \in Coroutines :
       proxy'[c] = proxy[c] \/ (granted[c] = {} /\ \A m \in Suspending!Mutexes : ~InQueue(c, m))

\* The queues, the mutexes and the counts are as they were.
LEMMA QuietKeeps ==
  ASSUME SuspendingIsRight, Quiet
  PROVE  /\ \A m \in Suspending!Mutexes : QueueIsRight(m)' /\ MutexIsRight(m)'
         /\ \A c \in Coroutines : (stage'[c] = "suspended" => dependency[c] # 0) => DependencyIsRight(c)'
         /\ \A c \in Coroutines, m \in Suspending!Mutexes : InQueue(c, m)' <=> InQueue(c, m)
<1> USE DEF Quiet
<1>1. \A c \in Coroutines, m \in Suspending!Mutexes : InQueue(c, m)' <=> InQueue(c, m)
  BY DEF InQueue
<1>2. ASSUME NEW m \in Suspending!Mutexes
      PROVE  QueueIsRight(m)'
  <2>1. QueueIsRight(m) /\ waiter' = waiter
    BY DEF SuspendingIsRight
  <2>2. ASSUME NEW i \in 1 .. Len(waiter[m])
        PROVE  proxy'[waiter[m][i].lock] = proxy[waiter[m][i].lock]
    <3>1. waiter[m][i].lock \in Coroutines
      BY EntryIsTyped DEF SuspendingIsRight
    <3>2. InQueue(waiter[m][i].lock, m)
      BY DEF InQueue
    <3>3. QED
      BY <3>1, <3>2
  <2>3. ASSUME NEW i \in 1 .. Len(waiter[m])
        PROVE  \E k \in 1 .. Len(proxy'[waiter[m][i].lock]) :
                 proxy'[waiter[m][i].lock][k] = [mutex |-> m, mode |-> waiter[m][i].mode]
    <3>1. \E k \in 1 .. Len(proxy[waiter[m][i].lock]) :
            proxy[waiter[m][i].lock][k] = [mutex |-> m, mode |-> waiter[m][i].mode]
      BY <2>1 DEF QueueIsRight
    <3>2. QED
      BY <2>2, <3>1
  <2>4. QED
    <3>1. /\ waiter'[m] = waiter[m]
          /\ \A i, j \in 1 .. Len(waiter[m]) : waiter[m][i].lock = waiter[m][j].lock => i = j
      BY <2>1 DEF QueueIsRight
    <3>2. QED
      BY <2>3, <3>1 DEF QueueIsRight
<1>3. ASSUME NEW m \in Suspending!Mutexes
      PROVE  MutexIsRight(m)'
  <2>1. MutexIsRight(m)
    BY DEF SuspendingIsRight
  <2>2. \A mode : Suspending!Holders(m, mode)' = Suspending!Holders(m, mode)
    BY DEF Suspending!Holders
  <2>3. Suspending!Holders(m, "exclude")' = Suspending!Holders(m, "exclude")
    BY <2>2
  <2>4. Suspending!Holders(m, "share")' = Suspending!Holders(m, "share")
    BY <2>2
  <2>5. UNCHANGED <<exclusive, shared, waiter>>
    OBVIOUS
  <2>6. QED
    BY <2>1, <2>3, <2>4, <2>5 DEF MutexIsRight
<1>4. ASSUME NEW c \in Coroutines, stage'[c] = "suspended" => dependency[c] # 0
      PROVE  DependencyIsRight(c)'
  <2>1. DependencyIsRight(c)
    BY DEF SuspendingIsRight
  <2>2. Suspending!Queued(c)' = Suspending!Queued(c) /\ Suspending!Told(c)' = Suspending!Told(c)
    BY DEF Suspending!Queued, Suspending!Told
  <2>3. QED
    BY <1>4, <2>1, <2>2 DEF DependencyIsRight
<1>5. QED
  BY <1>1, <1>2, <1>3, <1>4

\* A coroutine at rest has nothing and waits for nothing.
LEMMA AtRest ==
  ASSUME SuspendingIsRight, NEW c \in Coroutines, Places(c) = {}
  PROVE  granted[c] = {} /\ \A m \in Suspending!Mutexes : ~InQueue(c, m)
<1>1. PlacesAreRight(c) /\ granted[c] \subseteq Suspending!Mutexes
  BY DEF SuspendingIsRight, GrantsAreTyped
<1>2. QED
  BY <1>1 DEF PlacesAreRight

\* To ask.
LEMMA AwaitKeeps ==
  ASSUME SuspendingIsRight, NEW c \in Coroutines, Suspending!Await(c)
  PROVE  SuspendingIsRight'
<1> USE DEF Suspending!Goto
<1>1. /\ stage[c] = "idle" /\ spun[c] = {} /\ proxy[c] = <<>>
      /\ RequestIsRight(c) /\ taking[c] = 0 /\ Places(c) = {}
  <2>1. stage[c] = "idle" /\ spun[c] = {} /\ RequestIsRight(c) /\ taking[c] \in Nat
    BY DEF Suspending!Await, SuspendingIsRight, GrantsAreTyped
  <2>2. proxy[c] = <<>> /\ taking[c] = 0
    BY <2>1 DEF RequestIsRight
  <2>3. QED
    BY <2>1, <2>2 DEF Places
<1>2. PICK order \in Seq(Suspending!Proxies) :
        /\ \A i, j \in 1 .. Len(order) : order[i].mutex = order[j].mutex => i = j
        /\ proxy' = [proxy EXCEPT ![c] = order]
  <2>1. PICK request \in Requests : \E o \in Suspending!Sorted(request) : proxy' = [proxy EXCEPT ![c] = o]
    BY DEF Suspending!Await
  <2>2. QED
    BY <2>1, SortedIsRight
<1>3. /\ taking' = [taking EXCEPT ![c] = 0] /\ stage' = [stage EXCEPT ![c] = "taking"]
      /\ UNCHANGED <<spin, exclusive, shared, waiter, dependency, spun, granted, woken>>
  BY DEF Suspending!Await
<1>4. GrantsAreTyped'
  BY <1>2, <1>3 DEF SuspendingIsRight, GrantsAreTyped, Stages
<1>5. granted[c] = {} /\ \A m \in Suspending!Mutexes : ~InQueue(c, m)
  BY <1>1, AtRest
<1>6. \A d \in Coroutines : d # c => proxy'[d] = proxy[d] /\ taking'[d] = taking[d] /\ stage'[d] = stage[d]
  BY <1>2, <1>3 DEF SuspendingIsRight, GrantsAreTyped
<1>7. proxy'[c] = order /\ taking'[c] = 0 /\ stage'[c] = "taking"
  BY <1>2, <1>3 DEF SuspendingIsRight, GrantsAreTyped
<1>8. Quiet
  <2>1. \A d \in Coroutines : proxy'[d] = proxy[d] \/ (granted[d] = {} /\ \A m \in Suspending!Mutexes : ~InQueue(d, m))
    BY <1>5, <1>6
  <2>2. QED
    BY <1>3, <2>1 DEF Quiet
<1>9. ASSUME NEW d \in Coroutines
      PROVE  (RequestIsRight(d) /\ SpinIsRight(d) /\ PlacesAreRight(d) /\ NewsIsRight(d) /\ DependencyIsRight(d))'
  <2>1. RequestIsRight(d) /\ SpinIsRight(d) /\ PlacesAreRight(d) /\ NewsIsRight(d) /\ DependencyIsRight(d)
    BY DEF SuspendingIsRight
  <2>2. NewsIsRight(d)'
    <3>1. /\ woken[d] \in Seq(Coroutines)
          /\ \A i \in 1 .. Len(woken[d]) : stage[woken[d][i]] = "suspended"
          /\ woken[d] # <<>> => stage[d] = "unlocking"
          /\ \A i, j \in 1 .. Len(woken[d]) : woken[d][i] = woken[d][j] => i = j
      BY <2>1 DEF NewsIsRight, SuspendingIsRight, GrantsAreTyped
    <3>2. \A i \in 1 .. Len(woken[d]) : stage'[woken[d][i]] = "suspended"
      BY <1>1, <1>6, <3>1
    <3>3. woken'[d] = woken[d] /\ (woken[d] # <<>> => stage'[d] = "unlocking")
      BY <1>1, <1>3, <1>6, <3>1
    <3>4. QED
      BY <3>1, <3>2, <3>3 DEF NewsIsRight
  <2>3. DependencyIsRight(d)'
    <3>1. stage'[d] = "suspended" => dependency[d] # 0
      BY <1>6, <1>7, <2>1 DEF DependencyIsRight
    <3>2. QED
      BY <1>8, <3>1, QuietKeeps
  <2>4. \A m \in Suspending!Mutexes : InQueue(d, m)' <=> InQueue(d, m)
    BY <1>8, QuietKeeps
  <2>5. CASE d # c
    <3>1. RequestIsRight(d)'
      BY <1>6, <2>1, <2>5 DEF RequestIsRight
    <3>2. SpinIsRight(d)'
      BY <1>3, <1>6, <2>1, <2>5 DEF SpinIsRight
    <3>3. PlacesAreRight(d)'
      BY <1>3, <1>6, <2>1, <2>4, <2>5 DEF PlacesAreRight, Places
    <3>4. QED
      BY <2>2, <2>3, <3>1, <3>2, <3>3
  <2>6. CASE d = c
    <3>1. RequestIsRight(d)'
      BY <1>2, <1>7, <2>6 DEF RequestIsRight
    <3>2. SpinIsRight(d)'
      BY <1>3, <1>7, <2>1, <2>6 DEF SpinIsRight
    <3>3. PlacesAreRight(d)'
      BY <1>3, <1>5, <1>7, <2>4, <2>6 DEF PlacesAreRight, Places
    <3>4. QED
      BY <2>2, <2>3, <3>1, <3>2, <3>3
  <2>7. QED
    BY <2>5, <2>6
<1>10. QED
  BY <1>4, <1>8, <1>9, QuietKeeps DEF SuspendingIsRight
\* News stays right when one that is not suspended moves on.
LEMMA NewsKept ==
  ASSUME SuspendingIsRight, NEW c \in Coroutines, stage[c] # "suspended", woken' = woken,
         \A d \in Coroutines : d # c => stage'[d] = stage[d],
         woken[c] # <<>> => stage'[c] = "unlocking"
  PROVE  \A d \in Coroutines : NewsIsRight(d)'
<1> SUFFICES ASSUME NEW d \in Coroutines
             PROVE  NewsIsRight(d)'
  OBVIOUS
<1>1. NewsIsRight(d) /\ woken[d] \in Seq(Coroutines)
  BY DEF SuspendingIsRight, GrantsAreTyped
<1>2. ASSUME NEW i \in 1 .. Len(woken[d])
      PROVE  stage'[woken[d][i]] = "suspended"
  <2>1. woken[d][i] \in Coroutines /\ stage[woken[d][i]] = "suspended"
    BY <1>1, ElementOf DEF NewsIsRight
  <2>2. QED
    BY <2>1
<1>3. woken[d] # <<>> => stage'[d] = "unlocking"
  BY <1>1 DEF NewsIsRight
<1>4. QED
  BY <1>1, <1>2, <1>3 DEF NewsIsRight

\* What a step does not touch of a coroutine stays right.
LEMMA OthersKeep ==
  ASSUME SuspendingIsRight, NEW d \in Coroutines,
         proxy'[d] = proxy[d], taking'[d] = taking[d], stage'[d] = stage[d], spun'[d] = spun[d],
         \A m \in Suspending!Mutexes : /\ spin'[m] = d <=> spin[m] = d
                                       /\ m \in granted'[d] <=> m \in granted[d]
                                       /\ InQueue(d, m)' <=> InQueue(d, m)
  PROVE  RequestIsRight(d)' /\ SpinIsRight(d)' /\ PlacesAreRight(d)'
<1>1. RequestIsRight(d) /\ SpinIsRight(d) /\ PlacesAreRight(d)
  BY DEF SuspendingIsRight
<1>2. RequestIsRight(d)'
  BY <1>1 DEF RequestIsRight
<1>3. SpinIsRight(d)'
  BY <1>1 DEF SpinIsRight
<1>4. PlacesAreRight(d)'
  BY <1>1 DEF PlacesAreRight, Places
<1>5. QED
  BY <1>2, <1>3, <1>4

\* The steps that only move a coroutine on.
Moves(c) ==
  \/ Suspending!AllSeen(c) \/ Suspending!LetGo(c) \/ Suspending!Enter(c)
  \/ Suspending!StartUnlock(c) \/ Suspending!Unlocked(c)

LetGoFacts(c, m) ==
  /\ stage[c] # "taking" /\ m \in spun[c] /\ stage' = stage /\ taking' = taking
  /\ spin' = [spin EXCEPT ![m] = 0] /\ spun' = [spun EXCEPT ![c] = @ \ {m}]

\* One of the spin locks it holds is let go.
LEMMA LetGoOne ==
  ASSUME SuspendingIsRight, NEW c \in Coroutines, Suspending!LetGo(c)
  PROVE  \E m \in Suspending!Mutexes : LetGoFacts(c, m)
<1>1. spun[c] \subseteq Suspending!Mutexes /\ spun[c] # {} /\ stage[c] # "taking"
  BY DEF SuspendingIsRight, GrantsAreTyped, Suspending!LetGo
<1>2. MutexCount \in Nat
  BY SuspendingAssumed DEF Suspending!CoroutineLockAssumption
<1>3. spun[c] \subseteq Nat
  BY <1>1, <1>2 DEF Suspending!Mutexes
<1>4. \E n \in spun[c] : \A o \in spun[c] : n <= o
  BY <1>1, <1>3, LeastNumber
<1> DEFINE m == CHOOSE n \in spun[c] : \A o \in spun[c] : n <= o
<1>5. m \in spun[c]
  BY <1>4
<1>6. LetGoFacts(c, m)
  BY <1>1, <1>5 DEF Suspending!LetGo, LetGoFacts, Suspending!Nobody
<1>7. QED
  BY <1>1, <1>5, <1>6

\* They give no mutex to anybody, nor take one.
LEMMA MovesAreQuiet ==
  ASSUME SuspendingIsRight, NEW c \in Coroutines, Moves(c)
  PROVE  /\ Quiet
         /\ stage[c] # "suspended" => woken[c] = <<>> \/ stage'[c] = "unlocking"
         /\ \A d \in Coroutines : d # c =>
              proxy'[d] = proxy[d] /\ taking'[d] = taking[d] /\ stage'[d] = stage[d] /\ spun'[d] = spun[d]
         /\ \A d \in Coroutines, m \in Suspending!Mutexes : d # c => (spin'[m] = d <=> spin[m] = d)
<1> USE DEF Suspending!Goto
<1>0. /\ RequestIsRight(c) /\ SpinIsRight(c) /\ NewsIsRight(c) /\ GrantsAreTyped
      /\ 0 \notin Coroutines
  BY SuspendingAssumed DEF SuspendingIsRight, Suspending!CoroutineLockAssumption, Suspending!Nobody
<1>1. CASE Suspending!LetGo(c)
  <2>1. PICK m \in Suspending!Mutexes : LetGoFacts(c, m)
    BY <1>1, LetGoOne
  <2>2. spin[m] = c
    BY <1>0, <2>1 DEF LetGoFacts, SpinIsRight
  <2>3. UNCHANGED <<exclusive, shared, waiter, proxy, dependency, granted, woken>>
    BY <1>1 DEF Suspending!LetGo
  <2>4. Quiet
    BY <2>3 DEF Quiet
  <2>5. woken[c] # <<>> => stage'[c] = "unlocking"
    BY <1>0, <2>1 DEF NewsIsRight, LetGoFacts
  <2>6. \A d \in Coroutines : d # c =>
          proxy'[d] = proxy[d] /\ taking'[d] = taking[d] /\ stage'[d] = stage[d] /\ spun'[d] = spun[d]
    BY <1>0, <2>1, <2>3 DEF LetGoFacts, GrantsAreTyped
  <2>7. \A d \in Coroutines, n \in Suspending!Mutexes : d # c => (spin'[n] = d <=> spin[n] = d)
    BY <1>0, <2>1, <2>2 DEF LetGoFacts, GrantsAreTyped
  <2>8. QED
    BY <2>4, <2>5, <2>6, <2>7
<1>2. CASE Suspending!AllSeen(c) \/ Suspending!Enter(c) \/ Suspending!StartUnlock(c)
  <2>1. UNCHANGED <<spin, exclusive, shared, waiter, proxy, dependency, spun, granted, woken>>
    BY <1>2 DEF Suspending!AllSeen, Suspending!Enter, Suspending!StartUnlock
  <2>2. Quiet
    BY <2>1 DEF Quiet
  <2>3. /\ stage[c] # "unlocking"
        /\ \A d \in Coroutines : d # c => taking'[d] = taking[d] /\ stage'[d] = stage[d]
    BY <1>0, <1>2 DEF Suspending!AllSeen, Suspending!Enter, Suspending!StartUnlock, GrantsAreTyped
  <2>4. woken[c] = <<>>
    BY <1>0, <2>3 DEF NewsIsRight
  <2>5. QED
    BY <2>1, <2>2, <2>3, <2>4
<1>3. CASE Suspending!Unlocked(c)
  <2>1. UNCHANGED <<spin, exclusive, shared, waiter, dependency, spun, granted, woken>>
    BY <1>3 DEF Suspending!Unlocked
  <2>2. /\ stage[c] = "unlocking" /\ woken[c] = <<>> /\ taking[c] = Len(proxy[c])
        /\ \A d \in Coroutines : d # c => proxy'[d] = proxy[d] /\ taking'[d] = taking[d] /\ stage'[d] = stage[d]
    BY <1>0, <1>3 DEF Suspending!Unlocked, GrantsAreTyped
  <2>3. Places(c) = {}
    BY <1>0, <2>2 DEF Places, GrantsAreTyped
  <2>4. granted[c] = {} /\ \A m \in Suspending!Mutexes : ~InQueue(c, m)
    BY <2>3, AtRest
  <2>5. \A d \in Coroutines : proxy'[d] = proxy[d] \/ (granted[d] = {} /\ \A m \in Suspending!Mutexes : ~InQueue(d, m))
    BY <2>2, <2>4
  <2>6. Quiet
    BY <2>1, <2>5 DEF Quiet
  <2>7. QED
    BY <2>1, <2>2, <2>6
<1>4. QED
  BY <1>1, <1>2, <1>3 DEF Moves

\* Who depends on nothing is in no queue and has no news on its way.
LEMMA NoDependency ==
  ASSUME SuspendingIsRight, NEW c \in Coroutines, dependency[c] = 0
  PROVE  /\ \A m \in Suspending!Mutexes : ~InQueue(c, m)
         /\ Suspending!Queued(c) = {} /\ Suspending!Told(c) = {}
<1>1. IsFiniteSet(Suspending!Queued(c)) /\ IsFiniteSet(Suspending!Told(c))
  <2>1. ASSUME NEW m \in Suspending!Mutexes
        PROVE  IsFiniteSet(Suspending!Queued(c)) /\ IsFiniteSet(Suspending!Told(c))
    BY GrantsAreFinite
  <2>2. CASE Suspending!Mutexes = {}
    <3>1. Suspending!Queued(c) = {} /\ Suspending!Told(c) \subseteq Coroutines
      BY <2>2 DEF Suspending!Queued, Suspending!Told
    <3>2. IsFiniteSet(Coroutines)
      BY SuspendingAssumed, SuspendingCardinality DEF Suspending!CoroutineLockAssumption
    <3>3. QED
      BY <3>1, <3>2, FS_EmptySet, FS_Subset
  <2>3. QED
    BY <2>1, <2>2
<1>2. Cardinality(Suspending!Queued(c)) \in Nat /\ Cardinality(Suspending!Told(c)) \in Nat
  BY <1>1, FS_CardinalityType
<1>3. Cardinality(Suspending!Queued(c)) + Cardinality(Suspending!Told(c)) = 0
  BY DEF SuspendingIsRight, DependencyIsRight
<1>4. Cardinality(Suspending!Queued(c)) = 0 /\ Cardinality(Suspending!Told(c)) = 0
  BY <1>2, <1>3
<1>5. Suspending!Queued(c) = {} /\ Suspending!Told(c) = {}
  BY <1>1, <1>4, FS_EmptySet
<1>6. waiter \in [Suspending!Mutexes -> Seq([lock : Coroutines, mode : Modes])]
  BY DEF SuspendingIsRight, GrantsAreTyped
<1>7. \A m \in Suspending!Mutexes : ~InQueue(c, m)
  BY <1>5, <1>6 DEF Suspending!Queued, InQueue
<1>8. QED
  BY <1>5, <1>7

\* To move on.
LEMMA MovesKeep ==
  ASSUME SuspendingIsRight, NEW c \in Coroutines, Moves(c)
  PROVE  SuspendingIsRight'
<1> USE DEF Suspending!Goto
<1>0. /\ RequestIsRight(c) /\ SpinIsRight(c) /\ PlacesAreRight(c) /\ NewsIsRight(c) /\ DependencyIsRight(c)
      /\ GrantsAreTyped /\ 0 \notin Coroutines
  BY SuspendingAssumed DEF SuspendingIsRight, Suspending!CoroutineLockAssumption, Suspending!Nobody
<1>1. Quiet
  BY MovesAreQuiet
<1>2. \A d \in Coroutines : d # c =>
        proxy'[d] = proxy[d] /\ taking'[d] = taking[d] /\ stage'[d] = stage[d] /\ spun'[d] = spun[d]
  BY MovesAreQuiet
<1>3. /\ UNCHANGED <<waiter, woken, granted, exclusive, shared, dependency>>
      /\ \A d \in Coroutines, m \in Suspending!Mutexes : InQueue(d, m)' <=> InQueue(d, m)
  BY <1>1, QuietKeeps DEF Quiet
<1>4. ASSUME NEW d \in Coroutines, d # c
      PROVE  (RequestIsRight(d) /\ SpinIsRight(d) /\ PlacesAreRight(d))'
  <2>1. \A m \in Suspending!Mutexes : spin'[m] = d <=> spin[m] = d
    BY <1>4, MovesAreQuiet
  <2>2. proxy'[d] = proxy[d] /\ taking'[d] = taking[d] /\ stage'[d] = stage[d] /\ spun'[d] = spun[d]
    BY <1>2, <1>4
  <2>3. QED
    BY <1>3, <2>1, <2>2, OthersKeep
<1>5. /\ (RequestIsRight(c) /\ SpinIsRight(c) /\ PlacesAreRight(c))'
      /\ GrantsAreTyped' /\ (\A d \in Coroutines : NewsIsRight(d)')
      /\ stage'[c] = "suspended" => dependency[c] # 0
  <2>1. CASE Suspending!LetGo(c)
    <3>1. PICK m \in Suspending!Mutexes : LetGoFacts(c, m)
      BY <2>1, LetGoOne
    <3>2. proxy' = proxy /\ stage' = stage /\ taking' = taking
      BY <2>1, <3>1 DEF Suspending!LetGo, LetGoFacts
    <3>3. RequestIsRight(c)'
      BY <1>0, <3>2 DEF RequestIsRight
    <3>4. SpinIsRight(c)'
      BY <1>0, <3>1 DEF SpinIsRight, LetGoFacts, GrantsAreTyped
    <3>5. PlacesAreRight(c)'
      BY <1>0, <1>3, <3>2 DEF PlacesAreRight, Places
    <3>6. GrantsAreTyped'
      BY <1>0, <1>3, <3>1, <3>2 DEF GrantsAreTyped, LetGoFacts
    <3>7. \A d \in Coroutines : NewsIsRight(d)'
      BY <1>3, <3>2 DEF SuspendingIsRight, NewsIsRight
    <3>8. stage'[c] = "suspended" => dependency[c] # 0
      BY <1>0, <3>2 DEF DependencyIsRight
    <3>9. QED
      BY <3>3, <3>4, <3>5, <3>6, <3>7, <3>8
  <2>2. CASE Suspending!AllSeen(c)
    <3>1. /\ stage[c] = "taking" /\ taking[c] = Len(proxy[c])
          /\ stage' = [stage EXCEPT ![c] = IF dependency[c] = 0 THEN "leaving" ELSE "suspended"]
          /\ UNCHANGED <<spin, proxy, taking, spun>>
      BY <2>2 DEF Suspending!AllSeen
    <3>2. stage'[c] = IF dependency[c] = 0 THEN "leaving" ELSE "suspended"
      BY <1>0, <3>1 DEF GrantsAreTyped
    <3>3. RequestIsRight(c)' /\ SpinIsRight(c)'
      BY <1>0, <3>1, <3>2 DEF RequestIsRight, SpinIsRight
    <3>4. Places(c)' = Places(c)
      BY <3>1, <3>2 DEF Places
    <3>5. \A m \in Suspending!Mutexes : InQueue(c, m) => stage'[c] = "suspended"
      BY <3>2, NoDependency
    <3>6. PlacesAreRight(c)'
      BY <1>0, <1>3, <3>1, <3>4, <3>5 DEF PlacesAreRight
    <3>7. GrantsAreTyped'
      BY <1>0, <1>3, <3>1 DEF GrantsAreTyped, Stages
    <3>8. \A d \in Coroutines : NewsIsRight(d)'
      BY <1>0, <1>2, <1>3, <3>1, NewsKept DEF NewsIsRight
    <3>9. QED
      BY <3>2, <3>3, <3>6, <3>7, <3>8
  <2>3. CASE Suspending!Enter(c) \/ Suspending!StartUnlock(c)
    <3>1. /\ stage[c] \in {"leaving", "inside"} /\ stage' = [stage EXCEPT ![c] = stage'[c]]
          /\ stage'[c] \in {"inside", "unlocking"} /\ UNCHANGED <<spin, proxy, spun>>
          /\ taking' = [taking EXCEPT ![c] = taking'[c]]
          /\ taking'[c] \in {0, taking[c]} /\ (stage'[c] = "unlocking" => taking'[c] = 0)
      BY <1>0, <2>3 DEF Suspending!Enter, Suspending!StartUnlock, GrantsAreTyped
    <3>2. RequestIsRight(c)'
      <4>1. Len(proxy[c]) \in Nat
        BY <1>0 DEF GrantsAreTyped
      <4>2. QED
        BY <1>0, <3>1, <4>1 DEF RequestIsRight
    <3>3. SpinIsRight(c)'
      BY <1>0, <3>1 DEF SpinIsRight
    <3>4. Places(c)' = Places(c)
      BY <3>1 DEF Places
    <3>5. PlacesAreRight(c)'
      BY <1>0, <1>3, <3>1, <3>4 DEF PlacesAreRight
    <3>6. GrantsAreTyped'
      <4>1. taking'[c] \in Nat /\ stage'[c] \in Stages
        BY <1>0, <3>1 DEF GrantsAreTyped, Stages
      <4>2. taking' \in [Coroutines -> Nat]
        BY <1>0, <3>1, <4>1 DEF GrantsAreTyped
      <4>3. stage' \in [Coroutines -> Stages]
        BY <1>0, <3>1, <4>1 DEF GrantsAreTyped
      <4>4. QED
        BY <1>0, <1>3, <3>1, <4>2, <4>3 DEF GrantsAreTyped
    <3>7. woken[c] = <<>>
      BY <1>0, <3>1 DEF NewsIsRight
    <3>8. \A d \in Coroutines : NewsIsRight(d)'
      BY <1>2, <1>3, <3>1, <3>7, NewsKept
    <3>9. QED
      BY <3>1, <3>2, <3>3, <3>5, <3>6, <3>8
  <2>4. CASE Suspending!Unlocked(c)
    <3>1. /\ stage[c] = "unlocking" /\ woken[c] = <<>> /\ taking[c] = Len(proxy[c])
          /\ stage' = [stage EXCEPT ![c] = "idle"] /\ proxy' = [proxy EXCEPT ![c] = <<>>]
          /\ taking' = [taking EXCEPT ![c] = 0] /\ UNCHANGED <<spin, spun>>
      BY <2>4 DEF Suspending!Unlocked
    <3>2. stage'[c] = "idle" /\ proxy'[c] = <<>> /\ taking'[c] = 0
      BY <1>0, <3>1 DEF GrantsAreTyped
    <3>3. RequestIsRight(c)'
      BY <3>2 DEF RequestIsRight
    <3>4. SpinIsRight(c)'
      BY <1>0, <3>1, <3>2 DEF SpinIsRight
    <3>5. Places(c) = {} /\ Places(c)' = {}
      BY <1>0, <3>1, <3>2 DEF Places, GrantsAreTyped
    <3>6. granted[c] = {} /\ \A m \in Suspending!Mutexes : ~InQueue(c, m)
      BY <3>5, AtRest
    <3>7. PlacesAreRight(c)'
      BY <1>3, <3>5, <3>6 DEF PlacesAreRight
    <3>8. GrantsAreTyped'
      <4>1. stage' \in [Coroutines -> Stages] /\ taking' \in [Coroutines -> Nat]
        BY <1>0, <3>1 DEF GrantsAreTyped, Stages
      <4>2. proxy' \in [Coroutines -> Seq(Suspending!Proxies)]
        BY <1>0, <3>1 DEF GrantsAreTyped
      <4>3. QED
        BY <1>0, <1>3, <3>1, <4>1, <4>2 DEF GrantsAreTyped
    <3>9. \A d \in Coroutines : NewsIsRight(d)'
      BY <1>2, <1>3, <3>1, NewsKept
    <3>10. QED
      BY <3>2, <3>3, <3>4, <3>7, <3>8, <3>9
  <2>5. QED
    BY <2>1, <2>2, <2>3, <2>4 DEF Moves
<1>6. ASSUME NEW d \in Coroutines
      PROVE  DependencyIsRight(d)'
  <2>1. stage'[d] = "suspended" => dependency[d] # 0
    BY <1>2, <1>5 DEF SuspendingIsRight, DependencyIsRight
  <2>2. QED
    BY <1>1, <2>1, QuietKeeps
<1>7. ASSUME NEW d \in Coroutines
      PROVE  (RequestIsRight(d) /\ SpinIsRight(d) /\ PlacesAreRight(d))'
  BY <1>4, <1>5
<1>8. \A m \in Suspending!Mutexes : QueueIsRight(m)' /\ MutexIsRight(m)'
  BY <1>1, QuietKeeps
<1>9. QED
  BY <1>5, <1>6, <1>7, <1>8 DEF SuspendingIsRight

\* A mutex that a coroutine comes to, asks[k], which it does not have and does not queue for.
Comes(c, p) ==
  /\ stage[c] = "taking" /\ taking[c] + 1 \in 1 .. Len(proxy[c]) /\ p = proxy[c][taking[c] + 1]
  /\ p \in Suspending!Proxies /\ p.mutex \in Suspending!Mutexes /\ p.mode \in Modes /\ spin[p.mutex] = 0
  /\ p.mutex \notin granted[c] /\ ~InQueue(c, p.mutex)
  /\ spin' = [spin EXCEPT ![p.mutex] = c] /\ spun' = [spun EXCEPT ![c] = @ \union {p.mutex}]
  /\ taking' = [taking EXCEPT ![c] = @ + 1] /\ UNCHANGED <<proxy, stage, woken>>

LEMMA TakeComes ==
  ASSUME SuspendingIsRight, NEW c \in Coroutines, Suspending!Take(c)
  PROVE  \E p : /\ Comes(c, p)
                /\ IF Suspending!Busy(p) THEN Suspending!Queue(c, p) ELSE Suspending!Grant(c, p)
<1> DEFINE p == proxy[c][taking[c] + 1]
<1>1. /\ stage[c] = "taking" /\ taking[c] < Len(proxy[c]) /\ spin[p.mutex] = 0
      /\ spin' = [spin EXCEPT ![p.mutex] = c] /\ spun' = [spun EXCEPT ![c] = @ \union {p.mutex}]
      /\ taking' = [taking EXCEPT ![c] = @ + 1] /\ UNCHANGED <<proxy, stage, woken>>
  BY DEF Suspending!Take, Suspending!CanTake, Suspending!Nobody
<1>2. IF Suspending!Busy(p) THEN Suspending!Queue(c, p) ELSE Suspending!Grant(c, p)
  BY DEF Suspending!Take
<1>3. proxy[c] \in Seq(Suspending!Proxies) /\ taking[c] \in Nat /\ RequestIsRight(c) /\ PlacesAreRight(c)
  BY DEF SuspendingIsRight, GrantsAreTyped
<1>4. taking[c] + 1 \in 1 .. Len(proxy[c])
  BY <1>1, <1>3
<1>5. p \in Suspending!Proxies
  BY <1>3, <1>4, ElementOf
<1>6. p.mutex \in Suspending!Mutexes /\ p.mode \in Modes
  BY <1>5 DEF Suspending!Proxies, Modes
<1>7. ~ \E i \in Places(c) : proxy[c][i].mutex = p.mutex
  <2>1. Places(c) = 1 .. taking[c]
    BY <1>1 DEF Places
  <2>2. \A i, j \in 1 .. Len(proxy[c]) : proxy[c][i].mutex = proxy[c][j].mutex => i = j
    BY <1>3 DEF RequestIsRight
  <2>3. ASSUME NEW i \in 1 .. taking[c], proxy[c][i].mutex = p.mutex
        PROVE  FALSE
    <3>1. i \in 1 .. Len(proxy[c]) /\ i # taking[c] + 1
      BY <1>3, <1>4
    <3>2. QED
      BY <1>4, <2>2, <2>3, <3>1
  <2>4. QED
    BY <2>1, <2>3
<1>8. p.mutex \notin granted[c] /\ ~InQueue(c, p.mutex)
  BY <1>3, <1>6, <1>7 DEF PlacesAreRight
<1>9. Comes(c, p)
  BY <1>1, <1>4, <1>5, <1>6, <1>8 DEF Comes
<1>10. QED
  BY <1>2, <1>9

\* What coming to a mutex keeps, whether the coroutine is given it or queues.
LEMMA ComesKeeps ==
  ASSUME SuspendingIsRight, NEW c \in Coroutines, NEW p, Comes(c, p)
  PROVE  /\ \A d \in Coroutines : NewsIsRight(d)'
         /\ spin' \in [Suspending!Mutexes -> Coroutines \union {0}]
         /\ spun' \in [Coroutines -> SUBSET Suspending!Mutexes] /\ taking' \in [Coroutines -> Nat]
         /\ RequestIsRight(c)' /\ SpinIsRight(c)'
         /\ Places(c)' = Places(c) \union {taking[c] + 1}
         /\ \A d \in Coroutines : d # c =>
              /\ proxy'[d] = proxy[d] /\ taking'[d] = taking[d] /\ stage'[d] = stage[d] /\ spun'[d] = spun[d]
              /\ \A m \in Suspending!Mutexes : spin'[m] = d <=> spin[m] = d
         /\ \A m \in Suspending!Mutexes : m \in granted[c] \/ InQueue(c, m) \/ m = p.mutex
                                           <=> \E i \in Places(c)' : proxy'[c][i].mutex = m
<1> USE DEF Comes
<1>1. GrantsAreTyped /\ RequestIsRight(c) /\ SpinIsRight(c) /\ PlacesAreRight(c) /\ 0 \notin Coroutines
  BY SuspendingAssumed DEF SuspendingIsRight, Suspending!CoroutineLockAssumption, Suspending!Nobody
<1>2. \A d \in Coroutines : NewsIsRight(d)'
  BY DEF SuspendingIsRight, NewsIsRight
<1>3. /\ spin' \in [Suspending!Mutexes -> Coroutines \union {0}]
      /\ spun' \in [Coroutines -> SUBSET Suspending!Mutexes] /\ taking' \in [Coroutines -> Nat]
  BY <1>1 DEF GrantsAreTyped
<1>4. taking'[c] = taking[c] + 1 /\ spun'[c] = spun[c] \union {p.mutex} /\ taking[c] \in Nat
  BY <1>1 DEF GrantsAreTyped
<1>5. RequestIsRight(c)'
  BY <1>1, <1>4 DEF RequestIsRight
<1>6. \A m \in Suspending!Mutexes : m \in spun'[c] <=> spin'[m] = c
  BY <1>1, <1>4 DEF SpinIsRight, GrantsAreTyped
<1>7. \A i \in 1 .. taking'[c] : proxy'[c][i].mutex \in spun'[c]
  <2>1. \A i \in 1 .. taking[c] : proxy[c][i].mutex \in spun[c]
    BY <1>1 DEF SpinIsRight
  <2>2. ASSUME NEW i \in 1 .. taking'[c]
        PROVE  proxy'[c][i].mutex \in spun'[c]
    <3>1. i \in 1 .. taking[c] \/ i = taking[c] + 1
      BY <1>4
    <3>2. QED
      BY <1>4, <2>1, <3>1
  <2>3. QED
    BY <2>2
<1>8. SpinIsRight(c)'
  BY <1>6, <1>7 DEF SpinIsRight
<1>9. Places(c)' = Places(c) \union {taking[c] + 1}
  BY <1>4 DEF Places
<1>10. ASSUME NEW d \in Coroutines, d # c
       PROVE  /\ proxy'[d] = proxy[d] /\ taking'[d] = taking[d] /\ stage'[d] = stage[d] /\ spun'[d] = spun[d]
              /\ \A m \in Suspending!Mutexes : spin'[m] = d <=> spin[m] = d
  <2>1. proxy'[d] = proxy[d] /\ taking'[d] = taking[d] /\ stage'[d] = stage[d] /\ spun'[d] = spun[d]
    BY <1>1, <1>10 DEF GrantsAreTyped
  <2>2. ASSUME NEW m \in Suspending!Mutexes
        PROVE  spin'[m] = d <=> spin[m] = d
    BY <1>1, <1>10 DEF GrantsAreTyped
  <2>3. QED
    BY <2>1, <2>2
<1>11. ASSUME NEW m \in Suspending!Mutexes
       PROVE  m \in granted[c] \/ InQueue(c, m) \/ m = p.mutex <=> \E i \in Places(c)' : proxy'[c][i].mutex = m
  <2>1. m \in granted[c] \/ InQueue(c, m) <=> \E i \in Places(c) : proxy[c][i].mutex = m
    BY <1>1 DEF PlacesAreRight
  <2>2. proxy'[c] = proxy[c]
    OBVIOUS
  <2>3. QED
    BY <1>9, <2>1, <2>2
<1>12. QED
  BY <1>2, <1>3, <1>5, <1>8, <1>9, <1>10, <1>11

\* To be given a mutex that is free or shared.
LEMMA GrantKeeps ==
  ASSUME SuspendingIsRight, NEW c \in Coroutines, NEW p, Comes(c, p),
         ~Suspending!Busy(p), Suspending!Grant(c, p)
  PROVE  SuspendingIsRight'
<1> DEFINE m == p.mutex
<1>0. /\ GrantsAreTyped /\ PlacesAreRight(c) /\ RequestIsRight(c) /\ MutexIsRight(m)
      /\ m \in Suspending!Mutexes /\ p.mode \in Modes /\ p = proxy[c][taking[c] + 1]
      /\ m \notin granted[c] /\ ~InQueue(c, m) /\ stage[c] = "taking"
      /\ UNCHANGED <<proxy, stage, woken>>
  BY DEF SuspendingIsRight, Comes
<1>1. /\ waiter[m] = <<>> /\ ~exclusive[m] /\ (p.mode = "exclude" => shared[m] = 0)
  BY DEF Suspending!Busy
<1>2. /\ granted' = [granted EXCEPT ![c] = @ \union {m}] /\ UNCHANGED <<waiter, dependency>>
      /\ IF p.mode = "exclude"
         THEN exclusive' = [exclusive EXCEPT ![m] = TRUE] /\ UNCHANGED shared
         ELSE shared' = [shared EXCEPT ![m] = @ + 1] /\ UNCHANGED exclusive
  BY DEF Suspending!Grant
<1>3. granted'[c] = granted[c] \union {m} /\ \A d \in Coroutines : d # c => granted'[d] = granted[d]
  BY <1>0, <1>2 DEF GrantsAreTyped
<1>4. \A d \in Coroutines, n \in Suspending!Mutexes : InQueue(d, n)' <=> InQueue(d, n)
  BY <1>2 DEF InQueue
<1>5. GrantsAreTyped'
  <2>1. granted' \in [Coroutines -> SUBSET Suspending!Mutexes]
    BY <1>0, <1>2 DEF GrantsAreTyped
  <2>2. exclusive' \in [Suspending!Mutexes -> BOOLEAN] /\ shared' \in [Suspending!Mutexes -> Int]
    <3>1. CASE p.mode = "exclude"
      BY <1>0, <1>2, <3>1 DEF GrantsAreTyped
    <3>2. CASE p.mode # "exclude"
      <4>1. shared' = [shared EXCEPT ![m] = @ + 1] /\ exclusive' = exclusive
        BY <1>2, <3>2
      <4>2. /\ exclusive \in [Suspending!Mutexes -> BOOLEAN] /\ shared \in [Suspending!Mutexes -> Int]
            /\ m \in Suspending!Mutexes /\ shared[m] + 1 \in Int
        BY <1>0 DEF GrantsAreTyped
      <4>3. QED
        BY <4>1, <4>2
    <3>3. QED
      BY <3>1, <3>2
  <2>3. QED
    BY <1>0, <1>2, <2>1, <2>2, ComesKeeps DEF GrantsAreTyped
<1>6. PlacesAreRight(c)'
  <2>1. ASSUME NEW n \in Suspending!Mutexes
        PROVE  /\ n \in granted'[c] \/ InQueue(c, n)' <=> \E i \in Places(c)' : proxy'[c][i].mutex = n
               /\ ~(n \in granted'[c] /\ InQueue(c, n)') /\ (InQueue(c, n)' => stage'[c] \in {"taking", "suspended"})
    <3>1. n \in granted[c] \/ InQueue(c, n) \/ n = m <=> \E i \in Places(c)' : proxy'[c][i].mutex = n
      BY ComesKeeps
    <3>2. ~(n \in granted[c] /\ InQueue(c, n))
      BY <1>0 DEF PlacesAreRight
    <3>3. QED
      BY <1>0, <1>3, <1>4, <3>1, <3>2
  <2>2. QED
    BY <2>1 DEF PlacesAreRight
<1>7. ASSUME NEW d \in Coroutines
      PROVE  (RequestIsRight(d) /\ SpinIsRight(d) /\ PlacesAreRight(d))'
  <2>1. CASE d = c
    BY <1>6, <2>1, ComesKeeps
  <2>2. CASE d # c
    <3>1. proxy'[d] = proxy[d] /\ taking'[d] = taking[d] /\ stage'[d] = stage[d] /\ spun'[d] = spun[d]
      BY <2>2, ComesKeeps
    <3>2. \A n \in Suspending!Mutexes : spin'[n] = d <=> spin[n] = d
      BY <2>2, ComesKeeps
    <3>3. QED
      BY <1>3, <1>4, <2>2, <3>1, <3>2, OthersKeep
  <2>3. QED
    BY <2>1, <2>2
<1>8. ASSUME NEW d \in Coroutines
      PROVE  DependencyIsRight(d)'
  <2>1. Suspending!Queued(d)' = Suspending!Queued(d) /\ Suspending!Told(d)' = Suspending!Told(d)
    BY <1>0, <1>2 DEF Suspending!Queued, Suspending!Told
  <2>2. QED
    BY <1>0, <1>2, <2>1 DEF SuspendingIsRight, DependencyIsRight
<1>9. ASSUME NEW n \in Suspending!Mutexes
      PROVE  QueueIsRight(n)'
  <2>1. QueueIsRight(n)
    BY <1>0 DEF SuspendingIsRight
  <2>2. waiter' = waiter /\ proxy' = proxy
    BY <1>0, <1>2
  <2>3. QED
    BY <2>1, <2>2 DEF QueueIsRight
<1>10. \A mode : \A n \in Suspending!Mutexes : n # m => Suspending!Holders(n, mode)' = Suspending!Holders(n, mode)
  BY <1>0, <1>3 DEF Suspending!Holders
<1>11. \A mode \in Modes : Suspending!Holders(m, mode)' =
         IF mode = p.mode THEN Suspending!Holders(m, mode) \union {c} ELSE Suspending!Holders(m, mode)
  <2>1. \A i \in DOMAIN proxy[c] : proxy[c][i].mutex = m => proxy[c][i] = p
    <3>1. proxy[c] \in Seq(Suspending!Proxies) /\ taking[c] + 1 \in 1 .. Len(proxy[c])
      BY <1>0 DEF GrantsAreTyped, Comes
    <3>2. QED
      BY <1>0, <3>1 DEF RequestIsRight
  <2>2. p = [mutex |-> m, mode |-> p.mode] /\ taking[c] + 1 \in DOMAIN proxy[c]
    <3>1. proxy[c] \in Seq(Suspending!Proxies) /\ taking[c] + 1 \in 1 .. Len(proxy[c]) /\ p \in Suspending!Proxies
      BY <1>0 DEF GrantsAreTyped, Comes
    <3>2. QED
      BY <3>1 DEF Suspending!Proxies
  <2>3. ASSUME NEW mode \in Modes
        PROVE  Suspending!Holders(m, mode)' =
                 IF mode = p.mode THEN Suspending!Holders(m, mode) \union {c} ELSE Suspending!Holders(m, mode)
    <3>1. c \notin Suspending!Holders(m, mode)
      BY <1>0 DEF Suspending!Holders
    <3>2. c \in Suspending!Holders(m, mode)' <=> mode = p.mode
      <4>1. c \in Suspending!Holders(m, mode)' <=> \E i \in DOMAIN proxy[c] : proxy[c][i] = [mutex |-> m, mode |-> mode]
        BY <1>0, <1>3 DEF Suspending!Holders
      <4>2. ASSUME NEW i \in DOMAIN proxy[c], proxy[c][i] = [mutex |-> m, mode |-> mode]
            PROVE  mode = p.mode
        <5>1. proxy[c][i].mutex = m /\ proxy[c][i].mode = mode
          BY <4>2
        <5>2. QED
          BY <2>1, <5>1
      <4>3. mode = p.mode => proxy[c][taking[c] + 1] = [mutex |-> m, mode |-> mode]
        BY <1>0, <2>2
      <4>4. QED
        BY <2>2, <4>1, <4>2, <4>3
    <3>3. \A d \in Coroutines : d # c => (d \in Suspending!Holders(m, mode)' <=> d \in Suspending!Holders(m, mode))
      BY <1>0, <1>3 DEF Suspending!Holders
    <3>4. Suspending!Holders(m, mode)' \subseteq Coroutines /\ Suspending!Holders(m, mode) \subseteq Coroutines
      BY DEF Suspending!Holders
    <3>5. QED
      BY <3>1, <3>2, <3>3, <3>4
  <2>4. QED
    BY <2>3
<1>12. ASSUME NEW n \in Suspending!Mutexes, n # m
       PROVE  MutexIsRight(n)'
  <2>1. MutexIsRight(n) /\ exclusive'[n] = exclusive[n] /\ shared'[n] = shared[n] /\ waiter'[n] = waiter[n]
    BY <1>0, <1>2, <1>12 DEF SuspendingIsRight, GrantsAreTyped
  <2>2. Suspending!Holders(n, "exclude")' = Suspending!Holders(n, "exclude")
    BY <1>10, <1>12
  <2>3. Suspending!Holders(n, "share")' = Suspending!Holders(n, "share")
    BY <1>10, <1>12
  <2>4. QED
    BY <2>1, <2>2, <2>3 DEF MutexIsRight
<1>13. MutexIsRight(m)'
  <2>1. CASE p.mode = "exclude"
    <3>1. exclusive'[m] = TRUE /\ shared'[m] = 0 /\ waiter'[m] = waiter[m] /\ shared[m] = 0
      BY <1>0, <1>1, <1>2, <2>1 DEF GrantsAreTyped
    <3>2. Suspending!Holders(m, "exclude")' = {c}
      BY <1>0, <1>1, <1>11, <2>1 DEF Modes, MutexIsRight
    <3>3. Suspending!Holders(m, "share")' = Suspending!Holders(m, "share")
      BY <1>11, <2>1 DEF Modes
    <3>4. shared[m] = Cardinality(Suspending!Holders(m, "share"))
      BY <1>0 DEF MutexIsRight
    <3>5. QED
      BY <3>1, <3>2, <3>3, <3>4 DEF MutexIsRight
  <2>2. CASE p.mode = "share"
    <3>1. exclusive'[m] = FALSE /\ shared'[m] = shared[m] + 1 /\ waiter'[m] = <<>>
      BY <1>0, <1>1, <1>2, <2>2 DEF GrantsAreTyped
    <3>2. Suspending!Holders(m, "share")' = Suspending!Holders(m, "share") \union {c}
      BY <1>11, <2>2 DEF Modes
    <3>3. Suspending!Holders(m, "exclude")' = {}
      BY <1>0, <1>1, <1>11, <2>2 DEF Modes, MutexIsRight
    <3>4. c \notin Suspending!Holders(m, "share")
      BY <1>0 DEF Suspending!Holders
    <3>5. Cardinality(Suspending!Holders(m, "share")') = Cardinality(Suspending!Holders(m, "share")) + 1
      <4>1. IsFiniteSet(Suspending!Holders(m, "share"))
        BY <1>0, GrantsAreFinite
      <4>2. QED
        BY <3>2, <3>4, <4>1, FS_AddElement
    <3>6. shared[m] = Cardinality(Suspending!Holders(m, "share"))
      BY <1>0 DEF MutexIsRight
    <3>7. QED
      BY <3>1, <3>3, <3>5, <3>6 DEF MutexIsRight
  <2>3. QED
    BY <1>0, <2>1, <2>2 DEF Modes
<1>14. QED
  BY <1>5, <1>7, <1>8, <1>9, <1>12, <1>13, ComesKeeps DEF SuspendingIsRight

\* To queue at a mutex that is busy.
LEMMA QueueKeeps ==
  ASSUME SuspendingIsRight, NEW c \in Coroutines, NEW p, Comes(c, p),
         Suspending!Busy(p), Suspending!Queue(c, p)
  PROVE  SuspendingIsRight'
<1> DEFINE m == p.mutex
           entry == [lock |-> c, mode |-> p.mode]
<1>0. /\ GrantsAreTyped /\ PlacesAreRight(c) /\ MutexIsRight(m) /\ QueueIsRight(m)
      /\ m \in Suspending!Mutexes /\ p.mode \in Modes /\ p = proxy[c][taking[c] + 1]
      /\ m \notin granted[c] /\ ~InQueue(c, m) /\ stage[c] = "taking"
      /\ UNCHANGED <<proxy, stage, woken>>
  BY DEF SuspendingIsRight, Comes
<1>1. /\ waiter' = [waiter EXCEPT ![m] = Append(@, entry)]
      /\ dependency' = [dependency EXCEPT ![c] = @ + 1] /\ UNCHANGED <<exclusive, shared, granted>>
  BY DEF Suspending!Queue
<1>2. waiter[m] \in Seq([lock : Coroutines, mode : Modes]) /\ Len(waiter[m]) \in Nat
      /\ entry \in [lock : Coroutines, mode : Modes]
  <2>1. waiter[m] \in Seq([lock : Coroutines, mode : Modes])
    BY <1>0 DEF GrantsAreTyped
  <2>2. entry \in [lock : Coroutines, mode : Modes]
    BY <1>0
  <2>3. QED
    BY <2>1, <2>2
<1>3. /\ waiter'[m] = Append(waiter[m], entry)
      /\ \A n \in Suspending!Mutexes : n # m => waiter'[n] = waiter[n]
  BY <1>0, <1>1 DEF GrantsAreTyped
<1>4. /\ Len(waiter'[m]) = Len(waiter[m]) + 1 /\ waiter'[m][Len(waiter[m]) + 1] = entry
      /\ \A i \in 1 .. Len(waiter[m]) : waiter'[m][i] = waiter[m][i]
      /\ waiter'[m] \in Seq([lock : Coroutines, mode : Modes])
  BY <1>2, <1>3
<1>5. \A d \in Coroutines, n \in Suspending!Mutexes :
        InQueue(d, n)' <=> InQueue(d, n) \/ (d = c /\ n = m)
  <2>1. ASSUME NEW d \in Coroutines
        PROVE  InQueue(d, m)' <=> InQueue(d, m) \/ d = c
    <3>1. 1 .. Len(waiter'[m]) = (1 .. Len(waiter[m])) \union {Len(waiter[m]) + 1}
      BY <1>2, <1>4
    <3>2. InQueue(d, m)' <=> \E i \in 1 .. Len(waiter'[m]) : waiter'[m][i].lock = d
      BY DEF InQueue
    <3>3. InQueue(d, m) <=> \E i \in 1 .. Len(waiter[m]) : waiter'[m][i].lock = d
      BY <1>4 DEF InQueue
    <3>4. entry.lock = c
      OBVIOUS
    <3>5. QED
      BY <1>4, <3>1, <3>2, <3>3, <3>4
  <2>2. QED
    <3>1. \A d \in Coroutines, n \in Suspending!Mutexes : n # m => (InQueue(d, n)' <=> InQueue(d, n))
      BY <1>3 DEF InQueue
    <3>2. QED
      BY <2>1, <3>1
<1>6. GrantsAreTyped'
  <2>1. waiter' \in [Suspending!Mutexes -> Seq([lock : Coroutines, mode : Modes])]
    BY <1>0, <1>1, <1>3, <1>4 DEF GrantsAreTyped
  <2>2. dependency' \in [Coroutines -> Int]
    <3>1. dependency \in [Coroutines -> Int] /\ dependency[c] + 1 \in Int
      BY <1>0 DEF GrantsAreTyped
    <3>2. dependency' = [dependency EXCEPT ![c] = dependency[c] + 1]
      BY <1>1
    <3>3. QED
      BY <3>1, <3>2
  <2>3. QED
    BY <1>0, <1>1, <2>1, <2>2, ComesKeeps DEF GrantsAreTyped
<1>7. PlacesAreRight(c)'
  <2>1. ASSUME NEW n \in Suspending!Mutexes
        PROVE  /\ n \in granted'[c] \/ InQueue(c, n)' <=> \E i \in Places(c)' : proxy'[c][i].mutex = n
               /\ ~(n \in granted'[c] /\ InQueue(c, n)') /\ (InQueue(c, n)' => stage'[c] \in {"taking", "suspended"})
    <3>1. n \in granted[c] \/ InQueue(c, n) \/ n = m <=> \E i \in Places(c)' : proxy'[c][i].mutex = n
      BY ComesKeeps
    <3>2. ~(n \in granted[c] /\ InQueue(c, n))
      BY <1>0 DEF PlacesAreRight
    <3>3. QED
      BY <1>0, <1>1, <1>5, <3>1, <3>2
  <2>2. QED
    BY <2>1 DEF PlacesAreRight
<1>8. ASSUME NEW d \in Coroutines
      PROVE  (RequestIsRight(d) /\ SpinIsRight(d) /\ PlacesAreRight(d))'
  <2>1. CASE d = c
    BY <1>7, <2>1, ComesKeeps
  <2>2. CASE d # c
    <3>1. proxy'[d] = proxy[d] /\ taking'[d] = taking[d] /\ stage'[d] = stage[d] /\ spun'[d] = spun[d]
      BY <2>2, ComesKeeps
    <3>2. \A n \in Suspending!Mutexes : spin'[n] = d <=> spin[n] = d
      BY <2>2, ComesKeeps
    <3>3. QED
      BY <1>1, <1>5, <2>2, <3>1, <3>2, OthersKeep
  <2>3. QED
    BY <2>1, <2>2
<1>9. ASSUME NEW d \in Coroutines
      PROVE  DependencyIsRight(d)'
  <2>1. DependencyIsRight(d)
    BY DEF SuspendingIsRight
  <2>2. Suspending!Told(d)' = Suspending!Told(d)
    BY <1>0 DEF Suspending!Told
  <2>3. /\ \A x : x \in Suspending!Queued(d) <=> (x \in Suspending!Mutexes /\ InQueue(d, x))
        /\ \A x : x \in Suspending!Queued(d)' <=> (x \in Suspending!Mutexes /\ InQueue(d, x)')
    <3>1. \A x \in Suspending!Mutexes : DOMAIN waiter[x] = 1 .. Len(waiter[x])
      BY <1>0 DEF GrantsAreTyped
    <3>2. \A x \in Suspending!Mutexes : DOMAIN waiter'[x] = 1 .. Len(waiter'[x])
      BY <1>6 DEF GrantsAreTyped
    <3>3. QED
      BY <3>1, <3>2 DEF Suspending!Queued, InQueue
  <2>4. CASE d # c
    <3>1. Suspending!Queued(d)' = Suspending!Queued(d)
      BY <1>5, <2>3, <2>4
    <3>2. dependency'[d] = dependency[d]
      BY <1>0, <1>1, <2>4 DEF GrantsAreTyped
    <3>3. QED
      BY <1>0, <2>1, <2>2, <3>1, <3>2 DEF DependencyIsRight
  <2>5. CASE d = c
    <3>1. Suspending!Queued(c)' = Suspending!Queued(c) \union {m} /\ m \notin Suspending!Queued(c)
      BY <1>0, <1>5, <2>3, <2>5
    <3>2. IsFiniteSet(Suspending!Queued(c))
      BY <1>0, GrantsAreFinite
    <3>3. Cardinality(Suspending!Queued(c)') = Cardinality(Suspending!Queued(c)) + 1
      BY <3>1, <3>2, FS_AddElement
    <3>4. dependency'[c] = dependency[c] + 1 /\ Cardinality(Suspending!Queued(c)) \in Nat
      BY <1>0, <1>1, <3>2, FS_CardinalityType DEF GrantsAreTyped
    <3>5. IsFiniteSet(Suspending!Told(c))
      BY <1>0, GrantsAreFinite
    <3>6. Cardinality(Suspending!Told(c)) \in Nat
      BY <3>5, FS_CardinalityType
    <3>7. dependency'[c] = Cardinality(Suspending!Queued(c)') + Cardinality(Suspending!Told(c)')
      <4>1. dependency[c] = Cardinality(Suspending!Queued(c)) + Cardinality(Suspending!Told(c))
        BY <2>1, <2>5 DEF DependencyIsRight
      <4>2. Cardinality(Suspending!Told(c)') = Cardinality(Suspending!Told(c))
        BY <2>2, <2>5
      <4>3. QED
        BY <3>3, <3>4, <3>6, <4>1, <4>2
    <3>8. stage'[c] = "taking"
      BY <1>0
    <3>9. QED
      BY <2>5, <3>7, <3>8 DEF DependencyIsRight
  <2>6. QED
    BY <2>4, <2>5
<1>10. QueueIsRight(m)'
  <2>1. \A i \in 1 .. Len(waiter[m]) : waiter[m][i].lock # c
    BY <1>0 DEF InQueue
  <2>2. ASSUME NEW i \in 1 .. Len(waiter'[m]), NEW j \in 1 .. Len(waiter'[m]), waiter'[m][i].lock = waiter'[m][j].lock
        PROVE  i = j
    <3>1. \A k \in 1 .. Len(waiter'[m]) : k = Len(waiter[m]) + 1 \/ k \in 1 .. Len(waiter[m])
      BY <1>2, <1>4
    <3>2. entry.lock = c
      OBVIOUS
    <3>3. \A k, l \in 1 .. Len(waiter[m]) : waiter[m][k].lock = waiter[m][l].lock => k = l
      BY <1>0 DEF QueueIsRight
    <3>4. QED
      BY SMTT(30), <1>4, <2>1, <2>2, <3>1, <3>2, <3>3
  <2>3. ASSUME NEW i \in 1 .. Len(waiter'[m])
        PROVE  \E k \in 1 .. Len(proxy[waiter'[m][i].lock]) :
                 proxy[waiter'[m][i].lock][k] = [mutex |-> m, mode |-> waiter'[m][i].mode]
    <3>1. CASE i \in 1 .. Len(waiter[m])
      <4>1. \E k \in 1 .. Len(proxy[waiter[m][i].lock]) :
              proxy[waiter[m][i].lock][k] = [mutex |-> m, mode |-> waiter[m][i].mode]
        BY <1>0, <3>1 DEF QueueIsRight
      <4>2. waiter'[m][i] = waiter[m][i]
        BY <1>4, <3>1
      <4>3. QED
        BY <4>1, <4>2
    <3>2. CASE i = Len(waiter[m]) + 1
      <4>1. waiter'[m][i].lock = c /\ waiter'[m][i].mode = p.mode
        BY <1>4, <3>2
      <4>2. taking[c] + 1 \in 1 .. Len(proxy[c]) /\ p \in Suspending!Proxies
        BY DEF Comes
      <4>3. p = [mutex |-> m, mode |-> p.mode]
        BY <4>2 DEF Suspending!Proxies
      <4>4. QED
        BY <1>0, <4>1, <4>2, <4>3
    <3>3. i \in 1 .. Len(waiter[m]) \/ i = Len(waiter[m]) + 1
      BY <1>2, <1>4
    <3>4. QED
      BY <3>1, <3>2, <3>3
  <2>4. QED
    BY <1>0, <2>2, <2>3 DEF QueueIsRight
<1>11. ASSUME NEW n \in Suspending!Mutexes
       PROVE  QueueIsRight(n)'
  <2>1. CASE n = m
    BY <1>10, <2>1
  <2>2. CASE n # m
    <3>1. QueueIsRight(n) /\ waiter'[n] = waiter[n] /\ proxy' = proxy
      BY <1>0, <1>3, <2>2 DEF SuspendingIsRight
    <3>2. QED
      BY <3>1 DEF QueueIsRight
  <2>3. QED
    BY <2>1, <2>2
<1>12. ASSUME NEW n \in Suspending!Mutexes
       PROVE  MutexIsRight(n)'
  <2>1. MutexIsRight(n) /\ \A mode : Suspending!Holders(n, mode)' = Suspending!Holders(n, mode)
    BY <1>0, <1>1 DEF SuspendingIsRight, Suspending!Holders
  <2>2. Suspending!Holders(n, "exclude")' = Suspending!Holders(n, "exclude")
    BY <2>1
  <2>3. Suspending!Holders(n, "share")' = Suspending!Holders(n, "share")
    BY <2>1
  <2>4. exclusive' = exclusive /\ shared' = shared
    BY <1>1
  <2>5. n # m => waiter'[n] = waiter[n]
    BY <1>3
  <2>6. exclusive[m] \/ shared[m] > 0
    <3>1. CASE waiter[m] # <<>> \/ exclusive[m]
      BY <1>0, <3>1 DEF MutexIsRight
    <3>2. CASE shared[m] # 0
      <4>1. IsFiniteSet(Suspending!Holders(m, "share"))
        BY <1>0, GrantsAreFinite
      <4>2. shared[m] \in Nat
        BY <1>0, <4>1, FS_CardinalityType DEF MutexIsRight
      <4>3. QED
        BY <3>2, <4>2
    <3>3. QED
      BY <3>1, <3>2 DEF Suspending!Busy
  <2>7. waiter'[n] # <<>> => exclusive[n] \/ shared[n] > 0
    <3>1. CASE n = m
      BY <2>6, <3>1
    <3>2. CASE n # m
      BY <2>1, <2>5, <3>2 DEF MutexIsRight
    <3>3. QED
      BY <3>1, <3>2
  <2>8. QED
    BY <2>1, <2>2, <2>3, <2>4, <2>7 DEF MutexIsRight
<1>13. QED
  BY <1>6, <1>8, <1>9, <1>11, <1>12, ComesKeeps DEF SuspendingIsRight

LEMMA TakeKeeps ==
  ASSUME SuspendingIsRight, NEW c \in Coroutines, Suspending!Take(c)
  PROVE  SuspendingIsRight'
<1>1. PICK p : /\ Comes(c, p)
               /\ IF Suspending!Busy(p) THEN Suspending!Queue(c, p) ELSE Suspending!Grant(c, p)
  BY TakeComes
<1>2. QED
  BY <1>1, GrantKeeps, QueueKeeps

\* Who is in the news of another and who queues where, in places.
LEMMA NewsAndQueues ==
  ASSUME GrantsAreTyped, NEW c \in Coroutines
  PROVE  /\ \A d \in Coroutines : d \in Suspending!Told(c) <=> \E i \in 1 .. Len(woken[d]) : woken[d][i] = c
         /\ \A m \in Suspending!Mutexes : m \in Suspending!Queued(c) <=> InQueue(c, m)
         /\ Suspending!Told(c) \subseteq Coroutines /\ Suspending!Queued(c) \subseteq Suspending!Mutexes
<1>1. \A d \in Coroutines : DOMAIN woken[d] = 1 .. Len(woken[d])
  BY DEF GrantsAreTyped
<1>2. \A m \in Suspending!Mutexes : DOMAIN waiter[m] = 1 .. Len(waiter[m])
  BY DEF GrantsAreTyped
<1>3. QED
  BY <1>1, <1>2 DEF Suspending!Told, Suspending!Queued, InQueue

\* To tell a coroutine that it has a mutex.
LEMMA TellKeeps ==
  ASSUME SuspendingIsRight, NEW c \in Coroutines, Suspending!Tell(c)
  PROVE  SuspendingIsRight'
<1>a. PICK d : d = Head(woken[c])
  OBVIOUS
<1>0. /\ GrantsAreTyped /\ NewsIsRight(c) /\ stage[c] = "unlocking" /\ woken[c] # <<>>
      /\ dependency' = [dependency EXCEPT ![d] = @ - 1]
      /\ stage' = IF dependency[d] = 1 THEN [stage EXCEPT ![d] = "inside"] ELSE stage
      /\ woken' = [woken EXCEPT ![c] = Tail(@)]
      /\ UNCHANGED <<spin, exclusive, shared, waiter, proxy, taking, spun, granted>>
  BY <1>a DEF SuspendingIsRight, Suspending!Tell
<1>1. /\ woken[c] \in Seq(Coroutines) /\ Len(woken[c]) \in Nat /\ Len(woken[c]) >= 1 /\ woken[c][1] = d
      /\ Len(Tail(woken[c])) = Len(woken[c]) - 1 /\ Tail(woken[c]) \in Seq(Coroutines)
      /\ \A i \in 1 .. Len(woken[c]) - 1 : Tail(woken[c])[i] = woken[c][i + 1]
  <2>1. woken[c] \in Seq(Coroutines) /\ woken[c] # <<>>
    BY <1>0 DEF GrantsAreTyped
  <2>2. Len(woken[c]) \in Nat /\ Len(woken[c]) >= 1 /\ Len(Tail(woken[c])) = Len(woken[c]) - 1
        /\ Tail(woken[c]) \in Seq(Coroutines)
    BY <2>1
  <2>3. woken[c][1] = d
    BY <1>a, <2>1
  <2>4. \A i \in 1 .. Len(woken[c]) - 1 : Tail(woken[c])[i] = woken[c][i + 1]
    BY <2>1
  <2>5. QED
    BY <2>1, <2>2, <2>3, <2>4
<1>2. d \in Coroutines /\ stage[d] = "suspended" /\ d # c
  <2>1. 1 \in 1 .. Len(woken[c])
    BY <1>1
  <2>2. QED
    BY <1>0, <1>1, <2>1, ElementOf DEF NewsIsRight
<1>3. \A e \in Coroutines : e # c => woken'[e] = woken[e]
  BY <1>0 DEF GrantsAreTyped
<1>4. woken'[c] = Tail(woken[c])
  BY <1>0 DEF GrantsAreTyped
<1>5. GrantsAreTyped'
  <2>1. woken' \in [Coroutines -> Seq(Coroutines)]
    BY <1>0, <1>1 DEF GrantsAreTyped
  <2>2. dependency' \in [Coroutines -> Int] /\ stage' \in [Coroutines -> Stages]
    <3>1. dependency' \in [Coroutines -> Int]
      <4>1. dependency \in [Coroutines -> Int] /\ dependency[d] - 1 \in Int
        BY SMTT(30), <1>0, <1>2 DEF GrantsAreTyped
      <4>2. QED
        BY <1>0, <1>2, <4>1
    <3>2. stage' \in [Coroutines -> Stages]
      BY <1>0, <1>2 DEF GrantsAreTyped, Stages
    <3>3. QED
      BY <3>1, <3>2
  <2>3. QED
    BY <1>0, <2>1, <2>2 DEF GrantsAreTyped
<1>6. \A e \in Coroutines, m \in Suspending!Mutexes : InQueue(e, m)' <=> InQueue(e, m)
  BY <1>0 DEF InQueue
<1>7. \A e \in Coroutines : Suspending!Queued(e)' = Suspending!Queued(e)
  BY <1>0 DEF Suspending!Queued
<1>8. ASSUME NEW e \in Coroutines
      PROVE  Suspending!Told(e)' = IF e = d THEN Suspending!Told(e) \ {c} ELSE Suspending!Told(e)
  <2>1. (\E i \in 1 .. Len(woken'[c]) : woken'[c][i] = e) <=> (e # d /\ \E i \in 1 .. Len(woken[c]) : woken[c][i] = e)
    <3>1. \A i, j \in 1 .. Len(woken[c]) : woken[c][i] = woken[c][j] => i = j
      BY <1>0 DEF NewsIsRight
    <3>2. ASSUME NEW i \in 1 .. Len(woken'[c]), woken'[c][i] = e
          PROVE  e # d /\ \E j \in 1 .. Len(woken[c]) : woken[c][j] = e
      <4>1. i + 1 \in 1 .. Len(woken[c]) /\ woken[c][i + 1] = e /\ i + 1 # 1 /\ 1 \in 1 .. Len(woken[c])
        BY <1>1, <1>4, <3>2
      <4>2. QED
        BY <1>1, <3>1, <4>1
    <3>3. ASSUME NEW j \in 1 .. Len(woken[c]), woken[c][j] = e, e # d
          PROVE  \E i \in 1 .. Len(woken'[c]) : woken'[c][i] = e
      <4>1. j # 1
        BY <1>1, <3>3
      <4>2. j - 1 \in 1 .. Len(woken'[c]) /\ woken'[c][j - 1] = woken[c][j]
        BY <1>1, <1>4, <4>1
      <4>3. QED
        BY <3>3, <4>2
    <3>4. QED
      BY <3>2, <3>3
  <2>2. \A f \in Coroutines : f \in Suspending!Told(e)' <=> \E i \in 1 .. Len(woken'[f]) : woken'[f][i] = e
    <3>1. \A f \in Coroutines : DOMAIN woken'[f] = 1 .. Len(woken'[f])
      BY <1>5 DEF GrantsAreTyped
    <3>2. QED
      BY <3>1 DEF Suspending!Told
  <2>3. \A f \in Coroutines : f \in Suspending!Told(e) <=> \E i \in 1 .. Len(woken[f]) : woken[f][i] = e
    BY <1>0, NewsAndQueues
  <2>4. Suspending!Told(e)' \subseteq Coroutines /\ Suspending!Told(e) \subseteq Coroutines
    BY DEF Suspending!Told
  <2>5. \A f \in Coroutines : f # c => (f \in Suspending!Told(e)' <=> f \in Suspending!Told(e))
    BY <1>3, <2>2, <2>3
  <2>6. c \in Suspending!Told(e)' <=> (e # d /\ c \in Suspending!Told(e))
    BY <2>1, <2>2, <2>3
  <2>7. QED
    BY <2>4, <2>5, <2>6
<1>9. c \in Suspending!Told(d)
  <2>1. 1 \in 1 .. Len(woken[c])
    BY <1>1
  <2>2. QED
    BY <1>0, <1>1, <1>2, <2>1, NewsAndQueues
<1>10. IsFiniteSet(Suspending!Queued(d)) /\ IsFiniteSet(Suspending!Told(d))
  <2>1. IsFiniteSet(Coroutines) /\ MutexCount \in Nat
    BY SuspendingAssumed, SuspendingCardinality DEF Suspending!CoroutineLockAssumption
  <2>2. IsFiniteSet(Suspending!Mutexes)
    BY <2>1, FS_Interval DEF Suspending!Mutexes
  <2>3. Suspending!Queued(d) \subseteq Suspending!Mutexes /\ Suspending!Told(d) \subseteq Coroutines
    BY DEF Suspending!Queued, Suspending!Told
  <2>4. QED
    BY <2>1, <2>2, <2>3, FS_Subset
<1> DEFINE queued == Cardinality(Suspending!Queued(d))
           told == Cardinality(Suspending!Told(d))
<1>11. queued \in Nat /\ told \in Nat /\ Cardinality(Suspending!Told(d) \ {c}) = told - 1
  BY <1>9, <1>10, FS_CardinalityType, FS_RemoveElement
<1>12. dependency[d] = queued + told /\ dependency'[d] = dependency[d] - 1
       /\ \A e \in Coroutines : e # d => dependency'[e] = dependency[e]
  <2>1. dependency[d] = queued + told
    BY <1>2 DEF SuspendingIsRight, DependencyIsRight
  <2>2. QED
    BY <1>0, <1>2, <2>1 DEF GrantsAreTyped
<1>13. dependency[d] = 1 => Suspending!Queued(d) = {} /\ Suspending!Told(d) \ {c} = {}
  <2>1. HAVE dependency[d] = 1
  <2>2. IsFiniteSet(Suspending!Told(d) \ {c})
    BY <1>10, FS_Subset
  <2>3. Cardinality(Suspending!Told(d) \ {c}) \in Nat
    BY <2>2, FS_CardinalityType
  <2>4. queued = 0 /\ Cardinality(Suspending!Told(d) \ {c}) = 0
    BY <1>11, <1>12, <2>1, <2>3
  <2>5. QED
    BY <1>10, <2>2, <2>4, FS_EmptySet
<1>14. /\ \A e \in Coroutines : e # d => stage'[e] = stage[e]
       /\ stage'[d] = IF dependency[d] = 1 THEN "inside" ELSE "suspended"
  BY <1>0, <1>2 DEF GrantsAreTyped
<1>15. ASSUME NEW e \in Coroutines
       PROVE  (RequestIsRight(e) /\ SpinIsRight(e) /\ PlacesAreRight(e))'
  <2>1. CASE e # d
    <3>1. proxy'[e] = proxy[e] /\ taking'[e] = taking[e] /\ stage'[e] = stage[e] /\ spun'[e] = spun[e]
      BY <1>0, <1>14, <2>1
    <3>2. QED
      BY <1>0, <1>6, <3>1, OthersKeep
  <2>2. CASE e = d
    <3>1. RequestIsRight(d) /\ SpinIsRight(d) /\ PlacesAreRight(d)
      BY <1>2 DEF SuspendingIsRight
    <3>2. RequestIsRight(d)' /\ SpinIsRight(d)'
      BY <1>0, <1>14, <3>1 DEF RequestIsRight, SpinIsRight
    <3>3. Places(d)' = Places(d)
      BY <1>0, <1>2, <1>14 DEF Places
    <3>4. \A m \in Suspending!Mutexes : InQueue(d, m) => stage'[d] = "suspended"
      <4>1. dependency[d] = 1 => \A m \in Suspending!Mutexes : ~InQueue(d, m)
        BY <1>0, <1>2, <1>13, NewsAndQueues
      <4>2. QED
        BY <1>14, <4>1
    <3>5. PlacesAreRight(d)'
      <4>1. ASSUME NEW m \in Suspending!Mutexes
            PROVE  /\ m \in granted'[d] \/ InQueue(d, m)' <=> \E i \in Places(d)' : proxy'[d][i].mutex = m
                   /\ ~(m \in granted'[d] /\ InQueue(d, m)')
                   /\ (InQueue(d, m)' => stage'[d] \in {"taking", "suspended"})
        <5>1. /\ m \in granted[d] \/ InQueue(d, m) <=> \E i \in Places(d) : proxy[d][i].mutex = m
              /\ ~(m \in granted[d] /\ InQueue(d, m))
          BY <3>1 DEF PlacesAreRight
        <5>2. granted' = granted /\ proxy' = proxy /\ (InQueue(d, m)' <=> InQueue(d, m))
          BY <1>0, <1>2, <1>6
        <5>3. InQueue(d, m) => stage'[d] = "suspended"
          BY <3>4
        <5>4. QED
          BY <3>3, <5>1, <5>2, <5>3
      <4>2. QED
        BY <4>1 DEF PlacesAreRight
    <3>6. QED
      BY <2>2, <3>2, <3>5
  <2>3. QED
    BY <2>1, <2>2
<1>16. ASSUME NEW e \in Coroutines
       PROVE  NewsIsRight(e)'
  <2>1. NewsIsRight(e) /\ woken[e] \in Seq(Coroutines) /\ woken'[e] \in Seq(Coroutines)
    BY <1>5 DEF SuspendingIsRight, GrantsAreTyped
  <2>2. \A i \in 1 .. Len(woken'[e]) : \E j \in 1 .. Len(woken[e]) : woken'[e][i] = woken[e][j]
    <3>1. CASE e = c
      <4>1. ASSUME NEW i \in 1 .. Len(woken'[c])
            PROVE  i + 1 \in 1 .. Len(woken[c]) /\ woken'[c][i] = woken[c][i + 1]
        BY <1>1, <1>4
      <4>2. QED
        BY <3>1, <4>1
    <3>2. CASE e # c
      BY <1>3, <3>2
    <3>3. QED
      BY <3>1, <3>2
  <2>3. \A i, j \in 1 .. Len(woken'[e]) : woken'[e][i] = woken'[e][j] => i = j
    <3>1. CASE e = c
      <4>1. ASSUME NEW i \in 1 .. Len(woken'[c]), NEW j \in 1 .. Len(woken'[c]), woken'[c][i] = woken'[c][j]
            PROVE  i = j
        <5>1. /\ i + 1 \in 1 .. Len(woken[c]) /\ woken'[c][i] = woken[c][i + 1]
              /\ j + 1 \in 1 .. Len(woken[c]) /\ woken'[c][j] = woken[c][j + 1]
          BY <1>1, <1>4
        <5>2. i + 1 = j + 1
          BY <1>0, <4>1, <5>1 DEF NewsIsRight
        <5>3. QED
          BY <5>2
      <4>2. QED
        BY <3>1, <4>1
    <3>2. CASE e # c
      BY <1>3, <2>1, <3>2 DEF NewsIsRight
    <3>3. QED
      BY <3>1, <3>2
  <2>4. woken'[e] # <<>> => woken[e] # <<>>
    BY <1>0, <1>3
  <2>5. woken'[e] # <<>> => stage'[e] = "unlocking"
    BY <1>2, <1>14, <2>1, <2>4 DEF NewsIsRight
  <2>6. ASSUME NEW i \in 1 .. Len(woken'[e])
        PROVE  stage'[woken'[e][i]] = "suspended"
    <3>1. woken'[e][i] \in Coroutines /\ stage[woken'[e][i]] = "suspended"
      BY <2>1, <2>2, ElementOf DEF NewsIsRight
    <3>2. CASE woken'[e][i] # d
      BY <1>14, <3>1, <3>2
    <3>3. CASE woken'[e][i] = d
      <4>1. e \in Suspending!Told(d)'
        <5>1. DOMAIN woken'[e] = 1 .. Len(woken'[e])
          BY <1>5 DEF GrantsAreTyped
        <5>2. QED
          BY <3>3, <5>1 DEF Suspending!Told
      <4>2. dependency[d] # 1
        BY <1>2, <1>8, <1>13, <4>1
      <4>3. QED
        BY <1>14, <3>3, <4>2
    <3>4. QED
      BY <3>2, <3>3
  <2>7. QED
    BY <2>3, <2>5, <2>6 DEF NewsIsRight
<1>17. ASSUME NEW e \in Coroutines
       PROVE  DependencyIsRight(e)'
  <2>1. DependencyIsRight(e)
    BY DEF SuspendingIsRight
  <2>2. CASE e # d
    <3>1. Suspending!Told(e)' = Suspending!Told(e) /\ Suspending!Queued(e)' = Suspending!Queued(e)
      BY <1>7, <1>8, <2>2
    <3>2. QED
      BY <1>12, <1>14, <2>1, <2>2, <3>1 DEF DependencyIsRight
  <2>3. CASE e = d
    <3>1. Suspending!Told(d)' = Suspending!Told(d) \ {c} /\ Suspending!Queued(d)' = Suspending!Queued(d)
      BY <1>2, <1>7, <1>8
    <3>2. Cardinality(Suspending!Told(d)') = told - 1 /\ Cardinality(Suspending!Queued(d)') = queued
      BY <1>11, <3>1
    <3>3. dependency'[d] = Cardinality(Suspending!Queued(d)') + Cardinality(Suspending!Told(d)')
      BY <1>11, <1>12, <3>2
    <3>4. stage'[d] = "suspended" => dependency'[d] # 0
      BY <1>11, <1>12, <1>14
    <3>5. QED
      BY <2>3, <3>3, <3>4 DEF DependencyIsRight
  <2>4. QED
    BY <2>2, <2>3
<1>18. ASSUME NEW m \in Suspending!Mutexes
       PROVE  QueueIsRight(m)' /\ MutexIsRight(m)'
  <2>1. QueueIsRight(m) /\ MutexIsRight(m)
    BY DEF SuspendingIsRight
  <2>2. QueueIsRight(m)'
    BY <1>0, <2>1 DEF QueueIsRight
  <2>3. Suspending!Holders(m, "exclude")' = Suspending!Holders(m, "exclude")
    BY <1>0 DEF Suspending!Holders
  <2>4. Suspending!Holders(m, "share")' = Suspending!Holders(m, "share")
    BY <1>0 DEF Suspending!Holders
  <2>5. MutexIsRight(m)'
    BY <1>0, <2>1, <2>3, <2>4 DEF MutexIsRight
  <2>6. QED
    BY <2>2, <2>5
<1>19. QED
  BY <1>5, <1>15, <1>16, <1>17, <1>18 DEF SuspendingIsRight

\* Who leaves the queue of a free mutex: its first, if that one wants it alone, or
\* one or more that share it.
LEMMA LeavingIsRight ==
  ASSUME NEW queue \in Seq([lock : Coroutines, mode : Modes])
  PROVE  /\ Suspending!Leaving(queue) \in 0 .. Len(queue)
         /\ queue # <<>> => Suspending!Leaving(queue) > 0
         /\ queue # <<>> /\ queue[1].mode = "exclude" => Suspending!Leaving(queue) = 1
         /\ queue # <<>> /\ queue[1].mode # "exclude" =>
              \A i \in 1 .. Suspending!Leaving(queue) : queue[i].mode = "share"
<1>1. /\ Len(queue) \in Nat /\ DOMAIN queue = 1 .. Len(queue)
      /\ \A i \in 1 .. Len(queue) : queue[i].mode \in Modes
  <2>1. \A i \in 1 .. Len(queue) : queue[i] \in [lock : Coroutines, mode : Modes]
    BY ElementOf
  <2>2. QED
    BY <2>1
<1>2. CASE queue = <<>>
  BY <1>1, <1>2 DEF Suspending!Leaving
<1>3. CASE queue # <<>> /\ queue[1].mode = "exclude"
  <2>1. Suspending!Leaving(queue) = 1 /\ Len(queue) >= 1
    BY <1>1, <1>3 DEF Suspending!Leaving
  <2>2. QED
    BY <1>1, <1>3, <2>1
<1>4. CASE queue # <<>> /\ queue[1].mode # "exclude"
  <2> DEFINE stops == {i \in DOMAIN queue : queue[i].mode = "exclude"}
             first == CHOOSE i \in stops : \A j \in stops : i <= j
  <2>1. Suspending!Leaving(queue) = IF stops = {} THEN Len(queue) ELSE first - 1
    BY <1>4 DEF Suspending!Leaving
  <2>2. Len(queue) >= 1
    BY <1>1, <1>4
  <2>3. CASE stops = {}
    <3>1. \A i \in 1 .. Len(queue) : queue[i].mode = "share"
      BY <1>1, <2>3 DEF Modes
    <3>2. QED
      BY <1>1, <1>4, <2>1, <2>2, <2>3, <3>1
  <2>4. CASE stops # {}
    <3>1. stops \in SUBSET Nat
      BY <1>1
    <3>2. \E i \in stops : \A j \in stops : i <= j
      BY <2>4, <3>1, LeastNumber
    <3>3. first \in stops /\ \A j \in stops : first <= j
      BY <3>2
    <3>4. first \in 1 .. Len(queue) /\ first # 1
      BY <1>1, <1>4, <3>3
    <3>5. Suspending!Leaving(queue) = first - 1
      BY <2>1, <2>4
    <3>6. ASSUME NEW i \in 1 .. first - 1
          PROVE  queue[i].mode = "share"
      <4>1. i \in 1 .. Len(queue) /\ ~(first <= i)
        BY <1>1, <3>4
      <4>2. i \notin stops
        BY <3>3, <4>1
      <4>3. queue[i].mode # "exclude" /\ queue[i].mode \in Modes
        BY <1>1, <4>1, <4>2
      <4>4. QED
        BY <4>3 DEF Modes
    <3>7. first - 1 \in 0 .. Len(queue) /\ first - 1 > 0
      BY <1>1, <3>4
    <3>8. QED
      BY <1>4, <3>5, <3>6, <3>7
  <2>5. QED
    BY <2>3, <2>4
<1>5. QED
  BY <1>2, <1>3, <1>4

\* The first n of the queue of a mutex, and that they are one who wants it alone.
Leavers(m, n) == {waiter[m][i].lock : i \in 1 .. n}
ToOne(m, n) == n > 0 /\ waiter[m][1].mode = "exclude"
IsFree(p) == p.mode = "exclude" \/ shared[p.mutex] = 1

\* A coroutine gives back the mutex of p, and the first n of its queue get it.
Releases(c, p, n) ==
  /\ stage[c] = "unlocking" /\ woken[c] = <<>>
  /\ taking[c] + 1 \in 1 .. Len(proxy[c]) /\ p = proxy[c][taking[c] + 1]
  /\ p \in Suspending!Proxies /\ p.mutex \in Suspending!Mutexes /\ p.mode \in Modes /\ spin[p.mutex] = 0
  /\ n \in 0 .. Len(waiter[p.mutex])
  /\ n > 0 => IsFree(p)
  /\ IsFree(p) /\ waiter[p.mutex] # <<>> => n > 0
  /\ ToOne(p.mutex, n) => n = 1
  /\ ~ToOne(p.mutex, n) => \A i \in 1 .. n : waiter[p.mutex][i].mode = "share"
  /\ exclusive' = [exclusive EXCEPT ![p.mutex] = ToOne(p.mutex, n)]
  /\ shared' = [shared EXCEPT ![p.mutex] =
       (IF p.mode = "share" THEN @ - 1 ELSE @) + (IF ToOne(p.mutex, n) THEN 0 ELSE n)]
  /\ waiter' = [waiter EXCEPT ![p.mutex] = SubSeq(@, n + 1, Len(@))]
  /\ woken' = [woken EXCEPT ![c] = [i \in 1 .. n |-> waiter[p.mutex][i].lock]]
  /\ granted' = [d \in Coroutines |->
       IF d = c THEN granted[c] \ {p.mutex}
       ELSE IF d \in Leavers(p.mutex, n) THEN granted[d] \union {p.mutex} ELSE granted[d]]
  /\ taking' = [taking EXCEPT ![c] = @ + 1]
  /\ UNCHANGED <<spin, proxy, dependency, stage, spun>>

LEMMA UnlockReleases ==
  ASSUME SuspendingIsRight, NEW c \in Coroutines, Suspending!Unlock(c)
  PROVE  \E p, n : Releases(c, p, n)
<1>a. PICK p : p = proxy[c][taking[c] + 1]
  OBVIOUS
<1>b. PICK m : m = p.mutex
  OBVIOUS
<1>c. PICK queue : queue = waiter[m]
  OBVIOUS
<1>d. PICK free \in BOOLEAN : free = (p.mode = "exclude" \/ shared[m] = 1)
  OBVIOUS
<1>e. PICK n : n = IF free THEN Suspending!Leaving(queue) ELSE 0
  OBVIOUS
<1>f. PICK leave : leave = IF free THEN SubSeq(queue, 1, Suspending!Leaving(queue)) ELSE <<>>
  OBVIOUS
<1>g. PICK toOne \in BOOLEAN : toOne = (leave # <<>> /\ leave[1].mode = "exclude")
  OBVIOUS
<1>1. /\ stage[c] = "unlocking" /\ woken[c] = <<>> /\ taking[c] < Len(proxy[c]) /\ spin[m] = 0
      /\ exclusive' = [exclusive EXCEPT ![m] = toOne]
      /\ shared' = [shared EXCEPT ![m] =
           (IF p.mode = "share" THEN @ - 1 ELSE @) + (IF toOne THEN 0 ELSE Len(leave))]
      /\ waiter' = [waiter EXCEPT ![m] = SubSeq(@, Len(leave) + 1, Len(@))]
      /\ woken' = [woken EXCEPT ![c] = [i \in DOMAIN leave |-> leave[i].lock]]
      /\ granted' = [d \in Coroutines |->
           IF d = c THEN granted[c] \ {m}
           ELSE IF \E i \in DOMAIN leave : leave[i].lock = d THEN granted[d] \union {m} ELSE granted[d]]
      /\ taking' = [taking EXCEPT ![c] = @ + 1]
      /\ UNCHANGED <<spin, proxy, dependency, stage, spun>>
  BY <1>a, <1>b, <1>c, <1>d, <1>f, <1>g DEF Suspending!Unlock, Suspending!Nobody
<1>2. proxy[c] \in Seq(Suspending!Proxies) /\ taking[c] \in Nat
  BY DEF SuspendingIsRight, GrantsAreTyped
<1>3. taking[c] + 1 \in 1 .. Len(proxy[c])
  BY <1>1, <1>2
<1>4. p \in Suspending!Proxies
  BY <1>a, <1>2, <1>3, ElementOf
<1>5. m \in Suspending!Mutexes /\ p.mode \in Modes
  BY <1>b, <1>4 DEF Suspending!Proxies, Modes
<1>6. queue \in Seq([lock : Coroutines, mode : Modes]) /\ Len(queue) \in Nat
  <2>1. queue \in Seq([lock : Coroutines, mode : Modes])
    BY <1>c, <1>5 DEF SuspendingIsRight, GrantsAreTyped
  <2>2. QED
    BY <2>1
<1>7. n \in 0 .. Len(queue) /\ n \in Nat
  <2>1. Suspending!Leaving(queue) \in 0 .. Len(queue)
    BY <1>6, LeavingIsRight
  <2>2. QED
    BY <1>e, <1>6, <2>1
<1>8. Len(leave) = n /\ DOMAIN leave = 1 .. n /\ \A i \in 1 .. n : leave[i] = queue[i]
  <2>1. CASE free
    <3>1. leave = SubSeq(queue, 1, n)
      BY <1>e, <1>f, <2>1
    <3>2. QED
      BY <1>6, <1>7, <3>1
  <2>2. CASE ~free
    <3>1. leave = <<>> /\ n = 0
      BY <1>e, <1>f, <2>2
    <3>2. QED
      BY <3>1
  <2>3. QED
    BY <2>1, <2>2
<1>9. toOne = ToOne(m, n)
  <2>1. leave # <<>> <=> n > 0
    <3>1. CASE free
      <4>1. leave = SubSeq(queue, 1, n)
        BY <1>e, <1>f, <3>1
      <4>2. n = 0 => leave = <<>>
        BY <1>6, <4>1
      <4>3. leave = <<>> => n = 0
        BY <1>8
      <4>4. QED
        BY <1>7, <4>2, <4>3
    <3>2. CASE ~free
      BY <1>e, <1>f, <3>2
    <3>3. QED
      BY <3>1, <3>2
  <2>2. n > 0 => leave[1] = queue[1]
    BY <1>7, <1>8
  <2>3. QED
    BY <1>c, <1>g, <2>1, <2>2 DEF ToOne
<1>10. /\ n > 0 => IsFree(p)
       /\ IsFree(p) /\ queue # <<>> => n > 0
       /\ ToOne(m, n) => n = 1
       /\ ~ToOne(m, n) => \A i \in 1 .. n : queue[i].mode = "share"
  <2>1. free <=> IsFree(p)
    BY <1>b, <1>d DEF IsFree
  <2>2. CASE ~free
    <3>1. n = 0
      BY <1>e, <2>2
    <3>2. QED
      BY <2>1, <2>2, <3>1 DEF ToOne
  <2>3. CASE free
    <3>1. n = Suspending!Leaving(queue)
      BY <1>e, <2>3
    <3>2. n > 0 => queue # <<>>
      BY <1>6, <1>7
    <3>3. queue # <<>> => n > 0
      BY <1>6, <3>1, LeavingIsRight
    <3>4. queue # <<>> /\ queue[1].mode = "exclude" => n = 1
      BY <1>6, <3>1, LeavingIsRight
    <3>5. queue # <<>> /\ queue[1].mode # "exclude" => \A i \in 1 .. n : queue[i].mode = "share"
      BY <1>6, <3>1, LeavingIsRight
    <3>6. ~(n > 0) => \A i \in 1 .. n : queue[i].mode = "share"
      BY <1>7
    <3>7. QED
      BY <1>c, <2>1, <2>3, <3>2, <3>3, <3>4, <3>5, <3>6 DEF ToOne
  <2>4. QED
    BY <2>2, <2>3
<1>11. \A d \in Coroutines : (\E i \in DOMAIN leave : leave[i].lock = d) <=> d \in Leavers(m, n)
  BY <1>c, <1>8 DEF Leavers
<1>12. [i \in DOMAIN leave |-> leave[i].lock] = [i \in 1 .. n |-> queue[i].lock]
  BY <1>8
<1>13. Releases(c, p, n)
  <2>1. /\ exclusive' = [exclusive EXCEPT ![m] = ToOne(m, n)]
        /\ shared' = [shared EXCEPT ![m] =
             (IF p.mode = "share" THEN @ - 1 ELSE @) + (IF ToOne(m, n) THEN 0 ELSE n)]
    BY <1>1, <1>8, <1>9
  <2>2. waiter' = [waiter EXCEPT ![m] = SubSeq(@, n + 1, Len(@))]
    BY <1>1, <1>8
  <2>3. woken' = [woken EXCEPT ![c] = [i \in 1 .. n |-> waiter[m][i].lock]]
    BY <1>c, <1>1, <1>12
  <2>4. granted' = [d \in Coroutines |->
          IF d = c THEN granted[c] \ {m}
          ELSE IF d \in Leavers(m, n) THEN granted[d] \union {m} ELSE granted[d]]
    BY <1>1, <1>11
  <2>5. /\ stage[c] = "unlocking" /\ woken[c] = <<>> /\ spin[m] = 0 /\ taking' = [taking EXCEPT ![c] = @ + 1]
        /\ UNCHANGED <<spin, proxy, dependency, stage, spun>>
    BY <1>1
  <2>6. /\ n \in 0 .. Len(waiter[m])
        /\ n > 0 => IsFree(p)
        /\ IsFree(p) /\ waiter[m] # <<>> => n > 0
        /\ ToOne(m, n) => n = 1
        /\ ~ToOne(m, n) => \A i \in 1 .. n : waiter[m][i].mode = "share"
    BY <1>c, <1>7, <1>10
  <2>7. QED
    BY <1>a, <1>b, <1>3, <1>4, <1>5, <2>1, <2>2, <2>3, <2>4, <2>5, <2>6 DEF Releases
<1>14. QED
  BY <1>13

\* Who leaves a queue is suspended: one that still takes its mutexes holds the spin
\* lock of each that it has seen.
LEMMA LeaversAreSuspended ==
  ASSUME SuspendingIsRight, NEW c \in Coroutines, NEW p, NEW n, Releases(c, p, n)
  PROVE  /\ p.mutex \in granted[c] /\ (\A m \in Suspending!Mutexes : ~InQueue(c, m))
         /\ \A i \in 1 .. n : i \in 1 .. Len(waiter[p.mutex])
         /\ \A d \in Leavers(p.mutex, n) :
              /\ d \in Coroutines /\ d # c /\ stage[d] = "suspended"
              /\ InQueue(d, p.mutex) /\ p.mutex \notin granted[d]
<1>0. /\ stage[c] = "unlocking" /\ p.mutex \in Suspending!Mutexes /\ spin[p.mutex] = 0 /\ 0 \notin Coroutines
      /\ taking[c] + 1 \in 1 .. Len(proxy[c]) /\ p = proxy[c][taking[c] + 1] /\ n \in 0 .. Len(waiter[p.mutex])
      /\ waiter[p.mutex] \in Seq([lock : Coroutines, mode : Modes]) /\ taking[c] \in Nat
  BY SuspendingAssumed DEF SuspendingIsRight, Releases, GrantsAreTyped, Suspending!CoroutineLockAssumption,
     Suspending!Nobody
<1>1. p.mutex \in granted[c] /\ \A m \in Suspending!Mutexes : ~InQueue(c, m)
  <2>1. PlacesAreRight(c)
    BY DEF SuspendingIsRight
  <2>2. \A m \in Suspending!Mutexes : ~InQueue(c, m)
    BY <1>0, <2>1 DEF PlacesAreRight
  <2>3. taking[c] + 1 \in Places(c)
    BY <1>0 DEF Places
  <2>4. QED
    BY <1>0, <2>1, <2>2, <2>3 DEF PlacesAreRight
<1>2. \A i \in 1 .. n : i \in 1 .. Len(waiter[p.mutex])
  BY <1>0
<1>3. ASSUME NEW d \in Leavers(p.mutex, n)
      PROVE  /\ d \in Coroutines /\ d # c /\ stage[d] = "suspended"
             /\ InQueue(d, p.mutex) /\ p.mutex \notin granted[d]
  <2>1. PICK i \in 1 .. Len(waiter[p.mutex]) : waiter[p.mutex][i].lock = d
    BY <1>2 DEF Leavers
  <2>2. d \in Coroutines
    BY <1>0, <2>1, EntryIsTyped DEF SuspendingIsRight
  <2>3. InQueue(d, p.mutex)
    BY <2>1 DEF InQueue
  <2>4. PlacesAreRight(d) /\ SpinIsRight(d)
    BY <2>2 DEF SuspendingIsRight
  <2>5. p.mutex \notin granted[d] /\ stage[d] \in {"taking", "suspended"}
    BY <1>0, <2>3, <2>4 DEF PlacesAreRight
  <2>6. stage[d] # "taking"
    <3>1. SUFFICES ASSUME stage[d] = "taking"
                   PROVE  FALSE
      OBVIOUS
    <3>2. PICK k \in Places(d) : proxy[d][k].mutex = p.mutex
      BY <1>0, <2>3, <2>4 DEF PlacesAreRight
    <3>3. k \in 1 .. taking[d]
      BY <3>1, <3>2 DEF Places
    <3>4. p.mutex \in spun[d]
      BY <2>4, <3>1, <3>2, <3>3 DEF SpinIsRight
    <3>5. spin[p.mutex] = d
      BY <1>0, <2>4, <3>4 DEF SpinIsRight
    <3>6. QED
      BY <1>0, <2>2, <3>5
  <2>7. QED
    BY <1>0, <2>2, <2>3, <2>5, <2>6
<1>4. QED
  BY <1>1, <1>2, <1>3

\* The queue goes on with those that did not leave.
LEMMA QueueAfterRelease ==
  ASSUME SuspendingIsRight, NEW c \in Coroutines, NEW p, NEW n, Releases(c, p, n)
  PROVE  /\ \A m \in Suspending!Mutexes : m # p.mutex => waiter'[m] = waiter[m]
         /\ waiter' \in [Suspending!Mutexes -> Seq([lock : Coroutines, mode : Modes])]
         /\ Len(waiter'[p.mutex]) = Len(waiter[p.mutex]) - n
         /\ \A i \in 1 .. Len(waiter[p.mutex]) - n :
              waiter'[p.mutex][i] = waiter[p.mutex][i + n] /\ i + n \in 1 .. Len(waiter[p.mutex])
         /\ \A d \in Coroutines, m \in Suspending!Mutexes :
              InQueue(d, m)' <=> InQueue(d, m) /\ ~(m = p.mutex /\ d \in Leavers(p.mutex, n))
<1>0. PICK m : m = p.mutex
  OBVIOUS
<1>1. /\ m \in Suspending!Mutexes /\ n \in 0 .. Len(waiter[m]) /\ waiter[m] \in Seq([lock : Coroutines, mode : Modes])
      /\ waiter \in [Suspending!Mutexes -> Seq([lock : Coroutines, mode : Modes])]
      /\ waiter' = [waiter EXCEPT ![m] = SubSeq(@, n + 1, Len(@))] /\ QueueIsRight(m)
  BY <1>0 DEF SuspendingIsRight, Releases, GrantsAreTyped
<1>2. waiter'[m] = SubSeq(waiter[m], n + 1, Len(waiter[m]))
  BY <1>1
<1>3. Len(waiter[m]) \in Nat /\ n \in Nat /\ n <= Len(waiter[m])
  BY <1>1
<1>4. /\ Len(waiter'[m]) = Len(waiter[m]) - n
      /\ \A i \in 1 .. Len(waiter[m]) - n : waiter'[m][i] = waiter[m][i + n] /\ i + n \in 1 .. Len(waiter[m])
  <2>1. Len(waiter'[m]) = Len(waiter[m]) - n
    BY <1>1, <1>2, <1>3
  <2>2. ASSUME NEW i \in 1 .. Len(waiter[m]) - n
        PROVE  waiter'[m][i] = waiter[m][i + n] /\ i + n \in 1 .. Len(waiter[m])
    <3>1. i + n \in 1 .. Len(waiter[m])
      BY <1>3
    <3>2. waiter'[m][i] = waiter[m][(n + 1) + i - 1]
      BY <1>1, <1>2, <1>3
    <3>3. (n + 1) + i - 1 = i + n
      BY <1>3
    <3>4. QED
      BY <3>1, <3>2, <3>3
  <2>3. QED
    BY <2>1, <2>2
<1>5. waiter'[m] \in Seq([lock : Coroutines, mode : Modes])
  <2>1. ASSUME NEW i \in n + 1 .. Len(waiter[m])
        PROVE  waiter[m][i] \in [lock : Coroutines, mode : Modes]
    <3>1. i \in 1 .. Len(waiter[m])
      BY <1>3
    <3>2. QED
      BY <1>1, <3>1, ElementOf
  <2>2. QED
    BY <1>2, <1>3, <2>1, SubSeqProperties
<1>6. \A o \in Suspending!Mutexes : o # m => waiter'[o] = waiter[o]
  BY <1>1
<1>7. waiter' \in [Suspending!Mutexes -> Seq([lock : Coroutines, mode : Modes])]
  BY <1>1, <1>5, <1>6
<1>8. ASSUME NEW d \in Coroutines
      PROVE  InQueue(d, m)' <=> InQueue(d, m) /\ d \notin Leavers(m, n)
  <2>1. ASSUME NEW i \in 1 .. Len(waiter'[m]), waiter'[m][i].lock = d
        PROVE  InQueue(d, m) /\ d \notin Leavers(m, n)
    <3>1. i + n \in 1 .. Len(waiter[m]) /\ waiter[m][i + n].lock = d
      BY <1>4, <2>1
    <3>2. ASSUME NEW j \in 1 .. n, waiter[m][j].lock = d
          PROVE  FALSE
      <4>1. j \in 1 .. Len(waiter[m]) /\ j # i + n
        BY <1>3, <1>4
      <4>2. QED
        BY <1>1, <3>1, <3>2, <4>1 DEF QueueIsRight
    <3>3. QED
      BY <3>1, <3>2 DEF InQueue, Leavers
  <2>2. ASSUME NEW i \in 1 .. Len(waiter[m]), waiter[m][i].lock = d, d \notin Leavers(m, n)
        PROVE  \E j \in 1 .. Len(waiter'[m]) : waiter'[m][j].lock = d
    <3>1. i \notin 1 .. n
      BY <2>2 DEF Leavers
    <3>2. i - n \in 1 .. Len(waiter[m]) - n /\ (i - n) + n = i
      BY <1>3, <3>1
    <3>3. QED
      BY <1>4, <2>2, <3>2
  <2>3. QED
    BY <2>1, <2>2 DEF InQueue
<1>9. \A d \in Coroutines, o \in Suspending!Mutexes :
        InQueue(d, o)' <=> InQueue(d, o) /\ ~(o = m /\ d \in Leavers(m, n))
  BY <1>6, <1>8 DEF InQueue
<1>10. QED
  BY <1>0, <1>4, <1>6, <1>7, <1>9

\* What each coroutine has and waits for after a mutex is given back.
LEMMA ReleaseKeepsPlaces ==
  ASSUME SuspendingIsRight, NEW c \in Coroutines, NEW p, NEW n, Releases(c, p, n)
  PROVE  /\ GrantsAreTyped'
         /\ \A d \in Coroutines : (RequestIsRight(d) /\ SpinIsRight(d) /\ PlacesAreRight(d) /\ NewsIsRight(d))'
<1>0. PICK m : m = p.mutex
  OBVIOUS
<1>1. /\ GrantsAreTyped /\ m \in Suspending!Mutexes /\ n \in 0 .. Len(waiter[m])
      /\ stage[c] = "unlocking" /\ woken[c] = <<>> /\ taking[c] + 1 \in 1 .. Len(proxy[c]) /\ taking[c] \in Nat
      /\ p = proxy[c][taking[c] + 1] /\ taking' = [taking EXCEPT ![c] = @ + 1]
      /\ woken' = [woken EXCEPT ![c] = [i \in 1 .. n |-> waiter[m][i].lock]]
      /\ UNCHANGED <<spin, proxy, dependency, stage, spun>>
      /\ exclusive' = [exclusive EXCEPT ![m] = ToOne(m, n)]
      /\ shared' = [shared EXCEPT ![m] =
           (IF p.mode = "share" THEN @ - 1 ELSE @) + (IF ToOne(m, n) THEN 0 ELSE n)]
      /\ granted' = [d \in Coroutines |->
           IF d = c THEN granted[c] \ {m}
           ELSE IF d \in Leavers(m, n) THEN granted[d] \union {m} ELSE granted[d]]
  BY <1>0 DEF SuspendingIsRight, Releases, GrantsAreTyped
<1>2. \A i \in 1 .. n : waiter[m][i].lock \in Coroutines
  <2>1. \A i \in 1 .. n : i \in 1 .. Len(waiter[m])
    BY <1>0, LeaversAreSuspended
  <2>2. QED
    BY <1>1, <2>1, EntryIsTyped
<1>3. GrantsAreTyped'
  <2>1. waiter' \in [Suspending!Mutexes -> Seq([lock : Coroutines, mode : Modes])]
    BY QueueAfterRelease
  <2>2. woken' \in [Coroutines -> Seq(Coroutines)]
    <3>1. [i \in 1 .. n |-> waiter[m][i].lock] \in Seq(Coroutines)
      BY <1>1, <1>2
    <3>2. QED
      BY <1>1, <3>1 DEF GrantsAreTyped
  <2>3. shared' \in [Suspending!Mutexes -> Int]
    <3>1. shared \in [Suspending!Mutexes -> Int] /\ shared[m] \in Int /\ n \in Int
      BY <1>1 DEF GrantsAreTyped
    <3>2. (IF p.mode = "share" THEN shared[m] - 1 ELSE shared[m]) + (IF ToOne(m, n) THEN 0 ELSE n) \in Int
      BY <3>1
    <3>3. QED
      BY <1>1, <3>1, <3>2
  <2>4. exclusive' \in [Suspending!Mutexes -> BOOLEAN]
    <3>1. ToOne(m, n) \in BOOLEAN
      BY DEF ToOne
    <3>2. QED
      BY <1>1, <3>1 DEF GrantsAreTyped
  <2>5. granted' \in [Coroutines -> SUBSET Suspending!Mutexes]
    BY <1>1 DEF GrantsAreTyped
  <2>6. taking' \in [Coroutines -> Nat]
    BY <1>1 DEF GrantsAreTyped
  <2>7. QED
    BY <1>1, <2>1, <2>2, <2>3, <2>4, <2>5, <2>6 DEF GrantsAreTyped
<1>4. \A d \in Coroutines, o \in Suspending!Mutexes :
        InQueue(d, o)' <=> InQueue(d, o) /\ ~(o = m /\ d \in Leavers(m, n))
  BY <1>0, QueueAfterRelease
<1>5. \A d \in Leavers(m, n) : d # c /\ stage[d] = "suspended" /\ InQueue(d, m) /\ m \notin granted[d]
  BY <1>0, LeaversAreSuspended
<1>6. m \in granted[c] /\ \A o \in Suspending!Mutexes : ~InQueue(c, o)
  BY <1>0, LeaversAreSuspended
<1>7. \A d \in Coroutines : d # c => taking'[d] = taking[d]
  BY <1>1 DEF GrantsAreTyped
<1>8. taking'[c] = taking[c] + 1
  BY <1>1 DEF GrantsAreTyped
<1>9. ASSUME NEW d \in Coroutines
      PROVE  RequestIsRight(d)' /\ SpinIsRight(d)'
  <2>1. RequestIsRight(d) /\ SpinIsRight(d)
    BY DEF SuspendingIsRight
  <2>2. RequestIsRight(d)'
    <3>1. taking'[d] <= Len(proxy[d])
      BY <1>1, <1>7, <1>8, <2>1 DEF RequestIsRight
    <3>2. QED
      BY <1>1, <2>1, <3>1 DEF RequestIsRight
  <2>3. SpinIsRight(d)'
    <3>1. stage[d] = "taking" => taking'[d] = taking[d]
      BY <1>1, <1>7
    <3>2. QED
      BY <1>1, <2>1, <3>1 DEF SpinIsRight
  <2>4. QED
    BY <2>2, <2>3
<1>10. ASSUME NEW d \in Coroutines, d # c
       PROVE  PlacesAreRight(d)'
  <2>1. PlacesAreRight(d) /\ Places(d)' = Places(d)
    BY <1>1, <1>7, <1>10 DEF SuspendingIsRight, Places
  <2>2. granted'[d] = IF d \in Leavers(m, n) THEN granted[d] \union {m} ELSE granted[d]
    BY <1>1, <1>10
  <2>3. ASSUME NEW o \in Suspending!Mutexes
        PROVE  /\ o \in granted'[d] \/ InQueue(d, o)' <=> \E i \in Places(d)' : proxy'[d][i].mutex = o
               /\ ~(o \in granted'[d] /\ InQueue(d, o)')
               /\ (InQueue(d, o)' => stage'[d] \in {"taking", "suspended"})
    <3>1. /\ o \in granted[d] \/ InQueue(d, o) <=> \E i \in Places(d) : proxy[d][i].mutex = o
          /\ ~(o \in granted[d] /\ InQueue(d, o))
          /\ InQueue(d, o) => stage[d] \in {"taking", "suspended"}
      BY <2>1 DEF PlacesAreRight
    <3>2. InQueue(d, o)' <=> InQueue(d, o) /\ ~(o = m /\ d \in Leavers(m, n))
      BY <1>4
    <3>3. d \in Leavers(m, n) => InQueue(d, m)
      BY <1>5
    <3>4. o \in granted'[d] <=> o \in granted[d] \/ (o = m /\ d \in Leavers(m, n))
      BY <2>2
    <3>5. stage' = stage /\ proxy' = proxy
      BY <1>1
    <3>6. QED
      BY <2>1, <3>1, <3>2, <3>3, <3>4, <3>5
  <2>4. QED
    BY <2>3 DEF PlacesAreRight
<1>11. PlacesAreRight(c)'
  <2>1. PlacesAreRight(c) /\ RequestIsRight(c)
    BY DEF SuspendingIsRight
  <2>2. Places(c) = Places(c)' \union {taking[c] + 1} /\ taking[c] + 1 \notin Places(c)'
        /\ Places(c) \subseteq 1 .. Len(proxy[c])
    <3>1. Places(c) = taking[c] + 1 .. Len(proxy[c]) /\ Places(c)' = taking[c] + 1 + 1 .. Len(proxy[c])
      BY <1>1, <1>8 DEF Places
    <3>2. Len(proxy[c]) \in Nat
      BY <1>1 DEF GrantsAreTyped
    <3>3. QED
      BY <1>1, <3>1, <3>2
  <2>3. ASSUME NEW o \in Suspending!Mutexes
        PROVE  /\ o \in granted'[c] \/ InQueue(c, o)' <=> \E i \in Places(c)' : proxy'[c][i].mutex = o
               /\ ~ InQueue(c, o)'
    <3>1. o \in granted[c] <=> \E i \in Places(c) : proxy[c][i].mutex = o
      BY <1>6, <2>1 DEF PlacesAreRight
    <3>2. ~ InQueue(c, o)'
      BY <1>4, <1>6
    <3>3. o \in granted'[c] <=> o \in granted[c] /\ o # m
      BY <1>1
    <3>4. \A i \in Places(c)' : proxy[c][i].mutex # m
      <4>1. \A i, j \in 1 .. Len(proxy[c]) : proxy[c][i].mutex = proxy[c][j].mutex => i = j
        BY <2>1 DEF RequestIsRight
      <4>2. \A i \in Places(c)' : i \in 1 .. Len(proxy[c]) /\ i # taking[c] + 1
        BY <2>2
      <4>3. proxy[c][taking[c] + 1].mutex = m
        BY <1>0, <1>1
      <4>4. QED
        BY <1>1, <4>1, <4>2, <4>3
    <3>5. proxy' = proxy /\ proxy[c][taking[c] + 1].mutex = m
      BY <1>0, <1>1
    <3>6. QED
      BY <2>2, <3>1, <3>2, <3>3, <3>4, <3>5
  <2>4. QED
    BY <2>3 DEF PlacesAreRight
<1>12. ASSUME NEW d \in Coroutines
       PROVE  NewsIsRight(d)'
  <2>1. NewsIsRight(d)
    BY DEF SuspendingIsRight
  <2>2. CASE d # c
    <3>1. woken'[d] = woken[d] /\ stage' = stage
      BY <1>1, <2>2 DEF GrantsAreTyped
    <3>2. QED
      BY <2>1, <3>1 DEF NewsIsRight
  <2>3. CASE d = c
    <3>1. woken'[c] = [i \in 1 .. n |-> waiter[m][i].lock] /\ n \in Nat
      BY <1>1 DEF GrantsAreTyped
    <3>2. Len(woken'[c]) = n /\ \A i \in 1 .. n : woken'[c][i] = waiter[m][i].lock
      BY <3>1
    <3>3. \A i \in 1 .. n : waiter[m][i].lock \in Leavers(m, n)
      BY DEF Leavers
    <3>4. \A i \in 1 .. n : stage'[woken'[c][i]] = "suspended"
      BY <1>1, <1>5, <3>2, <3>3
    <3>5. \A i, j \in 1 .. n : woken'[c][i] = woken'[c][j] => i = j
      <4>1. \A i \in 1 .. n : i \in 1 .. Len(waiter[m])
        BY <1>0, LeaversAreSuspended
      <4>2. QueueIsRight(m)
        BY <1>1 DEF SuspendingIsRight
      <4>3. QED
        BY <3>2, <4>1, <4>2 DEF QueueIsRight
    <3>6. stage'[c] = "unlocking"
      BY <1>1
    <3>7. QED
      BY <2>3, <3>2, <3>4, <3>5, <3>6 DEF NewsIsRight
  <2>4. QED
    BY <2>2, <2>3
<1>13. ASSUME NEW d \in Coroutines
       PROVE  PlacesAreRight(d)'
  BY <1>10, <1>11
<1>14. QED
  BY <1>3, <1>9, <1>12, <1>13

\* The queues and what is waited for after a mutex is given back.
LEMMA ReleaseKeepsQueues ==
  ASSUME SuspendingIsRight, NEW c \in Coroutines, NEW p, NEW n, Releases(c, p, n)
  PROVE  /\ \A m \in Suspending!Mutexes : QueueIsRight(m)'
         /\ \A d \in Coroutines : DependencyIsRight(d)'
<1>0. PICK m : m = p.mutex
  OBVIOUS
<1>1. /\ GrantsAreTyped /\ m \in Suspending!Mutexes /\ n \in Nat /\ Len(waiter[m]) \in Nat /\ woken[c] = <<>>
      /\ woken' = [woken EXCEPT ![c] = [i \in 1 .. n |-> waiter[m][i].lock]]
      /\ UNCHANGED <<spin, proxy, dependency, stage, spun>>
  <2>1. GrantsAreTyped /\ m \in Suspending!Mutexes /\ n \in 0 .. Len(waiter[m])
    BY <1>0 DEF SuspendingIsRight, Releases
  <2>2. n \in Nat /\ Len(waiter[m]) \in Nat
    BY <2>1 DEF GrantsAreTyped
  <2>3. QED
    BY <1>0, <2>1, <2>2 DEF Releases
<1>2. ASSUME NEW o \in Suspending!Mutexes
      PROVE  QueueIsRight(o)'
  <2>1. QueueIsRight(o) /\ proxy' = proxy
    BY <1>1 DEF SuspendingIsRight
  <2>2. CASE o # m
    <3>1. waiter'[o] = waiter[o]
      BY <1>0, <2>2, QueueAfterRelease
    <3>2. QED
      BY <2>1, <3>1 DEF QueueIsRight
  <2>3. CASE o = m
    <3>1. /\ Len(waiter'[m]) = Len(waiter[m]) - n
          /\ \A i \in 1 .. Len(waiter[m]) - n : waiter'[m][i] = waiter[m][i + n] /\ i + n \in 1 .. Len(waiter[m])
      BY <1>0, QueueAfterRelease
    <3>2. ASSUME NEW i \in 1 .. Len(waiter'[m]), NEW j \in 1 .. Len(waiter'[m]), waiter'[m][i].lock = waiter'[m][j].lock
          PROVE  i = j
      <4>1. i + n \in 1 .. Len(waiter[m]) /\ j + n \in 1 .. Len(waiter[m]) /\ waiter[m][i + n].lock = waiter[m][j + n].lock
        BY <3>1, <3>2
      <4>2. i + n = j + n
        BY <2>1, <2>3, <4>1 DEF QueueIsRight
      <4>3. i \in Int /\ j \in Int
        OBVIOUS
      <4>4. QED
        BY <1>1, <4>2, <4>3
    <3>3. ASSUME NEW i \in 1 .. Len(waiter'[m])
          PROVE  \E k \in 1 .. Len(proxy[waiter'[m][i].lock]) :
                   proxy[waiter'[m][i].lock][k] = [mutex |-> m, mode |-> waiter'[m][i].mode]
      <4>1. waiter'[m][i] = waiter[m][i + n] /\ i + n \in 1 .. Len(waiter[m])
        BY <3>1
      <4>2. \E k \in 1 .. Len(proxy[waiter[m][i + n].lock]) :
              proxy[waiter[m][i + n].lock][k] = [mutex |-> m, mode |-> waiter[m][i + n].mode]
        BY <2>1, <2>3, <4>1 DEF QueueIsRight
      <4>3. QED
        BY <4>1, <4>2
    <3>4. QED
      BY <2>1, <2>3, <3>2, <3>3 DEF QueueIsRight
  <2>4. QED
    BY <2>2, <2>3
<1>3. ASSUME NEW d \in Coroutines
      PROVE  DependencyIsRight(d)'
  <2>1. DependencyIsRight(d) /\ dependency' = dependency /\ stage' = stage
    BY <1>1 DEF SuspendingIsRight
  <2>2. /\ \A o \in Suspending!Mutexes : o \in Suspending!Queued(d) <=> InQueue(d, o)
        /\ \A e \in Coroutines : e \in Suspending!Told(d) <=> \E i \in 1 .. Len(woken[e]) : woken[e][i] = d
        /\ Suspending!Told(d) \subseteq Coroutines /\ Suspending!Queued(d) \subseteq Suspending!Mutexes
    BY <1>1, NewsAndQueues
  <2>3. \A o \in Suspending!Mutexes : o \in Suspending!Queued(d)' <=> InQueue(d, o)'
    <3>1. waiter' \in [Suspending!Mutexes -> Seq([lock : Coroutines, mode : Modes])]
      BY QueueAfterRelease
    <3>2. \A o \in Suspending!Mutexes : DOMAIN waiter'[o] = 1 .. Len(waiter'[o])
      BY <3>1
    <3>3. QED
      BY <3>2 DEF Suspending!Queued, InQueue
  <2>4. \A o \in Suspending!Mutexes :
          o \in Suspending!Queued(d)' <=> o \in Suspending!Queued(d) /\ ~(o = m /\ d \in Leavers(m, n))
    BY <1>0, <2>2, <2>3, QueueAfterRelease
  <2>5. /\ \A e \in Coroutines : e # c => (e \in Suspending!Told(d)' <=> e \in Suspending!Told(d))
        /\ c \notin Suspending!Told(d)
        /\ c \in Suspending!Told(d)' <=> d \in Leavers(m, n)
    <3>1. \A e \in Coroutines : e # c => woken'[e] = woken[e]
      BY <1>1 DEF GrantsAreTyped
    <3>2. \A e \in Coroutines : e # c => (e \in Suspending!Told(d)' <=> e \in Suspending!Told(d))
      BY <3>1 DEF Suspending!Told
    <3>3. c \notin Suspending!Told(d)
      BY <1>1, <2>2
    <3>4. woken'[c] = [i \in 1 .. n |-> waiter[m][i].lock]
      BY <1>1 DEF GrantsAreTyped
    <3>5. c \in Suspending!Told(d)' <=> d \in Leavers(m, n)
      BY <3>4 DEF Suspending!Told, Leavers
    <3>6. QED
      BY <3>2, <3>3, <3>5
  <2>6. Suspending!Told(d)' \subseteq Coroutines /\ Suspending!Queued(d)' \subseteq Suspending!Mutexes
    BY DEF Suspending!Told, Suspending!Queued
  <2>7. CASE d \notin Leavers(m, n)
    <3>1. Suspending!Queued(d)' = Suspending!Queued(d) /\ Suspending!Told(d)' = Suspending!Told(d)
      BY <2>2, <2>4, <2>5, <2>6, <2>7
    <3>2. QED
      BY <2>1, <3>1 DEF DependencyIsRight
  <2>8. CASE d \in Leavers(m, n)
    <3>1. InQueue(d, m)
      BY <1>0, <2>8, LeaversAreSuspended
    <3>2. m \in Suspending!Queued(d)
      BY <1>1, <2>2, <3>1
    <3>3. Suspending!Queued(d)' = Suspending!Queued(d) \ {m} /\ Suspending!Told(d)' = Suspending!Told(d) \union {c}
      BY <2>2, <2>4, <2>5, <2>6, <2>8
    <3>4. IsFiniteSet(Suspending!Queued(d)) /\ IsFiniteSet(Suspending!Told(d))
      BY <1>1, GrantsAreFinite
    <3>5. Cardinality(Suspending!Queued(d)) \in Nat /\ Cardinality(Suspending!Told(d)) \in Nat
      BY <3>4, FS_CardinalityType
    <3>6. Cardinality(Suspending!Queued(d)') = Cardinality(Suspending!Queued(d)) - 1
      BY <3>2, <3>3, <3>4, FS_RemoveElement
    <3>7. Cardinality(Suspending!Told(d)') = Cardinality(Suspending!Told(d)) + 1
      BY <2>5, <3>3, <3>4, FS_AddElement
    <3>8. dependency[d] = Cardinality(Suspending!Queued(d)) + Cardinality(Suspending!Told(d))
      BY <2>1 DEF DependencyIsRight
    <3>9. dependency[d] = Cardinality(Suspending!Queued(d)') + Cardinality(Suspending!Told(d)')
      BY <3>5, <3>6, <3>7, <3>8
    <3>10. QED
      BY <2>1, <3>9 DEF DependencyIsRight
  <2>9. QED
    BY <2>7, <2>8
<1>4. QED
  BY <1>2, <1>3

\* As many leave as are taken from the queue.
LEMMA LeaversCounted ==
  ASSUME SuspendingIsRight, NEW m \in Suspending!Mutexes, NEW n \in 0 .. Len(waiter[m])
  PROVE  IsFiniteSet(Leavers(m, n)) /\ Cardinality(Leavers(m, n)) = n
<1>1. n \in Nat /\ Len(waiter[m]) \in Nat /\ QueueIsRight(m)
  BY DEF SuspendingIsRight, GrantsAreTyped
<1> DEFINE f == [i \in 1 .. n |-> waiter[m][i].lock]
<1>2. f \in Surjection(1 .. n, Leavers(m, n))
  BY DEF Surjection, Leavers
<1>3. \A i, j \in 1 .. n : f[i] = f[j] => i = j
  BY <1>1 DEF QueueIsRight
<1>4. f \in Injection(1 .. n, Leavers(m, n))
  BY <1>2, <1>3 DEF Surjection, Injection, IsInjective
<1>5. IsFiniteSet(1 .. n) /\ Cardinality(1 .. n) = n
  BY <1>1, FS_Interval
<1>6. QED
  BY <1>2, <1>4, <1>5, FS_Surjection

\* A coroutine asks for a mutex in one mode.
LEMMA OneMode ==
  ASSUME SuspendingIsRight, NEW d \in Coroutines, NEW m, NEW mode, NEW k \in 1 .. Len(proxy[d]),
         proxy[d][k] = [mutex |-> m, mode |-> mode]
  PROVE  \A other : (\E i \in DOMAIN proxy[d] : proxy[d][i] = [mutex |-> m, mode |-> other]) <=> other = mode
<1>1. DOMAIN proxy[d] = 1 .. Len(proxy[d]) /\ RequestIsRight(d)
  BY DEF SuspendingIsRight, GrantsAreTyped
<1>2. ASSUME NEW other, NEW i \in DOMAIN proxy[d], proxy[d][i] = [mutex |-> m, mode |-> other]
      PROVE  other = mode
  <2>1. proxy[d][i].mutex = m /\ proxy[d][k].mutex = m /\ proxy[d][i].mode = other /\ proxy[d][k].mode = mode
    BY <1>2
  <2>2. i = k
    BY <1>1, <2>1 DEF RequestIsRight
  <2>3. QED
    BY <2>1, <2>2
<1>3. QED
  BY <1>1, <1>2

\* Who holds another mutex stays.
LEMMA HoldersElsewhere ==
  ASSUME SuspendingIsRight, NEW c \in Coroutines, NEW p, NEW n, Releases(c, p, n), NEW mode,
         NEW m \in Suspending!Mutexes, m # p.mutex
  PROVE  Suspending!Holders(m, mode)' = Suspending!Holders(m, mode)
<1>1. /\ proxy' = proxy
      /\ granted' = [d \in Coroutines |->
           IF d = c THEN granted[c] \ {p.mutex}
           ELSE IF d \in Leavers(p.mutex, n) THEN granted[d] \union {p.mutex} ELSE granted[d]]
  BY DEF Releases
<1>2. \A d \in Coroutines : m \in granted'[d] <=> m \in granted[d]
  BY <1>1
<1>3. QED
  BY <1>1, <1>2 DEF Suspending!Holders

\* Who holds a mutex after it is given back.
LEMMA HoldersAfterRelease ==
  ASSUME SuspendingIsRight, NEW c \in Coroutines, NEW p, NEW n, Releases(c, p, n), NEW mode \in Modes
  PROVE  /\ Suspending!Holders(p.mutex, mode)' =
              IF mode = "exclude" <=> ToOne(p.mutex, n)
              THEN (Suspending!Holders(p.mutex, mode) \ {c}) \union Leavers(p.mutex, n)
              ELSE Suspending!Holders(p.mutex, mode) \ {c}
         /\ Leavers(p.mutex, n) \intersect Suspending!Holders(p.mutex, mode) = {}
         /\ c \in Suspending!Holders(p.mutex, mode) <=> mode = p.mode
<1>0. PICK m : m = p.mutex
  OBVIOUS
<1>1. /\ GrantsAreTyped /\ m \in Suspending!Mutexes /\ n \in 0 .. Len(waiter[m]) /\ proxy' = proxy
      /\ taking[c] + 1 \in 1 .. Len(proxy[c]) /\ p = proxy[c][taking[c] + 1] /\ p \in Suspending!Proxies
      /\ ToOne(m, n) => n = 1
      /\ ~ToOne(m, n) => \A i \in 1 .. n : waiter[m][i].mode = "share"
      /\ granted' = [d \in Coroutines |->
           IF d = c THEN granted[c] \ {m}
           ELSE IF d \in Leavers(m, n) THEN granted[d] \union {m} ELSE granted[d]]
  BY <1>0 DEF SuspendingIsRight, Releases
<1>3. \A d \in Leavers(m, n) : d \in Coroutines /\ d # c /\ m \notin granted[d]
  BY <1>0, LeaversAreSuspended
<1>4. \A i \in 1 .. n : i \in 1 .. Len(waiter[m])
  BY <1>0, LeaversAreSuspended
<1>5. ASSUME NEW d \in Leavers(m, n)
      PROVE  (\E k \in DOMAIN proxy[d] : proxy[d][k] = [mutex |-> m, mode |-> mode])
               <=> (mode = "exclude" <=> ToOne(m, n))
  <2>1. PICK i \in 1 .. n : waiter[m][i].lock = d
    BY DEF Leavers
  <2>2. QueueIsRight(m) /\ i \in 1 .. Len(waiter[m]) /\ d \in Coroutines
    BY <1>1, <1>3, <1>4 DEF SuspendingIsRight
  <2>3. PICK k \in 1 .. Len(proxy[d]) : proxy[d][k] = [mutex |-> m, mode |-> waiter[m][i].mode]
    BY <2>1, <2>2 DEF QueueIsRight
  <2>4. (\E j \in DOMAIN proxy[d] : proxy[d][j] = [mutex |-> m, mode |-> mode]) <=> mode = waiter[m][i].mode
    BY <2>2, <2>3, OneMode
  <2>5. mode = waiter[m][i].mode <=> (mode = "exclude" <=> ToOne(m, n))
    <3>1. CASE ToOne(m, n)
      <4>1. i = 1
        BY <1>1, <3>1
      <4>2. waiter[m][i].mode = "exclude"
        BY <3>1, <4>1 DEF ToOne
      <4>3. QED
        BY <3>1, <4>2
    <3>2. CASE ~ToOne(m, n)
      <4>1. waiter[m][i].mode = "share"
        BY <1>1, <3>2
      <4>2. QED
        BY <3>2, <4>1 DEF Modes
    <3>3. QED
      BY <3>1, <3>2
  <2>6. QED
    BY <2>4, <2>5
<1>6. Leavers(m, n) \intersect Suspending!Holders(m, mode) = {}
  BY <1>3 DEF Suspending!Holders
<1>7. \A d \in Coroutines :
        d \in Suspending!Holders(m, mode)' <=>
          (\/ d \in Suspending!Holders(m, mode) /\ d # c
           \/ d \in Leavers(m, n) /\ (mode = "exclude" <=> ToOne(m, n)))
  <2>1. SUFFICES ASSUME NEW d \in Coroutines
                 PROVE  d \in Suspending!Holders(m, mode)' <=>
                          (\/ d \in Suspending!Holders(m, mode) /\ d # c
                           \/ d \in Leavers(m, n) /\ (mode = "exclude" <=> ToOne(m, n)))
    OBVIOUS
  <2>2. d \in Suspending!Holders(m, mode)' <=>
          (m \in granted'[d] /\ \E i \in DOMAIN proxy[d] : proxy[d][i] = [mutex |-> m, mode |-> mode])
    BY <1>1 DEF Suspending!Holders
  <2>3. d \in Suspending!Holders(m, mode) <=>
          (m \in granted[d] /\ \E i \in DOMAIN proxy[d] : proxy[d][i] = [mutex |-> m, mode |-> mode])
    BY DEF Suspending!Holders
  <2>4. CASE d = c
    <3>1. m \notin granted'[d] /\ d \notin Leavers(m, n)
      BY <1>1, <1>3, <2>4
    <3>2. QED
      BY <2>2, <2>4, <3>1
  <2>5. CASE d \in Leavers(m, n)
    <3>1. m \in granted'[d] /\ m \notin granted[d]
      BY <1>1, <1>3, <2>5
    <3>2. QED
      BY <1>5, <2>2, <2>3, <2>5, <3>1
  <2>6. CASE d # c /\ d \notin Leavers(m, n)
    <3>1. granted'[d] = granted[d]
      BY <1>1, <2>6
    <3>2. QED
      BY <2>2, <2>3, <2>6, <3>1
  <2>7. QED
    BY <2>4, <2>5, <2>6
<1>8. Suspending!Holders(m, mode)' \subseteq Coroutines /\ Suspending!Holders(m, mode) \subseteq Coroutines
      /\ Leavers(m, n) \subseteq Coroutines
  BY <1>3 DEF Suspending!Holders
<1>9. Suspending!Holders(m, mode)' =
        IF mode = "exclude" <=> ToOne(m, n) THEN (Suspending!Holders(m, mode) \ {c}) \union Leavers(m, n)
        ELSE Suspending!Holders(m, mode) \ {c}
  <2>1. CASE mode = "exclude" <=> ToOne(m, n)
    <3>1. \A d \in Coroutines :
            d \in Suspending!Holders(m, mode)' <=> (d \in Suspending!Holders(m, mode) /\ d # c) \/ d \in Leavers(m, n)
      BY <1>7, <2>1
    <3>2. Suspending!Holders(m, mode)' = (Suspending!Holders(m, mode) \ {c}) \union Leavers(m, n)
      BY <1>8, <3>1
    <3>3. QED
      BY <2>1, <3>2
  <2>2. CASE ~(mode = "exclude" <=> ToOne(m, n))
    <3>1. \A d \in Coroutines : d \in Suspending!Holders(m, mode)' <=> (d \in Suspending!Holders(m, mode) /\ d # c)
      BY <1>7, <2>2
    <3>2. Suspending!Holders(m, mode)' = Suspending!Holders(m, mode) \ {c}
      BY <1>8, <3>1
    <3>3. QED
      BY <2>2, <3>2
  <2>3. QED
    BY <2>1, <2>2
<1>10. c \in Suspending!Holders(m, mode) <=> mode = p.mode
  <2>1. p = [mutex |-> m, mode |-> p.mode]
    BY <1>0, <1>1 DEF Suspending!Proxies
  <2>2. proxy[c][taking[c] + 1] = [mutex |-> m, mode |-> p.mode]
    BY <1>1, <2>1
  <2>3. (\E i \in DOMAIN proxy[c] : proxy[c][i] = [mutex |-> m, mode |-> mode]) <=> mode = p.mode
    <3>1. PICK k \in 1 .. Len(proxy[c]) : proxy[c][k] = [mutex |-> m, mode |-> p.mode]
      BY <1>1, <2>2
    <3>2. QED
      BY <3>1, OneMode
  <2>4. m \in granted[c]
    BY <1>0, LeaversAreSuspended
  <2>5. QED
    BY <2>3, <2>4 DEF Suspending!Holders
<1>11. QED
  BY <1>0, <1>6, <1>9, <1>10

\* It is held by one alone, or shared by as many as it counts.
LEMMA ReleaseKeepsMutex ==
  ASSUME SuspendingIsRight, NEW c \in Coroutines, NEW p, NEW n, Releases(c, p, n)
  PROVE  \A m \in Suspending!Mutexes : MutexIsRight(m)'
<1>0. PICK m : m = p.mutex
  OBVIOUS
<1>1. /\ GrantsAreTyped /\ m \in Suspending!Mutexes /\ n \in 0 .. Len(waiter[m]) /\ p.mode \in Modes
      /\ n > 0 => (p.mode = "exclude" \/ shared[m] = 1)
      /\ (p.mode = "exclude" \/ shared[m] = 1) /\ waiter[m] # <<>> => n > 0
      /\ ToOne(m, n) => n = 1
      /\ exclusive' = [exclusive EXCEPT ![m] = ToOne(m, n)]
      /\ shared' = [shared EXCEPT ![m] =
           (IF p.mode = "share" THEN @ - 1 ELSE @) + (IF ToOne(m, n) THEN 0 ELSE n)]
      /\ MutexIsRight(m)
  BY <1>0 DEF SuspendingIsRight, Releases, IsFree
<1>2. exclusive'[m] = ToOne(m, n) /\ (ToOne(m, n) => n > 0) /\ n \in Nat /\ Len(waiter[m]) \in Nat
  <2>1. exclusive'[m] = ToOne(m, n)
    BY <1>1 DEF GrantsAreTyped
  <2>2. ToOne(m, n) => n > 0
    BY DEF ToOne
  <2>3. n \in Nat /\ Len(waiter[m]) \in Nat
    BY <1>1 DEF GrantsAreTyped
  <2>4. QED
    BY <2>1, <2>2, <2>3
<1>3. shared'[m] = (IF p.mode = "share" THEN shared[m] - 1 ELSE shared[m]) + (IF ToOne(m, n) THEN 0 ELSE n)
  BY <1>1 DEF GrantsAreTyped
<1>4. PICK alone : alone = Suspending!Holders(m, "exclude")
  OBVIOUS
<1>5. PICK sharing : sharing = Suspending!Holders(m, "share")
  OBVIOUS
<1>6. PICK leavers : leavers = Leavers(m, n)
  OBVIOUS
<1>7. IsFiniteSet(sharing) /\ IsFiniteSet(leavers) /\ Cardinality(leavers) = n
  BY <1>1, <1>5, <1>6, GrantsAreFinite, LeaversCounted
<1>8. Cardinality(sharing) \in Nat /\ shared[m] = Cardinality(sharing)
  BY <1>1, <1>5, <1>7, FS_CardinalityType DEF MutexIsRight
<1>9. /\ Suspending!Holders(m, "exclude")' = IF ToOne(m, n) THEN (alone \ {c}) \union leavers ELSE alone \ {c}
      /\ c \in alone <=> p.mode = "exclude"
  BY <1>0, <1>4, <1>6, HoldersAfterRelease DEF Modes
<1>10. /\ Suspending!Holders(m, "share")' = IF ToOne(m, n) THEN sharing \ {c} ELSE (sharing \ {c}) \union leavers
       /\ leavers \intersect sharing = {} /\ (c \in sharing <=> p.mode = "share")
  BY <1>0, <1>5, <1>6, HoldersAfterRelease DEF Modes
<1>11. ASSUME p.mode = "exclude" PROVE MutexIsRight(m)'
  <2>1. exclusive[m] /\ alone = {c}
    BY <1>1, <1>4, <1>9, <1>11 DEF MutexIsRight
  <2>2. shared[m] = 0 /\ sharing = {}
    <3>1. shared[m] = 0
      BY <1>1, <1>8, <2>1 DEF MutexIsRight
    <3>2. QED
      BY <1>7, <1>8, <3>1, FS_EmptySet
  <2>3. CASE ToOne(m, n)
    <3>1. Suspending!Holders(m, "exclude")' = leavers /\ Suspending!Holders(m, "share")' = {}
      BY <1>9, <1>10, <2>1, <2>2, <2>3
    <3>2. shared'[m] = 0
      BY <1>3, <1>11, <2>2, <2>3
    <3>3. n = 1 /\ leavers \subseteq Coroutines
      BY <1>0, <1>1, <1>6, <2>3, LeaversAreSuspended
    <3>4. \E x \in Coroutines : leavers = {x}
      BY <1>7, <3>3, FS_Singleton
    <3>5. Cardinality(Suspending!Holders(m, "share")') = 0
      BY <3>1, FS_EmptySet
    <3>6. exclusive'[m] = TRUE /\ (\E x \in Coroutines : Suspending!Holders(m, "exclude")' = {x})
          /\ shared'[m] = Cardinality(Suspending!Holders(m, "share")') /\ shared'[m] = 0
      BY <1>2, <2>3, <3>1, <3>2, <3>4, <3>5
    <3>7. QED
      BY <3>6 DEF MutexIsRight
  <2>4. CASE ~ToOne(m, n)
    <3>1. Suspending!Holders(m, "exclude")' = {} /\ Suspending!Holders(m, "share")' = leavers
      BY <1>9, <1>10, <2>1, <2>2, <2>4
    <3>2. shared'[m] = n
      BY <1>2, <1>3, <1>11, <2>2, <2>4
    <3>3. waiter'[m] # <<>> => n > 0
      BY <1>0, <1>1, <1>2, <1>11, QueueAfterRelease
    <3>4. exclusive'[m] = FALSE /\ Suspending!Holders(m, "exclude")' = {}
          /\ shared'[m] = Cardinality(Suspending!Holders(m, "share")') /\ (waiter'[m] # <<>> => shared'[m] > 0)
      BY <1>2, <1>7, <2>4, <3>1, <3>2, <3>3
    <3>5. QED
      BY <3>4 DEF MutexIsRight
  <2>5. QED
    BY <2>3, <2>4
<1>12. ASSUME p.mode = "share" PROVE MutexIsRight(m)'
  <2>1. c \in sharing
    BY <1>10, <1>12
  <2>2. shared[m] > 0 /\ Cardinality(sharing \ {c}) = shared[m] - 1 /\ IsFiniteSet(sharing \ {c})
    <3>1. sharing # {}
      BY <2>1
    <3>2. Cardinality(sharing) # 0
      BY <1>7, <3>1, FS_EmptySet
    <3>3. shared[m] > 0
      BY <1>8, <3>2
    <3>4. QED
      BY <1>7, <1>8, <2>1, <3>3, FS_RemoveElement
  <2>3. ~exclusive[m] /\ alone = {}
    BY <1>1, <1>4, <2>2 DEF MutexIsRight
  <2>4. CASE ToOne(m, n)
    <3>1. n = 1 /\ n > 0 /\ shared[m] = 1 /\ leavers \subseteq Coroutines
      BY <1>0, <1>1, <1>2, <1>6, <1>12, <2>4, LeaversAreSuspended
    <3>2. \E x \in Coroutines : leavers = {x}
      BY <1>7, <3>1, FS_Singleton
    <3>3. Suspending!Holders(m, "exclude")' = leavers /\ Suspending!Holders(m, "share")' = sharing \ {c}
      BY <1>9, <1>10, <2>3, <2>4
    <3>4. shared'[m] = 0
      BY <1>3, <1>12, <2>4, <3>1
    <3>5. Cardinality(Suspending!Holders(m, "share")') = 0
      BY <2>2, <3>1, <3>3
    <3>6. exclusive'[m] = TRUE /\ (\E x \in Coroutines : Suspending!Holders(m, "exclude")' = {x})
          /\ shared'[m] = Cardinality(Suspending!Holders(m, "share")') /\ shared'[m] = 0
      BY <1>2, <2>4, <3>2, <3>3, <3>4, <3>5
    <3>7. QED
      BY <3>6 DEF MutexIsRight
  <2>5. CASE ~ToOne(m, n)
    <3>1. Suspending!Holders(m, "exclude")' = {} /\ Suspending!Holders(m, "share")' = (sharing \ {c}) \union leavers
      BY <1>9, <1>10, <2>3, <2>5
    <3>2. shared'[m] = shared[m] - 1 + n
      BY <1>3, <1>12, <2>5
    <3>3. (sharing \ {c}) \intersect leavers = {}
      BY <1>10
    <3>4. Cardinality((sharing \ {c}) \union leavers) = shared[m] - 1 + n
      <4>1. Cardinality((sharing \ {c}) \intersect leavers) = 0
        BY <3>3, FS_EmptySet
      <4>2. Cardinality((sharing \ {c}) \union leavers) =
              Cardinality(sharing \ {c}) + Cardinality(leavers) - Cardinality((sharing \ {c}) \intersect leavers)
        BY <1>7, <2>2, FS_Union
      <4>3. QED
        BY <1>2, <1>7, <1>8, <2>2, <4>1, <4>2
    <3>5. shared'[m] = Cardinality(Suspending!Holders(m, "share")')
      BY <3>1, <3>2, <3>4
    <3>6. waiter'[m] # <<>> => shared'[m] > 0
      <4>1. HAVE waiter'[m] # <<>>
      <4>2. shared[m] = 1 => n > 0
        <5>1. waiter[m] = <<>> => n = 0 /\ Len(waiter'[m]) = 0
          BY <1>0, <1>1, QueueAfterRelease
        <5>2. waiter' \in [Suspending!Mutexes -> Seq([lock : Coroutines, mode : Modes])]
          BY QueueAfterRelease
        <5>3. waiter'[m] \in Seq([lock : Coroutines, mode : Modes])
          BY <1>1, <5>2
        <5>4. waiter[m] # <<>>
          BY <4>1, <5>1, <5>3
        <5>5. QED
          BY <1>1, <5>4
      <4>3. QED
        BY <1>2, <1>8, <2>2, <3>2, <4>2
    <3>7. exclusive'[m] = FALSE /\ Suspending!Holders(m, "exclude")' = {}
      BY <1>2, <2>5, <3>1
    <3>8. QED
      BY <3>5, <3>6, <3>7 DEF MutexIsRight
  <2>6. QED
    BY <2>4, <2>5
<1>13. MutexIsRight(m)'
  BY <1>1, <1>11, <1>12 DEF Modes
<1>14. ASSUME NEW o \in Suspending!Mutexes, o # m
       PROVE  MutexIsRight(o)'
  <2>a. ASSUME NEW mode \in Modes
        PROVE  Suspending!Holders(o, mode)' = Suspending!Holders(o, mode)
    BY <1>0, <1>14, HoldersElsewhere
  <2>1. MutexIsRight(o) /\ exclusive'[o] = exclusive[o] /\ shared'[o] = shared[o]
    BY <1>1, <1>14 DEF SuspendingIsRight, GrantsAreTyped
  <2>2. waiter'[o] = waiter[o]
    BY <1>0, <1>14, QueueAfterRelease
  <2>3. Suspending!Holders(o, "exclude")' = Suspending!Holders(o, "exclude")
    BY <2>a DEF Modes
  <2>4. Suspending!Holders(o, "share")' = Suspending!Holders(o, "share")
    BY <2>a DEF Modes
  <2>5. QED
    BY <2>1, <2>2, <2>3, <2>4 DEF MutexIsRight
<1>15. QED
  BY <1>13, <1>14

LEMMA UnlockKeeps ==
  ASSUME SuspendingIsRight, NEW c \in Coroutines, Suspending!Unlock(c)
  PROVE  SuspendingIsRight'
<1>1. PICK p, n : Releases(c, p, n)
  BY UnlockReleases
<1>2. /\ GrantsAreTyped'
      /\ \A d \in Coroutines : (RequestIsRight(d) /\ SpinIsRight(d) /\ PlacesAreRight(d) /\ NewsIsRight(d))'
  BY <1>1, ReleaseKeepsPlaces
<1>3. /\ \A m \in Suspending!Mutexes : QueueIsRight(m)'
      /\ \A d \in Coroutines : DependencyIsRight(d)'
  BY <1>1, ReleaseKeepsQueues
<1>4. \A m \in Suspending!Mutexes : MutexIsRight(m)'
  BY <1>1, ReleaseKeepsMutex
<1>5. QED
  BY <1>2, <1>3, <1>4 DEF SuspendingIsRight

\* Every step of the coroutines and their locks keeps it.
LEMMA SuspendingStep ==
  ASSUME SuspendingIsRight, Suspending!Next \/ UNCHANGED suspendingVars
  PROVE  SuspendingIsRight'
<1>1. ASSUME NEW c \in Coroutines, Suspending!Await(c) \/ Suspending!Step(c) \/ Suspending!LetGo(c)
      PROVE  SuspendingIsRight'
  <2>1. CASE Suspending!Await(c)
    BY <2>1, AwaitKeeps
  <2>2. CASE Suspending!Take(c)
    BY <2>2, TakeKeeps
  <2>3. CASE Moves(c)
    BY <2>3, MovesKeep
  <2>4. CASE Suspending!Unlock(c)
    BY <2>4, UnlockKeeps
  <2>5. CASE Suspending!Tell(c)
    BY <2>5, TellKeeps
  <2>6. QED
    BY <1>1, <2>1, <2>2, <2>3, <2>4, <2>5 DEF Suspending!Step, Moves
<1>2. CASE UNCHANGED suspendingVars
  <2>1. UNCHANGED <<spin, exclusive, shared, waiter, proxy, dependency, stage, taking, spun, granted, woken>>
    BY <1>2 DEF suspendingVars
  <2>2. GrantsAreTyped'
    BY <2>1 DEF SuspendingIsRight, GrantsAreTyped
  <2>3. ASSUME NEW c \in Coroutines
        PROVE  (RequestIsRight(c) /\ SpinIsRight(c) /\ PlacesAreRight(c) /\ NewsIsRight(c) /\ DependencyIsRight(c))'
    <3>1. RequestIsRight(c) /\ SpinIsRight(c) /\ PlacesAreRight(c) /\ NewsIsRight(c) /\ DependencyIsRight(c)
      BY DEF SuspendingIsRight
    <3>2. RequestIsRight(c)' /\ SpinIsRight(c)'
      BY <2>1, <3>1 DEF RequestIsRight, SpinIsRight
    <3>3. PlacesAreRight(c)'
      BY <2>1, <3>1 DEF PlacesAreRight, Places, InQueue
    <3>4. NewsIsRight(c)'
      BY <2>1, <3>1 DEF NewsIsRight
    <3>5. DependencyIsRight(c)'
      BY <2>1, <3>1 DEF DependencyIsRight, Suspending!Queued, Suspending!Told
    <3>6. QED
      BY <3>2, <3>3, <3>4, <3>5
  <2>4. ASSUME NEW m \in Suspending!Mutexes
        PROVE  QueueIsRight(m)' /\ MutexIsRight(m)'
    <3>1. QueueIsRight(m) /\ MutexIsRight(m)
      BY DEF SuspendingIsRight
    <3>2. QueueIsRight(m)'
      BY <2>1, <3>1 DEF QueueIsRight
    <3>3. MutexIsRight(m)'
      BY <2>1, <3>1 DEF MutexIsRight, Suspending!Holders
    <3>4. QED
      BY <3>2, <3>3
  <2>5. QED
    BY <2>2, <2>3, <2>4 DEF SuspendingIsRight
<1>3. QED
  BY <1>1, <1>2 DEF Suspending!Next

\* A mutex is held as it was asked for, and a coroutine inside has all it asked for.
LEMMA SuspendingImplies ==
  ASSUME SuspendingIsRight
  PROVE  Suspending!GrantsAreRight
<1>1. ASSUME NEW m \in Suspending!Mutexes
      PROVE  /\ Suspending!Cardinality(Suspending!Holders(m, "exclude")) = (IF exclusive[m] THEN 1 ELSE 0)
             /\ Suspending!Cardinality(Suspending!Holders(m, "share")) = shared[m]
             /\ ~(exclusive[m] /\ shared[m] > 0)
             /\ waiter[m] # <<>> => exclusive[m] \/ shared[m] > 0
  <2>1. MutexIsRight(m)
    BY DEF SuspendingIsRight
  <2>2. Cardinality(Suspending!Holders(m, "exclude")) = (IF exclusive[m] THEN 1 ELSE 0)
    <3>1. CASE exclusive[m]
      <4>1. PICK c \in Coroutines : Suspending!Holders(m, "exclude") = {c}
        BY <2>1, <3>1 DEF MutexIsRight
      <4>2. Cardinality({c}) = 1
        BY FS_Singleton
      <4>3. QED
        BY <3>1, <4>1, <4>2
    <3>2. CASE ~exclusive[m]
      <4>1. Suspending!Holders(m, "exclude") = {}
        BY <2>1, <3>2 DEF MutexIsRight
      <4>2. Cardinality({}) = 0
        BY FS_EmptySet
      <4>3. QED
        BY <3>2, <4>1, <4>2
    <3>3. QED
      BY <3>1, <3>2
  <2>3. Cardinality(Suspending!Holders(m, "share")) = shared[m]
    BY <2>1 DEF MutexIsRight
  <2>4. ~(exclusive[m] /\ shared[m] > 0) /\ (waiter[m] # <<>> => exclusive[m] \/ shared[m] > 0)
    BY <2>1 DEF MutexIsRight
  <2>5. QED
    BY <2>2, <2>3, <2>4, SuspendingCardinality
<1>2. ASSUME NEW c \in Coroutines
      PROVE  /\ dependency[c] = Suspending!Cardinality(Suspending!Queued(c)) + Suspending!Cardinality(Suspending!Told(c))
             /\ stage[c] = "inside" => granted[c] = {proxy[c][i].mutex : i \in DOMAIN proxy[c]}
  <2>1. dependency[c] = Cardinality(Suspending!Queued(c)) + Cardinality(Suspending!Told(c))
    BY DEF SuspendingIsRight, DependencyIsRight
  <2>2. ASSUME stage[c] = "inside"
        PROVE  granted[c] = {proxy[c][i].mutex : i \in DOMAIN proxy[c]}
    <3>1. PlacesAreRight(c) /\ granted[c] \subseteq Suspending!Mutexes /\ proxy[c] \in Seq(Suspending!Proxies)
      BY DEF SuspendingIsRight, GrantsAreTyped
    <3>2. DOMAIN proxy[c] = 1 .. Len(proxy[c]) /\ Places(c) = 1 .. Len(proxy[c])
      BY <2>2, <3>1 DEF Places
    <3>3. ASSUME NEW i \in 1 .. Len(proxy[c])
          PROVE  proxy[c][i].mutex \in Suspending!Mutexes
      <4>1. proxy[c][i] \in Suspending!Proxies
        BY <3>1, ElementOf
      <4>2. QED
        BY <4>1 DEF Suspending!Proxies
    <3>4. \A m \in Suspending!Mutexes : m \in granted[c] <=> \E i \in 1 .. Len(proxy[c]) : proxy[c][i].mutex = m
      BY <2>2, <3>1, <3>2 DEF PlacesAreRight
    <3>5. QED
      BY <3>1, <3>2, <3>3, <3>4
  <2>3. QED
    BY <2>1, <2>2, SuspendingCardinality
<1>3. QED
  BY <1>1, <1>2 DEF Suspending!GrantsAreRight

-----------------------------------------------------------------------------

\* The strengthenings of GuardedIsWhole and of GrantsAreRight are an invariant.
THEOREM Invariance == LocksSpec => []IInv
<1>1. LocksInit => IInv
  BY WaitLockInit, SeqLockInit, SuspendingInit DEF LocksInit, IInv
<1>2. IInv /\ [LocksNext]_locksVars => IInv'
  <2> SUFFICES ASSUME IInv, [LocksNext]_locksVars
               PROVE  IInv'
    OBVIOUS
  <2>1. Next \/ UNCHANGED vars
    BY DEF LocksNext, locksVars
  <2>2. Sequenced!Next \/ UNCHANGED sequencedVars
    BY DEF LocksNext, locksVars
  <2>3. WaitLockIsRight'
    <3>1. CASE Next
      BY <3>1, WaitLockStep DEF IInv
    <3>2. CASE UNCHANGED vars
      BY <3>2 DEF IInv, WaitLockIsRight, vars, TypeOK, Inside, SpinnersAreAwake,
         NoLostWakeup, Sleepers
    <3>3. QED
      BY <2>1, <3>1, <3>2
  <2>4. SeqLockIsRight'
    <3>1. CASE Sequenced!Next
      BY <3>1, WriterStep, ReaderStep DEF IInv, Sequenced!Next
    <3>2. CASE UNCHANGED sequencedVars
      BY <3>2 DEF IInv, SeqLockIsRight, sequencedVars, Sequenced!TypeOK, WordsAreRight, CopyIsRight
    <3>3. QED
      BY <2>2, <3>1, <3>2
  <2>5. SuspendingIsRight'
    <3>1. Suspending!Next \/ UNCHANGED suspendingVars
      BY DEF LocksNext, locksVars
    <3>2. QED
      BY <3>1, SuspendingStep DEF IInv
  <2>6. QED
    BY <2>3, <2>4, <2>5 DEF IInv
<1>3. QED
  BY <1>1, <1>2, PTL DEF LocksSpec

\* One thread at a time is inside a lock of threads and a sleeper does not
\* depend on luck; what read_end of the sequence lock accepts is the latest
\* group of words, whole (lock.h:9, :31, :62).
THEOREM Correct == LocksSpec => []GuardedIsWhole
<1>1. IInv => GuardedIsWhole
  BY WaitLockImplies, SeqLockImplies, WaitLockAssumed DEF IInv, GuardedIsWhole
<1>2. QED
  BY <1>1, Invariance, PTL

\* A mutex is held by one coroutine or shared by as many as it counts, never left
\* free with somebody in its queue; a coroutine waits for exactly the queues it is in
\* and the news on its way, and is inside only with all it asked for
\* (iocp/lock.h:42).
THEOREM GrantsCorrect == LocksSpec => []GrantsAreRight
<1>1. IInv => GrantsAreRight
  BY SuspendingImplies DEF IInv, GrantsAreRight
<1>2. QED
  BY <1>1, Invariance, PTL

=============================================================================
