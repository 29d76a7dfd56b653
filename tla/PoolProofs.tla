----------------------------- MODULE PoolProofs -----------------------------
(***************************************************************************)
(* Both kinds of pool, the shared ones of module LockfreePool first.        *)
(*                                                                          *)
(* The lock-free stacks hand a node to one thread at a time, for every      *)
(* number of nodes and threads and every width of the tag.  The heart of    *)
(* the argument is Fresh: as long as the tag has not advanced since a       *)
(* thread loaded _head, the successor it has read is right if its node is   *)
(* on the stack at all.  Where the pops advance the tag the node has not    *)
(* left the stack; where the pushes do it has not come back.                *)
(***************************************************************************)
EXTENDS MCPools, WellFoundedInduction, TLAPS

FreshPop(t) ==
  /\ snapshot[t].ptr # Null
  /\ snapshot[t].tag + age[t] = head.tag \/ snapshot[t].tag + age[t] = head.tag + TagLimit
  /\ age[t] = 0 =>
       /\ class # "pool" => snapshot[t].ptr \in InFree
       /\ snapshot[t].ptr \in InFree /\ pc[t] = "pop_exchange" => link[t] = next[snapshot[t].ptr]

Fresh ==
  /\ \A t \in Threads : pc[t] \in Popping => FreshPop(t)
  /\ \A t \in Threads : pc[t] \in Pushing => current[t] # Null
  /\ \A t \in Threads : pc[t] = "push_exchange" => next[current[t]] = snapshot[t].ptr

IInv ==
  /\ TypeOK
  /\ ChainIsFree
  /\ OneOwner
  /\ Fresh

-----------------------------------------------------------------------------

LEMMA PrefixOfSeq ==
  ASSUME NEW S, NEW seq \in Seq(S), NEW m \in 0..Len(seq)
  PROVE  /\ SubSeq(seq, 1, m) \in Seq(S)
         /\ Len(SubSeq(seq, 1, m)) = m
         /\ \A i \in 1..m : SubSeq(seq, 1, m)[i] = seq[i]
OBVIOUS

\* What taking the top off, and putting a node on, does to the free nodes.
LEMMA PopFree ==
  ASSUME TypeOK, ChainIsFree, free # <<>>, free' = SubSeq(free, 1, Len(free) - 1)
  PROVE  /\ free' \in Seq(Nodes)
         /\ Len(free) \in Nat \ {0}
         /\ Len(free') = Len(free) - 1
         /\ \A i \in 1..Len(free') : free'[i] = free[i]
         /\ InFree' = InFree \ {free[Len(free)]}
<1>1. Len(free) \in Nat \ {0}
  BY DEF TypeOK
<1>2. /\ free' \in Seq(Nodes)
      /\ Len(free') = Len(free) - 1
      /\ \A i \in 1..Len(free') : free'[i] = free[i]
  <2>1. Len(free) - 1 \in 0..Len(free) /\ free \in Seq(Nodes)
    BY <1>1 DEF TypeOK
  <2>2. QED
    BY <1>1, <2>1, PrefixOfSeq
<1>3. InFree' = InFree \ {free[Len(free)]}
  BY <1>1, <1>2 DEF InFree, ChainIsFree
<1>4. QED
  BY <1>1, <1>2, <1>3

LEMMA PushFree ==
  ASSUME TypeOK, NEW n \in Nodes, free' = Append(free, n)
  PROVE  /\ free' \in Seq(Nodes)
         /\ Len(free) \in Nat
         /\ Len(free') = Len(free) + 1
         /\ \A i \in 1..Len(free) : free'[i] = free[i]
         /\ free'[Len(free')] = n
         /\ InFree' = InFree \union {n}
<1>1. /\ free' \in Seq(Nodes)
      /\ Len(free) \in Nat
      /\ Len(free') = Len(free) + 1
      /\ \A i \in 1..Len(free) : free'[i] = free[i]
      /\ free'[Len(free')] = n
  BY DEF TypeOK
<1>2. InFree' = InFree \union {n}
  BY <1>1 DEF InFree
<1>3. QED
  BY <1>1, <1>2

LEMMA TopOfChain ==
  ASSUME TypeOK, ChainIsFree, head.ptr # Null
  PROVE  /\ free # <<>>
         /\ Len(free) \in Nat \ {0}
         /\ head.ptr = free[Len(free)]
         /\ head.ptr \in InFree
         /\ next[head.ptr] = IF Len(free) = 1 THEN Null ELSE free[Len(free) - 1]
<1>1. free # <<>> /\ Len(free) \in Nat \ {0} /\ head.ptr = free[Len(free)]
  BY DEF TypeOK, ChainIsFree, Top
<1>2. Len(free) \in 1..Len(free)
  BY <1>1
<1>3. QED
  BY ZenonT(30), <1>1, <1>2 DEF ChainIsFree, InFree

\* An exchange of allocate that succeeds finds its snapshot fresh: the tags
\* agree only at age 0.
LEMMA SameWordIsFresh ==
  ASSUME TypeOK, ChainIsFree, Fresh, NEW t \in Threads,
         pc[t] = "pop_exchange", head = snapshot[t]
  PROVE  /\ link[t] = next[head.ptr]
         /\ head.ptr # Null
<1>1. age[t] \in 0..(TagLimit - 1) /\ head.tag \in Nat /\ TagLimit \in Nat
  BY LockfreePoolAssumption DEF TypeOK, Tags, Word
<1>2. FreshPop(t)
  BY DEF Fresh, Popping
<1>3. age[t] = 0
  BY <1>1, <1>2 DEF FreshPop
<1>4. head.ptr # Null /\ head.ptr \in InFree
  BY <1>2, TopOfChain DEF FreshPop
<1>5. QED
  BY <1>2, <1>3, <1>4 DEF FreshPop

\* What an advance of the tag does to a thread that holds a snapshot s of age
\* a while the head has the tag h.
LEMMA TagStep ==
  ASSUME NEW s \in Tags, NEW h \in Tags, NEW a \in Tags, a + 1 < TagLimit,
         s + a = h \/ s + a = h + TagLimit
  PROVE  /\ a + 1 \in Tags
         /\ a + 1 # 0
         /\ s + (a + 1) = NextTag(h) \/ s + (a + 1) = NextTag(h) + TagLimit
BY LockfreePoolAssumption DEF Tags, NextTag

LEMMA NextTagType == ASSUME NEW h \in Tags PROVE NextTag(h) \in Tags
BY LockfreePoolAssumption DEF Tags, NextTag

-----------------------------------------------------------------------------

LEMMA InitFixedChain ==
  ASSUME InitFixed
  PROVE  free \in Seq(Nodes) /\ InFree = Nodes /\ ChainIsFree
<1>1. free \in Seq(Nodes) /\ Len(free) = Capacity
  <2>1. \A i \in 1..Capacity : Capacity + 1 - i \in Nodes
    BY LockfreePoolAssumption DEF Nodes
  <2>2. QED
    BY <2>1, LockfreePoolAssumption DEF InitFixed
<1>2. \A i \in 1..Capacity : free[i] = Capacity + 1 - i
  BY DEF InitFixed
<1>3. InFree = Nodes
  <2>1. \A n \in Nodes : Capacity + 1 - n \in 1..Capacity /\ free[Capacity + 1 - n] = n
    BY <1>2, LockfreePoolAssumption DEF Nodes
  <2>2. \A i \in 1..Capacity : free[i] \in Nodes
    BY <1>2, LockfreePoolAssumption DEF Nodes
  <2>3. QED
    BY <1>1, <2>1, <2>2 DEF InFree
<1>4. head.ptr = Top(free)
  <2>1. free # <<>>
    BY <1>1, LockfreePoolAssumption
  <2>2. free[Len(free)] = 1
    BY <1>1, <1>2, LockfreePoolAssumption
  <2>3. QED
    BY <2>1, <2>2 DEF InitFixed, Top
<1>5. \A i \in 1..Len(free) : next[free[i]] = IF i = 1 THEN Null ELSE free[i - 1]
  <2> SUFFICES ASSUME NEW i \in 1..Len(free)
               PROVE  next[free[i]] = IF i = 1 THEN Null ELSE free[i - 1]
    OBVIOUS
  <2>1. free[i] = Capacity + 1 - i /\ Capacity + 1 - i \in Nodes
    BY <1>1, <1>2, LockfreePoolAssumption DEF Nodes
  <2>2. next[Capacity + 1 - i] = IF i = 1 THEN Null ELSE Capacity + 2 - i
    BY <1>1, <2>1, LockfreePoolAssumption DEF InitFixed
  <2>3. i # 1 => i - 1 \in 1..Capacity /\ free[i - 1] = Capacity + 2 - i
    BY <1>1, <1>2, LockfreePoolAssumption
  <2>4. QED
    BY <2>1, <2>2, <2>3
<1>6. \A i, j \in 1..Len(free) : free[i] = free[j] => i = j
  BY <1>1, <1>2, LockfreePoolAssumption
<1>7. QED
  BY <1>1, <1>3, <1>4, <1>5, <1>6 DEF ChainIsFree

LEMMA InitIInv == Init => IInv
<1> SUFFICES ASSUME Init PROVE IInv
  OBVIOUS
<1>1. /\ free \in Seq(Nodes)
      /\ ChainIsFree
      /\ heap \intersect InFree = {}
      /\ heap \union InFree = Nodes
  <2>1. CASE InitFixed
    BY <2>1, InitFixedChain DEF InitFixed
  <2>2. CASE InitEmpty
    BY <2>2 DEF InitEmpty, InFree, ChainIsFree, Top, NoWord
  <2>3. QED
    BY <2>1, <2>2 DEF Init
<1>2. TypeOK
  <2>1. class \in Classes /\ heap \subseteq Nodes
    BY DEF Init, InitFixed, InitEmpty, Classes
  <2>2. head \in Word /\ next \in [Nodes -> Address] /\ NoWord \in Word /\ 0 \in Tags
    BY LockfreePoolAssumption
    DEF Init, InitFixed, InitEmpty, Nodes, Address, Null, Word, Tags, NoWord
  <2>3. QED
    BY <1>1, <2>1, <2>2 DEF Init, TypeOK, Address
<1>3. OneOwner
  BY <1>1 DEF Init, OneOwner, Out, Pending, Pushing
<1>4. Fresh
  BY DEF Init, Fresh, Popping, Pushing
<1>5. QED
  BY <1>1, <1>2, <1>3, <1>4 DEF IInv

\* A successful exchange in allocate takes the top node off.
LEMMA TakeStep ==
  ASSUME IInv, NEW t \in Threads, AllocateTake(t)
  PROVE  IInv'
<1> DEFINE n == head.ptr
<1>1. link[t] = next[n] /\ n # Null /\ n = snapshot[t].ptr
  BY SameWordIsFresh DEF IInv, AllocateTake
<1>2. /\ free # <<>>
      /\ Len(free) \in Nat \ {0}
      /\ n = free[Len(free)]
      /\ n \in InFree
      /\ next[n] = IF Len(free) = 1 THEN Null ELSE free[Len(free) - 1]
  BY <1>1, TopOfChain DEF IInv
<1>3. /\ free' \in Seq(Nodes)
      /\ Len(free') = Len(free) - 1
      /\ \A i \in 1..Len(free') : free'[i] = free[i]
      /\ InFree' = InFree \ {n}
  BY <1>2, PopFree DEF IInv, AllocateTake
<1>4. n \in Nodes
  BY <1>2 DEF IInv, TypeOK
<1>5. \A u \in Threads : u # t /\ pc[u] \in Popping =>
        /\ age'[u] \in Tags
        /\ \/ snapshot[u].tag + age'[u] = head'.tag
           \/ snapshot[u].tag + age'[u] = head'.tag + TagLimit
        /\ age'[u] = 0 => class = "pool" /\ age[u] = 0
  <2> SUFFICES ASSUME NEW u \in Threads, u # t, pc[u] \in Popping
               PROVE  /\ age'[u] \in Tags
                      /\ \/ snapshot[u].tag + age'[u] = head'.tag
                         \/ snapshot[u].tag + age'[u] = head'.tag + TagLimit
                      /\ age'[u] = 0 => class = "pool" /\ age[u] = 0
    OBVIOUS
  <2>1. /\ snapshot[u].tag \in Tags /\ head.tag \in Tags /\ age[u] \in Tags
        /\ snapshot[u].tag + age[u] = head.tag \/ snapshot[u].tag + age[u] = head.tag + TagLimit
    BY DEF IInv, TypeOK, Word, Fresh, FreshPop
  <2>2. CASE class = "pool"
    <3>1. age'[u] = age[u] /\ head'.tag = head.tag
      BY <2>2 DEF IInv, TypeOK, AllocateTake, AllocateTag
    <3>2. QED
      BY <2>1, <2>2, <3>1
  <2>3. CASE class # "pool"
    <3>1. age[u] + 1 < TagLimit /\ age'[u] = age[u] + 1 /\ head'.tag = NextTag(head.tag)
      BY <2>3 DEF AllocateTake, AllocateTag, TagAdvances, NotLapped
    <3>2. QED
      BY <2>1, <3>1, TagStep
  <2>4. QED
    BY <2>2, <2>3
<1>6. TypeOK'
  <2>1. age' \in [Threads -> Tags]
    <3>1. 0 \in Tags
      BY LockfreePoolAssumption DEF Tags
    <3>2. CASE class = "pool"
      BY <3>1, <3>2 DEF IInv, TypeOK, AllocateTake
    <3>3. CASE class # "pool"
      <4>1. age' = [u \in Threads |-> IF u # t /\ pc[u] \in Popping THEN age[u] + 1 ELSE 0]
        BY <3>3 DEF AllocateTake, TagAdvances
      <4>2. QED
        BY <1>5, <3>1, <4>1
    <3>4. QED
      BY <3>2, <3>3
  <2>2. head' \in Word
    BY NextTagType DEF IInv, TypeOK, AllocateTake, AllocateTag, Word
  <2>3. NoWord \in Word
    BY LockfreePoolAssumption DEF NoWord, Word, Tags, Address
  <2>4. QED
    BY <1>1, <1>3, <1>4, <2>1, <2>2, <2>3 DEF IInv, TypeOK, AllocateTake, Return, Goto, Address
<1>7. ChainIsFree'
  <2>1. head'.ptr = Top(free')
    <3>1. CASE Len(free) = 1
      BY <1>1, <1>2, <1>3, <3>1 DEF AllocateTake, Top
    <3>2. CASE Len(free) # 1
      <4>1. free' # <<>> /\ Len(free) - 1 \in 1..Len(free')
        BY <1>2, <1>3, <3>2
      <4>2. QED
        BY <1>1, <1>2, <1>3, <3>2, <4>1 DEF AllocateTake, Top
    <3>3. QED
      BY <3>1, <3>2
  <2>2. \A i \in 1..Len(free') : i \in 1..Len(free) /\ (i # 1 => i - 1 \in 1..Len(free'))
    BY <1>2, <1>3
  <2>3. QED
    BY <1>3, <2>1, <2>2 DEF IInv, ChainIsFree, AllocateTake
<1>8. OneOwner'
  <2>1. /\ \A u \in Threads : Pending(u)' = Pending(u)
        /\ Pending(t) = {}
    BY DEF IInv, TypeOK, AllocateTake, Return, Goto, Pending, Pushing
  <2>2. \A u \in Threads : owned'[u] = IF u = t THEN owned[u] \union {n} ELSE owned[u]
    BY <1>1 DEF IInv, TypeOK, AllocateTake
  <2>3. heap' = heap /\ n \notin heap /\ \A u \in Threads : n \notin Out(u)
    BY <1>2 DEF IInv, OneOwner, AllocateTake
  <2>4. \A u \in Threads : Out(u)' = IF u = t THEN Out(u) \union {n} ELSE Out(u)
    BY <2>1, <2>2 DEF Out
  <2>5. \A u \in Threads : owned'[u] \intersect Pending(u)' = {}
    <3>1. \A u \in Threads : owned[u] \intersect Pending(u) = {}
      BY DEF IInv, OneOwner
    <3>2. QED
      BY <2>1, <2>2, <3>1
  <2>6. QED
    BY <1>3, <2>3, <2>4, <2>5 DEF IInv, OneOwner
<1>9. Fresh'
  <2>1. ASSUME NEW u \in Threads, pc'[u] \in Popping
        PROVE  FreshPop(u)'
    <3>1. u # t /\ pc[u] \in Popping /\ pc'[u] = pc[u]
      BY <2>1 DEF IInv, TypeOK, AllocateTake, Return, Goto, Popping
    <3>2. snapshot'[u] = snapshot[u] /\ link'[u] = link[u] /\ next' = next /\ class' = class
      BY <3>1 DEF IInv, TypeOK, AllocateTake, Return
    <3>3. FreshPop(u)
      BY <3>1 DEF IInv, Fresh
    <3>4. QED
      BY <1>3, <1>5, <3>1, <3>2, <3>3 DEF FreshPop
  <2>2. /\ \A u \in Threads : pc'[u] \in Pushing => current'[u] # Null
        /\ \A u \in Threads : pc'[u] = "push_exchange" => next'[current'[u]] = snapshot'[u].ptr
    BY DEF IInv, TypeOK, Fresh, AllocateTake, Return, Goto, Pushing
  <2>3. QED
    BY <2>1, <2>2 DEF Fresh
<1>10. QED
  BY <1>6, <1>7, <1>8, <1>9 DEF IInv

\* A successful exchange in deallocate puts the node on top.
LEMMA GiveStep ==
  ASSUME IInv, NEW t \in Threads, DeallocateGive(t)
  PROVE  IInv'
<1> DEFINE n == current[t]
<1>1. n \in Nodes /\ n # Null /\ next[n] = head.ptr /\ pc[t] = "push_exchange"
  BY DEF IInv, TypeOK, DeallocateGive, Fresh, Pushing, Address
<1>2. n \notin InFree /\ n \notin heap
  BY <1>1 DEF IInv, OneOwner, Out, Pending, Pushing
<1>3. /\ free' \in Seq(Nodes)
      /\ Len(free) \in Nat
      /\ Len(free') = Len(free) + 1
      /\ \A i \in 1..Len(free) : free'[i] = free[i]
      /\ free'[Len(free')] = n
      /\ InFree' = InFree \union {n}
  BY <1>1, PushFree DEF IInv, DeallocateGive
<1>4. \A u \in Threads : u # t /\ pc[u] \in Popping =>
        /\ age'[u] \in Tags
        /\ \/ snapshot[u].tag + age'[u] = head'.tag
           \/ snapshot[u].tag + age'[u] = head'.tag + TagLimit
        /\ age'[u] = 0 => class # "pool" /\ age[u] = 0
  <2> SUFFICES ASSUME NEW u \in Threads, u # t, pc[u] \in Popping
               PROVE  /\ age'[u] \in Tags
                      /\ \/ snapshot[u].tag + age'[u] = head'.tag
                         \/ snapshot[u].tag + age'[u] = head'.tag + TagLimit
                      /\ age'[u] = 0 => class # "pool" /\ age[u] = 0
    OBVIOUS
  <2>1. /\ snapshot[u].tag \in Tags /\ head.tag \in Tags /\ age[u] \in Tags
        /\ snapshot[u].tag + age[u] = head.tag \/ snapshot[u].tag + age[u] = head.tag + TagLimit
    BY DEF IInv, TypeOK, Word, Fresh, FreshPop
  <2>2. CASE class # "pool"
    <3>1. age'[u] = age[u] /\ head'.tag = head.tag
      BY <2>2 DEF DeallocateGive, DeallocateTag
    <3>2. QED
      BY <2>1, <2>2, <3>1
  <2>3. CASE class = "pool"
    <3>1. age[u] + 1 < TagLimit /\ age'[u] = age[u] + 1 /\ head'.tag = NextTag(head.tag)
      BY <2>3 DEF DeallocateGive, DeallocateTag, TagAdvances, NotLapped
    <3>2. QED
      BY <2>1, <3>1, TagStep
  <2>4. QED
    BY <2>2, <2>3
<1>5. TypeOK'
  <2>1. age' \in [Threads -> Tags]
    <3>1. 0 \in Tags
      BY LockfreePoolAssumption DEF Tags
    <3>2. CASE class # "pool"
      BY <3>2 DEF IInv, TypeOK, DeallocateGive
    <3>3. CASE class = "pool"
      <4>1. age' = [u \in Threads |-> IF u # t /\ pc[u] \in Popping THEN age[u] + 1 ELSE 0]
        BY <3>3 DEF DeallocateGive, TagAdvances
      <4>2. QED
        BY <1>4, <3>1, <4>1
    <3>4. QED
      BY <3>2, <3>3
  <2>2. head' \in Word
    BY <1>1, NextTagType DEF IInv, TypeOK, DeallocateGive, DeallocateTag, Word, Address
  <2>3. NoWord \in Word
    BY LockfreePoolAssumption DEF NoWord, Word, Tags, Address
  <2>4. QED
    BY <1>1, <1>3, <2>1, <2>2, <2>3 DEF IInv, TypeOK, DeallocateGive, Return, Goto, Address
<1>6. ChainIsFree'
  <2>1. head'.ptr = Top(free')
    <3>1. free' # <<>>
      BY <1>3
    <3>2. QED
      BY <1>3, <3>1 DEF DeallocateGive, Top
  <2>2. next[n] = IF Len(free') = 1 THEN Null ELSE free'[Len(free') - 1]
    <3>1. CASE free = <<>>
      BY <1>1, <1>3, <3>1 DEF IInv, ChainIsFree, Top
    <3>2. CASE free # <<>>
      <4>1. Len(free) # 0
        BY <3>2 DEF IInv, TypeOK
      <4>2. QED
        BY <1>1, <1>3, <3>2, <4>1 DEF IInv, ChainIsFree, Top
    <3>3. QED
      BY <3>1, <3>2
  <2>3. \A i \in 1..Len(free') : next'[free'[i]] = IF i = 1 THEN Null ELSE free'[i - 1]
    <3> SUFFICES ASSUME NEW i \in 1..Len(free')
                 PROVE  next[free'[i]] = IF i = 1 THEN Null ELSE free'[i - 1]
      BY DEF DeallocateGive
    <3>1. CASE i = Len(free')
      BY <1>3, <2>2, <3>1
    <3>2. CASE i # Len(free')
      <4>1. i \in 1..Len(free) /\ (i # 1 => i - 1 \in 1..Len(free))
        BY <1>3, <3>2
      <4>2. QED
        BY <1>3, <4>1 DEF IInv, ChainIsFree
    <3>3. QED
      BY <3>1, <3>2
  <2>4. \A i, j \in 1..Len(free') : free'[i] = free'[j] => i = j
    <3>1. \A i \in 1..Len(free') : i \in 1..Len(free) \/ i = Len(free')
      BY <1>3
    <3>2. \A i \in 1..Len(free) : free'[i] # n
      BY <1>2, <1>3 DEF InFree
    <3>3. QED
      BY <1>3, <3>1, <3>2 DEF IInv, ChainIsFree
  <2>5. QED
    BY <2>1, <2>3, <2>4 DEF ChainIsFree
<1>7. OneOwner'
  <2>1. \A u \in Threads : Pending(u)' = IF u = t THEN {} ELSE Pending(u)
    BY DEF IInv, TypeOK, DeallocateGive, Return, Goto, Pending, Pushing
  <2>2. Pending(t) = {n}
    BY <1>1 DEF Pending, Pushing
  <2>3. owned' = owned /\ heap' = heap
    BY DEF DeallocateGive
  <2>4. \A u \in Threads : Out(u)' = IF u = t THEN Out(u) \ {n} ELSE Out(u)
    BY <2>1, <2>2, <2>3 DEF IInv, OneOwner, Out
  <2>5. \A u \in Threads : n \in Out(u) => u = t
    BY <2>2 DEF IInv, OneOwner, Out
  <2>6. QED
    BY <1>2, <1>3, <2>1, <2>2, <2>3, <2>4, <2>5 DEF IInv, OneOwner
<1>8. Fresh'
  <2>1. ASSUME NEW u \in Threads, pc'[u] \in Popping
        PROVE  FreshPop(u)'
    <3>1. u # t /\ pc[u] \in Popping /\ pc'[u] = pc[u]
      BY <2>1 DEF IInv, TypeOK, DeallocateGive, Return, Goto, Popping
    <3>2. snapshot'[u] = snapshot[u] /\ link'[u] = link[u] /\ next' = next /\ class' = class
      BY <3>1 DEF IInv, TypeOK, DeallocateGive, Return
    <3>3. FreshPop(u)
      BY <3>1 DEF IInv, Fresh
    <3>4. QED
      BY <1>3, <1>4, <3>1, <3>2, <3>3 DEF FreshPop
  <2>2. /\ \A u \in Threads : pc'[u] \in Pushing => current'[u] # Null
        /\ \A u \in Threads : pc'[u] = "push_exchange" => next'[current'[u]] = snapshot'[u].ptr
    BY DEF IInv, TypeOK, Fresh, DeallocateGive, Return, Goto, Pushing
  <2>3. QED
    BY <2>1, <2>2 DEF Fresh
<1>9. QED
  BY <1>5, <1>6, <1>7, <1>8 DEF IInv

\* allocate looks at the head, first or after a failed exchange.
LEMMA LookStep ==
  ASSUME IInv, NEW t \in Threads, Look(t), pc[t] \notin Pushing
  PROVE  IInv'
<1>1. /\ class' = class /\ heap' = heap /\ head' = head /\ next' = next
      /\ current' = current /\ owned' = owned /\ free' = free /\ InFree' = InFree
  BY DEF Look, InFree
<1>2. PICK label \in {"new", "idle", "pop_next"}, word \in Word :
        /\ pc' = [pc EXCEPT ![t] = label]
        /\ snapshot' = [snapshot EXCEPT ![t] = word]
        /\ label = "pop_next" => word = head /\ head.ptr # Null
  <2>1. NoWord \in Word /\ head \in Word
    BY LockfreePoolAssumption DEF IInv, TypeOK, NoWord, Word, Tags, Address
  <2>2. CASE head.ptr = Null
    BY <2>1, <2>2 DEF Look, Goto
  <2>3. CASE head.ptr # Null
    BY <2>1, <2>3 DEF Look, Goto
  <2>4. QED
    BY <2>2, <2>3
<1>3. age' = [age EXCEPT ![t] = 0] /\ link' = [link EXCEPT ![t] = Null]
  BY DEF Look
<1>4. TypeOK'
  <2>1. 0 \in Tags /\ Null \in Address
    BY LockfreePoolAssumption DEF Tags, Address
  <2>2. QED
    BY <1>1, <1>2, <1>3, <2>1 DEF IInv, TypeOK, Popping
<1>5. ChainIsFree'
  BY <1>1 DEF IInv, ChainIsFree
<1>6. OneOwner'
  <2>1. \A u \in Threads : Pending(u)' = Pending(u)
    BY <1>1, <1>2 DEF IInv, TypeOK, Pending, Pushing
  <2>2. QED
    BY <1>1, <2>1 DEF IInv, OneOwner, Out
<1>7. Fresh'
  <2>1. ASSUME NEW u \in Threads, pc'[u] \in Popping
        PROVE  FreshPop(u)'
    <3>1. CASE u = t
      <4>1. /\ snapshot'[t] = head /\ head.ptr # Null /\ age'[t] = 0
            /\ pc'[t] = "pop_next"
        BY <1>2, <1>3, <2>1, <3>1 DEF IInv, TypeOK, Popping
      <4>2. head.ptr \in InFree /\ head.tag + 0 = head.tag
        BY <4>1, TopOfChain DEF IInv, TypeOK, Word, Tags
      <4>3. QED
        BY <1>1, <3>1, <4>1, <4>2 DEF FreshPop
    <3>2. CASE u # t
      BY <1>1, <1>2, <1>3, <2>1, <3>2 DEF IInv, TypeOK, Fresh, FreshPop
    <3>3. QED
      BY <3>1, <3>2
  <2>2. /\ \A u \in Threads : pc'[u] \in Pushing => current'[u] # Null
        /\ \A u \in Threads : pc'[u] = "push_exchange" => next'[current'[u]] = snapshot'[u].ptr
    BY <1>1, <1>2 DEF IInv, TypeOK, Fresh, Pushing
  <2>3. QED
    BY <2>1, <2>2 DEF Fresh
<1>8. QED
  BY <1>4, <1>5, <1>6, <1>7 DEF IInv

LEMMA NextStep ==
  ASSUME IInv, NEW t \in Threads, AllocateNext(t)
  PROVE  IInv'
<1>1. InFree' = InFree
  BY DEF AllocateNext, InFree
<1>2. snapshot[t].ptr \in Nodes
  BY DEF IInv, TypeOK, Fresh, FreshPop, AllocateNext, Popping, Word, Address
<1>3. TypeOK'
  BY <1>2 DEF IInv, TypeOK, AllocateNext, Goto, Popping
<1>4. ChainIsFree'
  BY DEF IInv, ChainIsFree, AllocateNext
<1>5. OneOwner'
  <2>1. \A u \in Threads : Pending(u)' = Pending(u)
    BY DEF IInv, TypeOK, AllocateNext, Goto, Pending, Pushing
  <2>2. QED
    BY <1>1, <2>1 DEF IInv, OneOwner, Out, AllocateNext
<1>6. Fresh'
  <2>1. ASSUME NEW u \in Threads, pc'[u] \in Popping
        PROVE  FreshPop(u)'
    BY <1>1, <2>1 DEF IInv, TypeOK, Fresh, FreshPop, AllocateNext, Goto, Popping
  <2>2. QED
    BY <2>1 DEF IInv, TypeOK, Fresh, AllocateNext, Goto, Pushing
<1>7. QED
  BY <1>3, <1>4, <1>5, <1>6 DEF IInv

\* deallocate links its node, which no other thread and no part of the stack
\* has, to the head it has seen.
LEMMA LinkStep ==
  ASSUME IInv, NEW t \in Threads, DeallocateLink(t)
  PROVE  IInv'
<1> DEFINE n == current[t]
<1>1. InFree' = InFree
  BY DEF DeallocateLink, InFree
<1>2. n \in Nodes /\ n \notin InFree
  BY DEF IInv, TypeOK, Fresh, OneOwner, Out, Pending, Pushing, DeallocateLink, Address
<1>3. \A u \in Threads \ {t} : pc[u] \in Pushing => current[u] # n
  BY DEF IInv, OneOwner, Out, Pending, Pushing, DeallocateLink
<1>4. TypeOK'
  BY DEF IInv, TypeOK, DeallocateLink, Goto, Pushing, Word
<1>5. ChainIsFree'
  <2>1. \A i \in 1..Len(free) : free[i] # n
    BY <1>2 DEF InFree
  <2>2. QED
    BY <2>1 DEF IInv, TypeOK, ChainIsFree, DeallocateLink
<1>6. OneOwner'
  <2>1. \A u \in Threads : Pending(u)' = Pending(u)
    BY DEF IInv, TypeOK, DeallocateLink, Goto, Pending, Pushing
  <2>2. QED
    BY <1>1, <2>1 DEF IInv, OneOwner, Out, DeallocateLink
<1>7. Fresh'
  <2>1. ASSUME NEW u \in Threads, pc'[u] \in Popping
        PROVE  FreshPop(u)'
    <3>1. pc[u] \in Popping /\ pc'[u] = pc[u]
      BY <2>1 DEF IInv, TypeOK, DeallocateLink, Goto, Popping
    <3>2. QED
      BY <1>1, <1>2, <3>1 DEF IInv, TypeOK, Fresh, FreshPop, DeallocateLink
  <2>2. \A u \in Threads : pc'[u] \in Pushing => current'[u] # Null
    BY DEF IInv, TypeOK, Fresh, DeallocateLink, Goto, Pushing
  <2>3. \A u \in Threads : pc'[u] = "push_exchange" => next'[current'[u]] = snapshot'[u].ptr
    <3>1. ASSUME NEW u \in Threads \ {t}, pc'[u] = "push_exchange"
          PROVE  next'[current'[u]] = snapshot'[u].ptr
      BY <1>3, <3>1 DEF IInv, TypeOK, Fresh, DeallocateLink, Goto, Pushing
    <3>2. next'[current'[t]] = snapshot'[t].ptr
      BY <1>2 DEF IInv, TypeOK, DeallocateLink
    <3>3. QED
      BY <3>1, <3>2
  <2>4. QED
    BY <2>1, <2>2, <2>3 DEF Fresh
<1>8. QED
  BY <1>4, <1>5, <1>6, <1>7 DEF IInv

LEMMA RetryStep ==
  ASSUME IInv, NEW t \in Threads, DeallocateRetry(t)
  PROVE  IInv'
<1>1. InFree' = InFree
  BY DEF DeallocateRetry, InFree
<1>2. TypeOK' /\ ChainIsFree'
  BY DEF IInv, TypeOK, ChainIsFree, DeallocateRetry, Goto, Pushing
<1>3. OneOwner'
  <2>1. \A u \in Threads : Pending(u)' = Pending(u)
    BY DEF IInv, TypeOK, DeallocateRetry, Goto, Pending, Pushing
  <2>2. QED
    BY <1>1, <2>1 DEF IInv, OneOwner, Out, DeallocateRetry
<1>4. Fresh'
  BY <1>1 DEF IInv, TypeOK, Fresh, FreshPop, DeallocateRetry, Goto, Popping, Pushing
<1>5. QED
  BY <1>2, <1>3, <1>4 DEF IInv

\* The owner of a node writes over its _next; nobody relies on it.
LEMMA WriteStep ==
  ASSUME IInv, NEW n \in Nodes, NEW word \in Address, Write(n, word)
  PROVE  IInv'
<1>1. InFree' = InFree
  BY DEF Write, InFree
<1>2. n \notin InFree /\ \A u \in Threads : n \notin Pending(u)
  BY DEF IInv, OneOwner, Out, Write
<1>3. TypeOK'
  BY DEF IInv, TypeOK, Write
<1>4. ChainIsFree'
  <2>1. \A i \in 1..Len(free) : free[i] # n
    BY <1>2 DEF InFree
  <2>2. QED
    BY <2>1 DEF IInv, TypeOK, ChainIsFree, Write
<1>5. OneOwner'
  BY <1>1 DEF IInv, OneOwner, Out, Pending, Write
<1>6. Fresh'
  <2>1. \A u \in Threads : pc[u] \in Pushing => current[u] # n
    BY <1>2 DEF Pending
  <2>2. QED
    BY <1>1, <1>2, <2>1 DEF IInv, TypeOK, Fresh, FreshPop, Write, Pushing
<1>7. QED
  BY <1>3, <1>4, <1>5, <1>6 DEF IInv

\* A node changes hands between the heap and the thread t, or t starts to
\* give one back: the stack, the locals of the other threads and what
\* everybody else has stay as they are.
LEMMA HandStep ==
  ASSUME IInv, NEW t \in Threads, NEW n \in Nodes,
         \/ AllocateNew(t, n) \/ HeaderAllocate(t, n)
         \/ HeaderDeallocate(t, n) \/ DeallocateLoad(t, n)
  PROVE  IInv'
<1> USE DEF Goto, Return
<1>1. class' = class /\ head' = head /\ next' = next /\ free' = free /\ age' = age /\ InFree' = InFree
  BY DEF AllocateNew, HeaderAllocate, HeaderDeallocate, DeallocateLoad, InFree
<1>2. pc[t] \in {"idle", "new"} /\ pc'[t] \in {"idle", "push_link"}
  BY DEF IInv, TypeOK, AllocateNew, HeaderAllocate, HeaderDeallocate, DeallocateLoad
<1>3. \A u \in Threads \ {t} :
        /\ pc'[u] = pc[u] /\ snapshot'[u] = snapshot[u] /\ link'[u] = link[u]
        /\ current'[u] = current[u] /\ owned'[u] = owned[u]
  BY DEF IInv, TypeOK, AllocateNew, HeaderAllocate, HeaderDeallocate, DeallocateLoad
<1>4. pc'[t] = "push_link" => current'[t] = n /\ n # Null
  BY DEF IInv, TypeOK, AllocateNew, HeaderAllocate, HeaderDeallocate, DeallocateLoad, Nodes, Null
<1>5. TypeOK'
  <2>1. NoWord \in Word /\ Null \in Address /\ n \in Address
    BY LockfreePoolAssumption DEF NoWord, Word, Tags, Address
  <2>2. QED
    BY <1>1, <2>1
    DEF IInv, TypeOK, AllocateNew, HeaderAllocate, HeaderDeallocate, DeallocateLoad, Pushing
<1>6. ChainIsFree'
  BY <1>1 DEF IInv, ChainIsFree
<1>7. OneOwner'
  <2>1. Pending(t) = {} /\ \A u \in Threads \ {t} : Out(u)' = Out(u) /\ Pending(u)' = Pending(u)
    BY <1>2, <1>3 DEF Out, Pending, Pushing
  <2>2. \/ /\ n \in heap /\ heap' = heap \ {n}
           /\ Out(t)' = Out(t) \union {n} /\ Pending(t)' = {}
        \/ /\ n \in Out(t) /\ heap' = heap \union {n}
           /\ Out(t)' = Out(t) \ {n} /\ Pending(t)' = {}
        \/ /\ heap' = heap /\ Out(t)' = Out(t) /\ owned'[t] \intersect Pending(t)' = {}
    <3>1. CASE AllocateNew(t, n) \/ HeaderAllocate(t, n)
      BY <2>1, <3>1 DEF IInv, TypeOK, AllocateNew, HeaderAllocate, Out, Pending, Pushing
    <3>2. CASE HeaderDeallocate(t, n)
      BY <2>1, <3>2 DEF IInv, TypeOK, HeaderDeallocate, Out, Pending, Pushing
    <3>3. CASE DeallocateLoad(t, n)
      <4>1. /\ owned'[t] = owned[t] \ {n} /\ n \in owned[t] /\ heap' = heap
            /\ Pending(t)' = {n}
        BY <3>3 DEF IInv, TypeOK, DeallocateLoad, Pending, Pushing
      <4>2. QED
        BY <2>1, <4>1 DEF Out
    <3>4. QED
      BY <3>1, <3>2, <3>3
  <2>3. QED
    BY <1>1, <1>3, <2>1, <2>2 DEF IInv, OneOwner
<1>8. Fresh'
  <2>1. ASSUME NEW u \in Threads, pc'[u] \in Popping
        PROVE  FreshPop(u)'
    <3>1. u # t
      BY <1>2, <2>1 DEF Popping
    <3>2. QED
      BY <1>1, <1>3, <2>1, <3>1 DEF IInv, Fresh, FreshPop
  <2>2. \A u \in Threads : pc'[u] \in Pushing => current'[u] # Null
    BY <1>2, <1>3, <1>4 DEF IInv, Fresh, Pushing
  <2>3. \A u \in Threads : pc'[u] = "push_exchange" => next'[current'[u]] = snapshot'[u].ptr
    BY <1>1, <1>2, <1>3 DEF IInv, Fresh
  <2>4. QED
    BY <2>1, <2>2, <2>3 DEF Fresh
<1>9. QED
  BY <1>5, <1>6, <1>7, <1>8 DEF IInv

LEMMA ClearStep == IInv /\ Clear => IInv'
<1> SUFFICES ASSUME IInv, Clear PROVE IInv'
  OBVIOUS
<1>1. InFree' = {}
  BY DEF Clear, InFree
<1>2. \A u \in Threads : pc[u] = "idle"
  BY DEF Clear
<1>3. TypeOK'
  <2>1. InFree \subseteq Nodes
    BY DEF IInv, TypeOK, InFree
  <2>2. NoWord \in Word
    BY LockfreePoolAssumption DEF NoWord, Word, Tags, Address
  <2>3. QED
    BY <2>1, <2>2 DEF IInv, TypeOK, Clear
<1>4. ChainIsFree'
  BY DEF Clear, ChainIsFree, Top, NoWord
<1>5. OneOwner'
  <2>1. \A u \in Threads : Pending(u) = {} /\ Pending(u)' = {}
    BY <1>2 DEF Clear, Pending, Pushing
  <2>2. QED
    BY <1>1, <2>1 DEF IInv, OneOwner, Out, Clear
<1>6. Fresh'
  BY <1>2 DEF Clear, Fresh, Popping, Pushing
<1>7. QED
  BY <1>3, <1>4, <1>5, <1>6 DEF IInv

-----------------------------------------------------------------------------

\* The conjunction above holds in every state.
THEOREM Invariance == Spec => []IInv
<1>1. IInv /\ [Next]_vars => IInv'
  <2> SUFFICES ASSUME IInv, [Next]_vars PROVE IInv'
    OBVIOUS
  <2>1. ASSUME NEW t \in Threads, Allocate(t) PROVE IInv'
    <3>1. CASE AllocateLoad(t) \/ AllocateRetry(t)
      BY <3>1, LookStep DEF AllocateLoad, AllocateRetry, Pushing
    <3>2. CASE \E n \in heap : AllocateNew(t, n)
      BY <3>2, HandStep DEF IInv, TypeOK
    <3>3. CASE AllocateNext(t)
      BY <3>3, NextStep
    <3>4. CASE AllocateTake(t)
      BY <3>4, TakeStep
    <3>5. QED
      BY <2>1, <3>1, <3>2, <3>3, <3>4 DEF Allocate
  <2>2. ASSUME NEW t \in Threads, Deallocate(t) PROVE IInv'
    <3>1. CASE \E n \in owned[t] : DeallocateLoad(t, n)
      BY <3>1, HandStep DEF IInv, TypeOK
    <3>2. QED
      BY <2>2, <3>1, LinkStep, GiveStep, RetryStep DEF Deallocate
  <2>3. ASSUME NEW t \in Threads, Header(t) PROVE IInv'
    <3>1. PICK n \in Nodes : HeaderAllocate(t, n) \/ HeaderDeallocate(t, n)
      BY <2>3 DEF Header, IInv, TypeOK
    <3>2. QED
      BY <3>1, HandStep
  <2>4. CASE UNCHANGED vars
    <3>1. TypeOK' /\ ChainIsFree' /\ InFree' = InFree
      BY <2>4 DEF vars, IInv, TypeOK, ChainIsFree, InFree
    <3>2. OneOwner'
      BY <2>4, <3>1 DEF vars, IInv, OneOwner, Out, Pending
    <3>3. Fresh'
      BY <2>4, <3>1 DEF vars, IInv, Fresh, FreshPop
    <3>4. QED
      BY <3>1, <3>2, <3>3 DEF IInv
  <2>5. QED
    BY <2>1, <2>2, <2>3, <2>4, WriteStep, ClearStep DEF Next
<1>2. QED
  BY InitIInv, <1>1, PTL DEF Spec

\* Every state is well typed.
THEOREM TypeCorrect == Spec => []TypeOK
<1>1. IInv => TypeOK
  BY DEF IInv
<1>2. QED
  BY Invariance, <1>1, PTL

\* The nodes reached from _head through _next are the free ones, each once.
THEOREM ChainCorrect == Spec => []ChainIsFree
<1>1. IInv => ChainIsFree
  BY DEF IInv
<1>2. QED
  BY Invariance, <1>1, PTL

\* No node is handed to two threads, and none is lost.
THEOREM OwnerCorrect == Spec => []OneOwner
<1>1. IInv => OneOwner
  BY DEF IInv
<1>2. QED
  BY Invariance, <1>1, PTL

\* The tag defeats ABA: a pop that succeeds has read the current successor.
THEOREM StalePopFails == Spec => []NoStalePop
<1>1. IInv => NoStalePop
  BY SameWordIsFresh DEF IInv, NoStalePop
<1>2. QED
  BY Invariance, <1>1, PTL

-----------------------------------------------------------------------------
(* The pool of every thread (module ThreadLocalPool, as Local).  Behind the *)
(* heads and sizes there are lists L and buckets C of nodes that nothing    *)
(* else holds: each is the first nodes of a chain of links, as many as its  *)
(* size says.  The invariant says they exist, every operation says what     *)
(* they are afterwards, and walking along the links meets exactly them.     *)

\* A node before a list, a list after others, a bucket on top of others.
Before(n, c) == <<n>> \o c
After(C, c) == Append(C, c)
OnTop(old, value, count) == Append(old, Local!Give(value, count))

Elems(c) == {c[i] : i \in 1 .. Len(c)}
Once(c) == \A i, j \in 1 .. Len(c) : c[i] = c[j] => i = j

\* The sequence c is the first s nodes of the chain that starts at n.
IsChain(after, c, n, s) ==
  /\ c \in Seq(Local!Nodes) /\ Len(c) = s
  /\ s > 0 => c[1] = n
  /\ \A i \in 1 .. s - 1 : after[c[i]] = c[i + 1]

\* The lists L and the buckets C have no node in common, none that is in U, and
\* with U they have all of T.
Apart(L, C, U, T) ==
  /\ \A t \in LocalThreads : Once(L[t])
  /\ \A k \in 1 .. Len(C) : Once(C[k])
  /\ \A t, u \in LocalThreads : t # u => Elems(L[t]) \intersect Elems(L[u]) = {}
  /\ \A k, l \in 1 .. Len(C) : k # l => Elems(C[k]) \intersect Elems(C[l]) = {}
  /\ \A t \in LocalThreads : \A k \in 1 .. Len(C) : Elems(L[t]) \intersect Elems(C[k]) = {}
  /\ \A t \in LocalThreads : Elems(L[t]) \subseteq T \ U
  /\ \A k \in 1 .. Len(C) : Elems(C[k]) \subseteq T \ U
  /\ U \subseteq T
  /\ \A n \in T \ U : (\E t \in LocalThreads : n \in Elems(L[t])) \/ (\E k \in 1 .. Len(C) : n \in Elems(C[k]))

Kept(L, C) ==
  /\ L \in [LocalThreads -> Seq(Local!Nodes)]
  /\ C \in Seq(Seq(Local!Nodes)) /\ Len(C) = Len(stack)
  /\ \A t \in LocalThreads : IsChain(links, L[t], heads[t], sizes[t])
  /\ \A k \in 1 .. Len(stack) : IsChain(links, C[k], stack[k].value, stack[k].size)
  /\ \A t \in LocalThreads : sizes[t] >= BucketSize => break[t] = L[t][sizes[t] - BucketSize + 1]
  /\ Apart(L, C, used, Local!Taken)

PoolIsKept == Local!TypeOK /\ \E L : \E C : Kept(L, C)

-----------------------------------------------------------------------------

\* A chain without its first node.
LEMMA ChainTail ==
  ASSUME NEW after, NEW c, NEW n, NEW s \in Nat, s > 0, IsChain(after, c, n, s), Once(c)
  PROVE  /\ IsChain(after, Tail(c), after[n], s - 1)
         /\ c[1] = n /\ n \in Local!Nodes
         /\ n \in Elems(c) /\ Elems(Tail(c)) = Elems(c) \ {n} /\ Once(Tail(c))
<1>1. c \in Seq(Local!Nodes) /\ Len(c) = s /\ c[1] = n /\ c # <<>>
  BY DEF IsChain
<1>2. PICK d : d = Tail(c)
  OBVIOUS
<1>3. d \in Seq(Local!Nodes) /\ Len(d) = s - 1 /\ \A i \in 1 .. s - 1 : d[i] = c[i + 1]
  BY <1>1, <1>2
<1>4. s - 1 > 0 => d[1] = after[n]
  BY <1>1, <1>3 DEF IsChain
<1>5. \A i \in 1 .. (s - 1) - 1 : after[d[i]] = d[i + 1]
  <2>1. ASSUME NEW i \in 1 .. (s - 1) - 1
        PROVE  after[d[i]] = d[i + 1]
    <3>1. i \in 1 .. s - 1 /\ i + 1 \in 1 .. s - 1
      OBVIOUS
    <3>2. after[c[i + 1]] = c[(i + 1) + 1]
      BY <3>1 DEF IsChain
    <3>3. QED
      BY <1>3, <3>1, <3>2
  <2>2. QED
    BY <2>1
<1>6. IsChain(after, d, after[n], s - 1)
  BY <1>3, <1>4, <1>5 DEF IsChain
<1>7. Once(d)
  <2>1. ASSUME NEW i \in 1 .. s - 1, NEW j \in 1 .. s - 1, d[i] = d[j]
        PROVE  i = j
    <3>1. c[i + 1] = c[j + 1] /\ i + 1 \in 1 .. Len(c) /\ j + 1 \in 1 .. Len(c)
      BY <1>1, <1>3, <2>1
    <3>2. i + 1 = j + 1
      BY <3>1 DEF Once
    <3>3. QED
      BY <3>2
  <2>2. QED
    BY <1>3, <2>1 DEF Once
<1>8. n \in Elems(c) /\ n \in Local!Nodes
  BY <1>1 DEF Elems
<1>9. Elems(d) = Elems(c) \ {n}
  <2>1. ASSUME NEW x \in Elems(d)
        PROVE  x \in Elems(c) \ {n}
    <3>1. PICK i \in 1 .. s - 1 : x = c[i + 1]
      BY <1>3 DEF Elems
    <3>2. i + 1 \in 1 .. Len(c) /\ 1 \in 1 .. Len(c) /\ i + 1 # 1
      BY <1>1
    <3>3. QED
      BY <1>1, <3>1, <3>2 DEF Elems, Once
  <2>2. ASSUME NEW x \in Elems(c), x # n
        PROVE  x \in Elems(d)
    <3>1. PICK i \in 1 .. s : x = c[i]
      BY <1>1 DEF Elems
    <3>2. i # 1
      BY <1>1, <2>2, <3>1
    <3>3. i - 1 \in 1 .. s - 1 /\ (i - 1) + 1 = i
      BY <3>2
    <3>4. QED
      BY <1>3, <3>1, <3>3 DEF Elems
  <2>3. QED
    BY <2>1, <2>2
<1>10. QED
  BY <1>1, <1>2, <1>6, <1>7, <1>8, <1>9

\* A chain does not change with the links of other nodes.
LEMMA ChainStays ==
  ASSUME NEW old, NEW new, NEW c, NEW n, NEW s \in Nat, IsChain(old, c, n, s),
         \A x \in Elems(c) : new[x] = old[x]
  PROVE  IsChain(new, c, n, s)
<1>1. \A i \in 1 .. s - 1 : c[i] \in Elems(c)
  BY DEF IsChain, Elems
<1>2. QED
  BY <1>1 DEF IsChain

\* A node before a chain.
LEMMA ChainCons ==
  ASSUME NEW after, NEW c, NEW h, NEW s \in Nat, IsChain(after, c, h, s), Once(c),
         NEW n \in Local!Nodes, after[n] = h, n \notin Elems(c), NEW d, d = Before(n, c)
  PROVE  /\ IsChain(after, d, n, s + 1)
         /\ Elems(d) = Elems(c) \union {n} /\ Once(d)
         /\ \A i \in 1 .. s : d[i + 1] = c[i]
<1>1. d = <<n>> \o c
  BY DEF Before
<1>2. c \in Seq(Local!Nodes) /\ Len(c) = s /\ (s > 0 => c[1] = h)
  BY DEF IsChain
<1>3. /\ d \in Seq(Local!Nodes) /\ Len(d) = s + 1 /\ d[1] = n
      /\ \A i \in 1 .. s : d[i + 1] = c[i]
  BY <1>2, <1>1
<1>4. \A i \in 1 .. s + 1 : i = 1 \/ (i - 1 \in 1 .. s /\ d[i] = c[i - 1])
  BY <1>3
<1>5. \A i \in 1 .. s : after[d[i]] = d[i + 1]
  <2>1. ASSUME NEW i \in 1 .. s
        PROVE  after[d[i]] = d[i + 1]
    <3>1. CASE i = 1
      BY <1>2, <1>3, <3>1
    <3>2. CASE i # 1
      <4>1. i - 1 \in 1 .. s - 1 /\ (i - 1) + 1 = i /\ d[i] = c[i - 1] /\ d[i + 1] = c[i]
        BY <1>3, <1>4, <3>2
      <4>2. after[c[i - 1]] = c[(i - 1) + 1]
        BY <4>1 DEF IsChain
      <4>3. QED
        BY <4>1, <4>2
    <3>3. QED
      BY <3>1, <3>2
  <2>2. QED
    BY <2>1
<1>6. IsChain(after, d, n, s + 1)
  BY <1>3, <1>5 DEF IsChain
<1>7. Elems(d) = Elems(c) \union {n}
  <2>1. ASSUME NEW x \in Elems(d)
        PROVE  x \in Elems(c) \union {n}
    <3>1. PICK i \in 1 .. s + 1 : x = d[i]
      BY <1>3 DEF Elems
    <3>2. QED
      BY <1>2, <1>3, <1>4, <3>1 DEF Elems
  <2>2. ASSUME NEW x \in Elems(c)
        PROVE  x \in Elems(d)
    <3>1. PICK i \in 1 .. s : x = c[i]
      BY <1>2, <2>2 DEF Elems
    <3>2. x = d[i + 1] /\ i + 1 \in 1 .. Len(d)
      BY <1>3, <3>1
    <3>3. QED
      BY <3>2 DEF Elems
  <2>3. n \in Elems(d)
    <3>1. 1 \in 1 .. Len(d)
      BY <1>3
    <3>2. QED
      BY <1>3, <3>1 DEF Elems
  <2>4. QED
    BY <2>1, <2>2, <2>3
<1>8. Once(d)
  <2>1. ASSUME NEW i \in 1 .. s + 1, NEW j \in 1 .. s + 1, d[i] = d[j]
        PROVE  i = j
    <3>1. \A k \in 1 .. s : c[k] # n
      BY <1>2 DEF Elems
    <3>2. CASE i = 1 \/ j = 1
      <4>1. \A k \in 1 .. s + 1 : k # 1 => d[k] # n
        BY <1>4, <3>1
      <4>2. d[1] = n
        BY <1>3
      <4>3. QED
        BY <2>1, <3>2, <4>1, <4>2
    <3>3. CASE i # 1 /\ j # 1
      <4>1. i - 1 \in 1 .. Len(c) /\ j - 1 \in 1 .. Len(c) /\ c[i - 1] = c[j - 1]
        BY <1>2, <1>4, <2>1, <3>3
      <4>2. i - 1 = j - 1
        BY <4>1 DEF Once
      <4>3. QED
        BY <4>2
    <3>4. QED
      BY <3>2, <3>3
  <2>2. QED
    BY <1>3, <2>1 DEF Once
<1>9. QED
  BY <1>3, <1>6, <1>7, <1>8

\* A chain that is cut behind its m-th node.
LEMMA ChainCut ==
  ASSUME NEW after, NEW c, NEW n, NEW s \in Nat, IsChain(after, c, n, s), Once(c),
         NEW m \in 1 .. s - 1
  PROVE  LET upper == SubSeq(c, 1, m)
             lower == SubSeq(c, m + 1, s)
         IN /\ IsChain(after, upper, n, m) /\ IsChain(after, lower, c[m + 1], s - m)
            /\ Once(upper) /\ Once(lower)
            /\ Elems(upper) \intersect Elems(lower) = {}
            /\ Elems(upper) \union Elems(lower) = Elems(c)
<1>1. c \in Seq(Local!Nodes) /\ Len(c) = s /\ c[1] = n /\ m \in Nat /\ m + 1 \in 1 .. s
  BY DEF IsChain
<1>2. PICK a : a = SubSeq(c, 1, m)
  OBVIOUS
<1>3. PICK b : b = SubSeq(c, m + 1, s)
  OBVIOUS
<1>4. a \in Seq(Local!Nodes) /\ Len(a) = m /\ \A i \in 1 .. m : a[i] = c[i]
  BY <1>1, <1>2
<1>5. b \in Seq(Local!Nodes) /\ Len(b) = s - m /\ \A i \in 1 .. s - m : b[i] = c[m + i]
  BY <1>1, <1>3
<1>6. IsChain(after, a, n, m)
  BY <1>1, <1>4 DEF IsChain
<1>7. IsChain(after, b, c[m + 1], s - m)
  <2>1. ASSUME NEW i \in 1 .. (s - m) - 1
        PROVE  after[b[i]] = b[i + 1]
    <3>1. m + i \in 1 .. s - 1 /\ i \in 1 .. s - m /\ i + 1 \in 1 .. s - m /\ (m + i) + 1 = m + (i + 1)
      BY <1>1
    <3>2. after[c[m + i]] = c[(m + i) + 1]
      BY <3>1 DEF IsChain
    <3>3. QED
      BY <1>5, <3>1, <3>2
  <2>2. QED
    BY <1>1, <1>5, <2>1 DEF IsChain
<1>8. Once(a)
  BY <1>1, <1>4 DEF Once
<1>9. Once(b)
  <2>1. ASSUME NEW i \in 1 .. s - m, NEW j \in 1 .. s - m, b[i] = b[j]
        PROVE  i = j
    <3>1. m + i \in 1 .. Len(c) /\ m + j \in 1 .. Len(c) /\ c[m + i] = c[m + j]
      BY <1>1, <1>5, <2>1
    <3>2. m + i = m + j
      BY <3>1 DEF Once
    <3>3. QED
      BY <1>1, <3>2
  <2>2. QED
    BY <1>5, <2>1 DEF Once
<1>10. Elems(a) \intersect Elems(b) = {}
  <2>1. ASSUME NEW x \in Elems(a), x \in Elems(b)
        PROVE  FALSE
    <3>1. PICK i \in 1 .. m : x = c[i]
      BY <1>4 DEF Elems
    <3>2. PICK j \in 1 .. s - m : x = c[m + j]
      BY <1>5, <2>1 DEF Elems
    <3>3. i \in 1 .. Len(c) /\ m + j \in 1 .. Len(c) /\ i # m + j
      BY <1>1
    <3>4. QED
      BY <3>1, <3>2, <3>3 DEF Once
  <2>2. QED
    BY <2>1
<1>11. Elems(a) \union Elems(b) = Elems(c)
  <2>1. ASSUME NEW x \in Elems(a) \union Elems(b)
        PROVE  x \in Elems(c)
    <3>1. CASE x \in Elems(a)
      BY <1>1, <1>4, <3>1 DEF Elems
    <3>2. CASE x \in Elems(b)
      <4>1. PICK j \in 1 .. s - m : x = c[m + j]
        BY <1>5, <3>2 DEF Elems
      <4>2. m + j \in 1 .. Len(c)
        BY <1>1
      <4>3. QED
        BY <4>1, <4>2 DEF Elems
    <3>3. QED
      BY <2>1, <3>1, <3>2
  <2>2. ASSUME NEW x \in Elems(c)
        PROVE  x \in Elems(a) \union Elems(b)
    <3>1. PICK i \in 1 .. s : x = c[i]
      BY <1>1, <2>2 DEF Elems
    <3>2. CASE i <= m
      <4>1. i \in 1 .. Len(a) /\ x = a[i]
        BY <1>1, <1>4, <3>1, <3>2
      <4>2. QED
        BY <4>1 DEF Elems
    <3>3. CASE i > m
      <4>1. i - m \in 1 .. s - m /\ m + (i - m) = i
        BY <1>1, <3>3
      <4>2. x = b[i - m] /\ i - m \in 1 .. Len(b)
        BY <1>5, <3>1, <4>1
      <4>3. QED
        BY <4>2 DEF Elems
    <3>4. QED
      BY <1>1, <3>2, <3>3
  <2>3. QED
    BY <2>1, <2>2
<1>12. QED
  BY <1>2, <1>3, <1>6, <1>7, <1>8, <1>9, <1>10, <1>11

-----------------------------------------------------------------------------
(* The moves of nodes between lists, buckets and owners.                   *)

\* A node leaves a list and is handed out.
LEMMA ApartTake ==
  ASSUME NEW L, NEW C, NEW U, NEW T, Apart(L, C, U, T), NEW t \in LocalThreads,
         NEW n \in Elems(L[t]), NEW M, Once(M[t]), Elems(M[t]) = Elems(L[t]) \ {n},
         \A u \in LocalThreads : u # t => M[u] = L[u]
  PROVE  Apart(M, C, U \union {n}, T)
<1>1. \A u \in LocalThreads : Once(M[u]) /\ Elems(M[u]) \subseteq Elems(L[u]) /\ n \notin Elems(M[u])
  BY DEF Apart
<1>2. n \in T \ U /\ \A k \in 1 .. Len(C) : n \notin Elems(C[k])
  BY DEF Apart
<1>3. \A x \in T \ (U \union {n}) : (\E u \in LocalThreads : x \in Elems(M[u])) \/ (\E k \in 1 .. Len(C) : x \in Elems(C[k]))
  BY DEF Apart
<1>4. /\ \A u, v \in LocalThreads : u # v => Elems(M[u]) \intersect Elems(M[v]) = {}
      /\ \A u \in LocalThreads : \A k \in 1 .. Len(C) : Elems(M[u]) \intersect Elems(C[k]) = {}
  BY <1>1 DEF Apart
<1>5. /\ \A u \in LocalThreads : Elems(M[u]) \subseteq T \ (U \union {n})
      /\ \A k \in 1 .. Len(C) : Once(C[k]) /\ Elems(C[k]) \subseteq T \ (U \union {n})
      /\ U \union {n} \subseteq T
  BY <1>1, <1>2 DEF Apart
<1>6. \A k, l \in 1 .. Len(C) : k # l => Elems(C[k]) \intersect Elems(C[l]) = {}
  BY DEF Apart
<1>7. QED
  BY <1>1, <1>3, <1>4, <1>5, <1>6 DEF Apart

\* A node that is given back comes to a list.
LEMMA ApartGive ==
  ASSUME NEW L, NEW C, NEW U, NEW T, Apart(L, C, U, T), NEW t \in LocalThreads,
         NEW n \in U, NEW M, Once(M[t]), Elems(M[t]) = Elems(L[t]) \union {n},
         \A u \in LocalThreads : u # t => M[u] = L[u]
  PROVE  Apart(M, C, U \ {n}, T)
<1>1. /\ n \in T /\ \A u \in LocalThreads : n \notin Elems(L[u])
      /\ \A k \in 1 .. Len(C) : n \notin Elems(C[k])
  BY DEF Apart
<1>2. \A u \in LocalThreads : Once(M[u]) /\ (u # t => Elems(M[u]) = Elems(L[u]))
  BY DEF Apart
<1>3. /\ \A u, v \in LocalThreads : u # v => Elems(M[u]) \intersect Elems(M[v]) = {}
      /\ \A u \in LocalThreads : \A k \in 1 .. Len(C) : Elems(M[u]) \intersect Elems(C[k]) = {}
  <2>1. ASSUME NEW u \in LocalThreads, NEW v \in LocalThreads, u # v
        PROVE  Elems(M[u]) \intersect Elems(M[v]) = {}
    <3>1. Elems(L[u]) \intersect Elems(L[v]) = {} /\ n \notin Elems(L[u]) /\ n \notin Elems(L[v])
      BY <1>1, <2>1 DEF Apart
    <3>2. u # t \/ v # t
      BY <2>1
    <3>3. QED
      BY <1>2, <3>1, <3>2
  <2>2. ASSUME NEW u \in LocalThreads, NEW k \in 1 .. Len(C)
        PROVE  Elems(M[u]) \intersect Elems(C[k]) = {}
    <3>1. Elems(L[u]) \intersect Elems(C[k]) = {} /\ n \notin Elems(C[k])
      BY <1>1 DEF Apart
    <3>2. QED
      BY <1>2, <3>1
  <2>3. QED
    BY <2>1, <2>2
<1>4. \A x \in T \ (U \ {n}) : (\E u \in LocalThreads : x \in Elems(M[u])) \/ (\E k \in 1 .. Len(C) : x \in Elems(C[k]))
  BY <1>2 DEF Apart
<1>5. /\ \A u \in LocalThreads : Elems(M[u]) \subseteq T \ (U \ {n})
      /\ \A k \in 1 .. Len(C) : Elems(C[k]) \subseteq T \ (U \ {n})
  BY <1>1, <1>2 DEF Apart
<1>6. QED
  BY <1>2, <1>3, <1>4, <1>5 DEF Apart

\* The top bucket becomes the list of a thread that had none.
LEMMA ApartPop ==
  ASSUME NEW L, NEW C, NEW U, NEW T, Apart(L, C, U, T), NEW t \in LocalThreads,
         Len(C) \in Nat, Len(C) > 0, Elems(L[t]) = {},
         NEW M, M[t] = C[Len(C)], \A u \in LocalThreads : u # t => M[u] = L[u],
         NEW D, Len(D) = Len(C) - 1, \A k \in 1 .. Len(D) : D[k] = C[k]
  PROVE  Apart(M, D, U, T)
<1>1. Len(C) \in 1 .. Len(C) /\ \A k \in 1 .. Len(D) : k \in 1 .. Len(C) /\ k # Len(C)
  OBVIOUS
<1>2. \A k \in 1 .. Len(C) : k = Len(C) \/ k \in 1 .. Len(D)
  OBVIOUS
<1>3. /\ \A u \in LocalThreads : Once(M[u]) /\ Elems(M[u]) \subseteq T \ U
      /\ \A k \in 1 .. Len(D) : Once(D[k]) /\ Elems(D[k]) \subseteq T \ U
  BY <1>1 DEF Apart
<1>4. ASSUME NEW u \in LocalThreads, NEW v \in LocalThreads, u # v
      PROVE  Elems(M[u]) \intersect Elems(M[v]) = {}
  <2>1. Elems(L[u]) \intersect Elems(L[v]) = {} /\ \A w \in LocalThreads : Elems(L[w]) \intersect Elems(C[Len(C)]) = {}
    BY <1>1, <1>4 DEF Apart
  <2>2. CASE u = t
    BY <1>4, <2>1, <2>2
  <2>3. CASE u # t
    BY <1>4, <2>1, <2>3
  <2>4. QED
    BY <2>2, <2>3
<1>5. /\ \A k, l \in 1 .. Len(D) : k # l => Elems(D[k]) \intersect Elems(D[l]) = {}
      /\ \A u \in LocalThreads : \A k \in 1 .. Len(D) : Elems(M[u]) \intersect Elems(D[k]) = {}
  <2>1. ASSUME NEW k \in 1 .. Len(D), NEW l \in 1 .. Len(D), k # l
        PROVE  Elems(D[k]) \intersect Elems(D[l]) = {}
    <3>1. k \in 1 .. Len(C) /\ l \in 1 .. Len(C) /\ D[k] = C[k] /\ D[l] = C[l]
      BY <1>1
    <3>2. QED
      BY <2>1, <3>1 DEF Apart
  <2>2. ASSUME NEW u \in LocalThreads, NEW k \in 1 .. Len(D)
        PROVE  Elems(M[u]) \intersect Elems(D[k]) = {}
    <3>1. /\ Elems(L[u]) \intersect Elems(C[k]) = {} /\ Elems(C[Len(C)]) \intersect Elems(C[k]) = {}
          /\ D[k] = C[k]
      BY <1>1 DEF Apart
    <3>2. QED
      BY <3>1
  <2>3. QED
    BY <2>1, <2>2
<1>6. \A x \in T \ U : (\E u \in LocalThreads : x \in Elems(M[u])) \/ (\E k \in 1 .. Len(D) : x \in Elems(D[k]))
  <2>1. ASSUME NEW x \in T \ U
        PROVE  (\E u \in LocalThreads : x \in Elems(M[u])) \/ (\E k \in 1 .. Len(D) : x \in Elems(D[k]))
    <3>1. CASE \E u \in LocalThreads : x \in Elems(L[u])
      BY <3>1
    <3>2. CASE \E k \in 1 .. Len(C) : x \in Elems(C[k])
      BY <1>2, <3>2
    <3>3. QED
      BY <2>1, <3>1, <3>2 DEF Apart
  <2>2. QED
    BY <2>1
<1>7. QED
  BY <1>3, <1>4, <1>5, <1>6 DEF Apart

\* A chunk becomes the list of a thread that had none.
LEMMA ApartChunk ==
  ASSUME NEW L, NEW C, NEW U, NEW T, Apart(L, C, U, T), NEW t \in LocalThreads, Elems(L[t]) = {},
         NEW M, Once(M[t]), Elems(M[t]) \intersect T = {}, \A u \in LocalThreads : u # t => M[u] = L[u]
  PROVE  Apart(M, C, U, T \union Elems(M[t]))
<1>1. \A u \in LocalThreads : Once(M[u]) /\ (u # t => Elems(M[u]) = Elems(L[u]) /\ Elems(M[u]) \subseteq T \ U)
  BY DEF Apart
<1>2. U \subseteq T /\ \A k \in 1 .. Len(C) : Elems(C[k]) \subseteq T \ U
  BY DEF Apart
<1>3. /\ \A u, v \in LocalThreads : u # v => Elems(M[u]) \intersect Elems(M[v]) = {}
      /\ \A u \in LocalThreads : \A k \in 1 .. Len(C) : Elems(M[u]) \intersect Elems(C[k]) = {}
  <2>1. ASSUME NEW u \in LocalThreads, NEW v \in LocalThreads, u # v
        PROVE  Elems(M[u]) \intersect Elems(M[v]) = {}
    <3>1. CASE u # t /\ v # t
      BY <1>1, <2>1, <3>1 DEF Apart
    <3>2. CASE u = t \/ v = t
      BY <1>1, <2>1, <3>2
    <3>3. QED
      BY <3>1, <3>2
  <2>2. ASSUME NEW u \in LocalThreads, NEW k \in 1 .. Len(C)
        PROVE  Elems(M[u]) \intersect Elems(C[k]) = {}
    <3>1. CASE u # t
      BY <1>1, <3>1 DEF Apart
    <3>2. CASE u = t
      BY <1>2, <3>2
    <3>3. QED
      BY <3>1, <3>2
  <2>3. QED
    BY <2>1, <2>2
<1>4. \A x \in (T \union Elems(M[t])) \ U :
        (\E u \in LocalThreads : x \in Elems(M[u])) \/ (\E k \in 1 .. Len(C) : x \in Elems(C[k]))
  BY <1>1 DEF Apart
<1>5. \A u \in LocalThreads : Elems(M[u]) \subseteq (T \union Elems(M[t])) \ U
  BY <1>1, <1>2
<1>6. QED
  BY <1>1, <1>2, <1>3, <1>4, <1>5 DEF Apart

\* A part of a list becomes the top bucket.
LEMMA ApartPush ==
  ASSUME NEW L, NEW C, NEW U, NEW T, Apart(L, C, U, T), NEW t \in LocalThreads, Len(C) \in Nat,
         NEW upper, NEW M, Once(upper), Once(M[t]), Elems(upper) \intersect Elems(M[t]) = {},
         Elems(upper) \union Elems(M[t]) = Elems(L[t]), \A u \in LocalThreads : u # t => M[u] = L[u],
         NEW D, Len(D) = Len(C) + 1, D[Len(C) + 1] = upper, \A k \in 1 .. Len(C) : D[k] = C[k]
  PROVE  Apart(M, D, U, T)
<1>1. /\ \A k \in 1 .. Len(D) : k = Len(C) + 1 \/ k \in 1 .. Len(C)
      /\ Len(C) + 1 \in 1 .. Len(D) /\ \A k \in 1 .. Len(C) : k \in 1 .. Len(D) /\ k # Len(C) + 1
  OBVIOUS
<1>2. \A u \in LocalThreads : Once(M[u]) /\ Elems(M[u]) \subseteq Elems(L[u]) /\ (u # t => Elems(M[u]) = Elems(L[u]))
  BY DEF Apart
<1>3. /\ \A u \in LocalThreads : u # t => Elems(M[u]) \intersect Elems(upper) = {}
      /\ \A k \in 1 .. Len(C) : Elems(C[k]) \intersect Elems(upper) = {}
      /\ Elems(upper) \subseteq T \ U
  BY DEF Apart
<1>4. /\ \A k \in 1 .. Len(D) : Once(D[k]) /\ Elems(D[k]) \subseteq T \ U
      /\ \A u \in LocalThreads : Elems(M[u]) \subseteq T \ U
      /\ U \subseteq T
  BY <1>1, <1>2, <1>3 DEF Apart
<1>5. \A u, v \in LocalThreads : u # v => Elems(M[u]) \intersect Elems(M[v]) = {}
  BY <1>2 DEF Apart
<1>6. \A k, l \in 1 .. Len(D) : k # l => Elems(D[k]) \intersect Elems(D[l]) = {}
  <2>1. ASSUME NEW k \in 1 .. Len(D), NEW l \in 1 .. Len(D), k # l
        PROVE  Elems(D[k]) \intersect Elems(D[l]) = {}
    <3>1. CASE k = Len(C) + 1
      BY <1>1, <1>3, <2>1, <3>1
    <3>2. CASE l = Len(C) + 1
      BY <1>1, <1>3, <2>1, <3>2
    <3>3. CASE k \in 1 .. Len(C) /\ l \in 1 .. Len(C)
      BY <2>1, <3>3 DEF Apart
    <3>4. QED
      BY <1>1, <3>1, <3>2, <3>3
  <2>2. QED
    BY <2>1
<1>7. ASSUME NEW u \in LocalThreads, NEW k \in 1 .. Len(D)
      PROVE  Elems(M[u]) \intersect Elems(D[k]) = {}
  <2>1. CASE k = Len(C) + 1
    BY <1>3, <2>1
  <2>2. CASE k \in 1 .. Len(C)
    BY <1>2, <2>2 DEF Apart
  <2>3. QED
    BY <1>1, <2>1, <2>2
<1>8. ASSUME NEW x \in T \ U
      PROVE  (\E u \in LocalThreads : x \in Elems(M[u])) \/ (\E k \in 1 .. Len(D) : x \in Elems(D[k]))
  <2>1. CASE \E u \in LocalThreads : x \in Elems(L[u])
    <3>1. PICK u \in LocalThreads : x \in Elems(L[u])
      BY <2>1
    <3>2. CASE u = t
      BY <1>1, <3>1, <3>2
    <3>3. CASE u # t
      BY <1>2, <3>1, <3>3
    <3>4. QED
      BY <3>2, <3>3
  <2>2. CASE \E k \in 1 .. Len(C) : x \in Elems(C[k])
    BY <1>1, <2>2
  <2>3. QED
    BY <1>8, <2>1, <2>2 DEF Apart
<1>9. QED
  BY <1>4, <1>5, <1>6, <1>7, <1>8 DEF Apart

-----------------------------------------------------------------------------
(* What the pool does.                                                     *)

\* A set of numbers that is not empty has a smallest.
LEMMA SmallestOf ==
  ASSUME NEW S, S \subseteq Nat, S # {}
  PROVE  \E m \in S : \A k \in S : m <= k
<1> DEFINE Smaller == {ss \in Nat \X Nat : ss[1] < ss[2]}
<1>1. IsWellFoundedOn(Smaller, Nat)
  BY NatLessThanWellFounded DEF OpToRel
<1>2. PICK m \in S : \A k \in S : <<k, m>> \notin Smaller
  BY <1>1, WFMin
<1>3. \A k \in S : ~(k < m)
  BY <1>2
<1>4. QED
  BY <1>3

\* To walk along a chain is to meet its nodes.
LEMMA WalkIsChain ==
  ASSUME NEW c, NEW n, NEW s \in Nat, IsChain(links, c, n, s)
  PROVE  Local!Walk(n, s) = c
<1> DEFINE along(f) == f = [i \in 1 .. s |-> IF i = 1 THEN n ELSE links[f[i - 1]]]
           at == CHOOSE f : along(f)
<1>1. c \in Seq(Local!Nodes) /\ Len(c) = s /\ (s > 0 => c[1] = n) /\ (\A i \in 1 .. s - 1 : links[c[i]] = c[i + 1])
  BY DEF IsChain
<1>2. along(c)
  <2>1. c = [i \in 1 .. s |-> c[i]]
    BY <1>1
  <2>2. ASSUME NEW i \in 1 .. s
        PROVE  c[i] = IF i = 1 THEN n ELSE links[c[i - 1]]
    <3>1. CASE i = 1
      BY <1>1, <3>1
    <3>2. CASE i # 1
      <4>1. i - 1 \in 1 .. s - 1 /\ (i - 1) + 1 = i
        BY <3>2
      <4>2. QED
        BY <1>1, <3>2, <4>1
    <3>3. QED
      BY <3>1, <3>2
  <2>3. QED
    BY <2>1, <2>2
<1>3. along(at)
  BY <1>2
<1>4. at = [i \in 1 .. s |-> IF i = 1 THEN n ELSE links[at[i - 1]]]
  BY <1>3
<1> HIDE DEF at
<1>5. \A i \in 1 .. s : at[i] = c[i]
  <2> DEFINE Wrong == {i \in 1 .. s : at[i] # c[i]}
  <2>1. SUFFICES ASSUME Wrong # {} PROVE FALSE
    OBVIOUS
  <2>2. Wrong \subseteq Nat
    OBVIOUS
  <2>3. PICK m \in Wrong : \A k \in Wrong : m <= k
    BY <2>1, <2>2, SmallestOf
  <2>4. m \in 1 .. s /\ at[m] # c[m]
    BY <2>3
  <2>5. m # 1
    BY <1>1, <1>4, <2>4
  <2>6. m - 1 \in 1 .. s - 1 /\ (m - 1) + 1 = m /\ m - 1 \in 1 .. s
    BY <2>4, <2>5
  <2>7. at[m - 1] = c[m - 1]
    BY <2>3, <2>6
  <2>8. at[m] = links[at[m - 1]] /\ links[c[m - 1]] = c[m]
    BY <1>1, <1>4, <2>4, <2>5, <2>6
  <2>9. QED
    BY <2>4, <2>7, <2>8
<1>6. Local!Walk(n, s) = [i \in 1 .. s |-> at[i]]
  BY DEF Local!Walk, at
<1>7. c = [i \in 1 .. s |-> c[i]]
  BY <1>1
<1>8. QED
  BY <1>5, <1>6, <1>7

\* Where the lists and the buckets are kept, they are what a walk along them meets.
LEMMA KeptImplies ==
  ASSUME PoolIsKept, BucketSize \in Nat \ {0}
  PROVE  Local!NodesAreKept
<1>1. PICK L, C : Kept(L, C)
  BY DEF PoolIsKept
<1>2. Local!TypeOK /\ Len(stack) \in Nat /\ DOMAIN stack = 1 .. Len(stack)
  BY DEF PoolIsKept, Local!TypeOK
<1>3. /\ L \in [LocalThreads -> Seq(Local!Nodes)] /\ C \in Seq(Seq(Local!Nodes)) /\ Len(C) = Len(stack)
      /\ \A t \in LocalThreads : IsChain(links, L[t], heads[t], sizes[t])
      /\ \A k \in 1 .. Len(stack) : IsChain(links, C[k], stack[k].value, stack[k].size)
      /\ Apart(L, C, used, Local!Taken)
  BY <1>1 DEF Kept
<1>4. ASSUME NEW t \in LocalThreads
      PROVE  Local!Lists[t] = L[t] /\ Local!Range(Local!Lists[t]) = Elems(L[t])
  <2>1. Local!Walk(heads[t], sizes[t]) = L[t]
    <3>1. sizes[t] \in Nat
      BY <1>2 DEF Local!TypeOK
    <3>2. QED
      BY <1>3, <3>1, WalkIsChain
  <2>2. DOMAIN L[t] = 1 .. Len(L[t])
    BY <1>3
  <2>3. QED
    BY <2>1, <2>2 DEF Local!Lists, Local!Range, Elems
<1>5. ASSUME NEW k \in DOMAIN Local!Bins
      PROVE  /\ k \in 1 .. Len(C) /\ Local!Bins[k] = C[k] /\ Local!Range(Local!Bins[k]) = Elems(C[k])
  <2>1. k \in 1 .. Len(stack) /\ stack[k] \in Local!Bucket
    BY <1>2 DEF Local!Bins, Local!TypeOK
  <2>2. Local!Walk(stack[k].value, stack[k].size) = C[k]
    <3>1. stack[k].size \in Nat
      BY <2>1 DEF Local!Bucket
    <3>2. QED
      BY <1>3, <2>1, <3>1, WalkIsChain
  <2>3. C[k] \in Seq(Local!Nodes) /\ DOMAIN C[k] = 1 .. Len(C[k])
    BY <1>3, <2>1
  <2>4. QED
    BY <1>2, <1>3, <2>1, <2>2, <2>3 DEF Local!Bins, Local!Range, Elems
<1>6. DOMAIN Local!Bins = 1 .. Len(C)
  BY <1>2, <1>3 DEF Local!Bins
<1>7. /\ \A t \in LocalThreads : Local!IsInjective(Local!Lists[t])
      /\ \A k \in DOMAIN Local!Bins : Local!IsInjective(Local!Bins[k])
  <2>1. ASSUME NEW t \in LocalThreads
        PROVE  Local!IsInjective(Local!Lists[t])
    <3>1. DOMAIN L[t] = 1 .. Len(L[t]) /\ Once(L[t])
      BY <1>3 DEF Apart
    <3>2. QED
      BY <1>4, <3>1 DEF Once, Local!IsInjective
  <2>2. ASSUME NEW k \in DOMAIN Local!Bins
        PROVE  Local!IsInjective(Local!Bins[k])
    <3>1. DOMAIN C[k] = 1 .. Len(C[k]) /\ Once(C[k])
      BY <1>3, <1>5 DEF Apart
    <3>2. QED
      BY <1>5, <3>1 DEF Once, Local!IsInjective
  <2>3. QED
    BY <2>1, <2>2
<1>8. /\ \A t, u \in LocalThreads : t # u => Local!Range(Local!Lists[t]) \intersect Local!Range(Local!Lists[u]) = {}
      /\ \A k, l \in DOMAIN Local!Bins : k # l => Local!Range(Local!Bins[k]) \intersect Local!Range(Local!Bins[l]) = {}
      /\ \A t \in LocalThreads, k \in DOMAIN Local!Bins :
           Local!Range(Local!Lists[t]) \intersect Local!Range(Local!Bins[k]) = {}
  <2>1. ASSUME NEW t \in LocalThreads, NEW u \in LocalThreads, t # u
        PROVE  Local!Range(Local!Lists[t]) \intersect Local!Range(Local!Lists[u]) = {}
    <3>1. Elems(L[t]) \intersect Elems(L[u]) = {}
      BY <1>3, <2>1 DEF Apart
    <3>2. QED
      BY <1>4, <3>1
  <2>2. ASSUME NEW k \in DOMAIN Local!Bins, NEW l \in DOMAIN Local!Bins, k # l
        PROVE  Local!Range(Local!Bins[k]) \intersect Local!Range(Local!Bins[l]) = {}
    <3>1. Elems(C[k]) \intersect Elems(C[l]) = {}
      BY <1>3, <1>5, <2>2 DEF Apart
    <3>2. QED
      BY <1>5, <3>1
  <2>3. ASSUME NEW t \in LocalThreads, NEW k \in DOMAIN Local!Bins
        PROVE  Local!Range(Local!Lists[t]) \intersect Local!Range(Local!Bins[k]) = {}
    <3>1. Elems(L[t]) \intersect Elems(C[k]) = {}
      BY <1>3, <1>5 DEF Apart
    <3>2. QED
      BY <1>4, <1>5, <3>1
  <2>4. QED
    BY <2>1, <2>2, <2>3
<1> DEFINE A == UNION {Local!Range(Local!Lists[t]) : t \in LocalThreads}
           B == UNION {Local!Range(Local!Bins[k]) : k \in DOMAIN Local!Bins}
           loose == A \union B
<1>9. \A n : n \in loose <=> (\E t \in LocalThreads : n \in Elems(L[t])) \/ (\E k \in 1 .. Len(C) : n \in Elems(C[k]))
  <2>1. \A n : n \in A <=> \E t \in LocalThreads : n \in Elems(L[t])
    <3>1. \A n : n \in A <=> \E t \in LocalThreads : n \in Local!Range(Local!Lists[t])
      OBVIOUS
    <3>2. QED
      BY <1>4, <3>1
  <2>2. \A n : n \in B <=> \E k \in 1 .. Len(C) : n \in Elems(C[k])
    <3>1. \A n : n \in B <=> \E k \in DOMAIN Local!Bins : n \in Local!Range(Local!Bins[k])
      OBVIOUS
    <3>2. QED
      BY <1>5, <1>6, <3>1
  <2> HIDE DEF A, B
  <2>3. QED
    BY <2>1, <2>2
<1> HIDE DEF loose
<1>10. loose \union used = Local!Taken /\ loose \intersect used = {}
  <2>1. \A n \in loose : n \in Local!Taken /\ n \notin used
    BY <1>3, <1>9 DEF Apart
  <2>2. used \subseteq Local!Taken /\ \A n \in Local!Taken \ used : n \in loose
    BY <1>3, <1>9 DEF Apart
  <2>3. QED
    BY <2>1, <2>2
<1>11. Local!EachNodeOnce
  BY <1>2, <1>7, <1>8, <1>10 DEF Local!EachNodeOnce, loose
<1>12. Local!BreakIsRight
  BY <1>1, <1>4 DEF Local!BreakIsRight, Kept
<1>13. QED
  BY <1>11, <1>12 DEF Local!NodesAreKept

\* At the start there is no chunk.
LEMMA PoolInit ==
  ASSUME Local!Init, Local!ThreadLocalPoolAssumption
  PROVE  PoolIsKept
<1> USE DEF Local!ThreadLocalPoolAssumption
<1>1. Local!TypeOK
  <2>1. stack \in Seq(Local!Bucket)
    BY DEF Local!Init
  <2>2. sizes \in [LocalThreads -> 0 .. 2 * BucketSize - 1] /\ chunks \in 0 .. Chunks
    BY DEF Local!Init
  <2>3. QED
    BY <2>1, <2>2 DEF Local!Init, Local!TypeOK, Local!Address
<1>2. PICK L : L = [t \in LocalThreads |-> <<>>]
  OBVIOUS
<1>3. L \in [LocalThreads -> Seq(Local!Nodes)] /\ \A t \in LocalThreads : L[t] = <<>>
  BY <1>2
<1>4. \A t \in LocalThreads : IsChain(links, L[t], heads[t], sizes[t])
  BY <1>3 DEF Local!Init, IsChain
<1>5. Len(<<>>) = 0 /\ <<>> \in Seq(Seq(Local!Nodes)) /\ stack = <<>>
  BY DEF Local!Init
<1>6. Local!Taken = {}
  <2>1. chunks * BucketSize = 0
    BY DEF Local!Init
  <2>2. QED
    BY <2>1 DEF Local!Taken, Local!Nodes
<1>7. Elems(<<>>) = {} /\ Once(<<>>)
  BY DEF Elems, Once
<1>8. Apart(L, <<>>, used, Local!Taken)
  BY <1>3, <1>5, <1>6, <1>7 DEF Local!Init, Apart
<1>9. \A t \in LocalThreads : ~(sizes[t] >= BucketSize)
  BY DEF Local!Init
<1>10. Kept(L, <<>>)
  BY <1>3, <1>4, <1>5, <1>8, <1>9 DEF Kept
<1>11. QED
  BY <1>1, <1>10 DEF PoolIsKept

\* Before t takes the node n from a list of s nodes, with the links and the
\* stack of after the step, L and C are the lists and the buckets.
Complete(t, n, s, after, L, C) ==
  /\ L \in [LocalThreads -> Seq(Local!Nodes)] /\ C \in Seq(Seq(Local!Nodes)) /\ Len(C) = Len(stack')
  /\ IsChain(after, L[t], n, s)
  /\ s - 1 >= BucketSize => break[t] = L[t][s - BucketSize + 1]
  /\ \A u \in LocalThreads : u # t =>
       /\ IsChain(after, L[u], heads[u], sizes[u])
       /\ sizes[u] >= BucketSize => break[u] = L[u][sizes[u] - BucketSize + 1]
  /\ stack' \in Seq(Local!Bucket) /\ chunks' \in 0 .. Chunks
  /\ \A k \in 1 .. Len(stack') : IsChain(after, C[k], stack'[k].value, stack'[k].size)
  /\ Apart(L, C, used, Local!Taken')

\* A thread takes the first node of a complete list.
LEMMA TakeKeeps ==
  ASSUME Local!TypeOK, Local!ThreadLocalPoolAssumption,
         NEW t \in LocalThreads, NEW n, NEW s \in 1 .. 2 * BucketSize - 1, NEW after \in [Local!Nodes -> Local!Address],
         Local!Take(t, n, s, after), NEW L, NEW C, Complete(t, n, s, after, L, C)
  PROVE  PoolIsKept'
<1> USE DEF Local!ThreadLocalPoolAssumption
<1>1. /\ L \in [LocalThreads -> Seq(Local!Nodes)] /\ C \in Seq(Seq(Local!Nodes)) /\ Len(C) = Len(stack')
      /\ IsChain(after, L[t], n, s)
      /\ s - 1 >= BucketSize => break[t] = L[t][s - BucketSize + 1]
      /\ \A u \in LocalThreads : u # t =>
           /\ IsChain(after, L[u], heads[u], sizes[u])
           /\ sizes[u] >= BucketSize => break[u] = L[u][sizes[u] - BucketSize + 1]
      /\ stack' \in Seq(Local!Bucket) /\ chunks' \in 0 .. Chunks
      /\ \A k \in 1 .. Len(stack') : IsChain(after, C[k], stack'[k].value, stack'[k].size)
      /\ Apart(L, C, used, Local!Taken')
  BY DEF Complete
<1> USE <1>1
<1>2. Once(L[t]) /\ s \in Nat /\ s > 0 /\ s - 1 \in 0 .. 2 * BucketSize - 1
  BY DEF Apart
<1>3. /\ IsChain(after, Tail(L[t]), after[n], s - 1) /\ L[t][1] = n /\ n \in Local!Nodes
      /\ n \in Elems(L[t]) /\ Elems(Tail(L[t])) = Elems(L[t]) \ {n} /\ Once(Tail(L[t]))
  BY <1>2, ChainTail
<1>4. /\ heads' = [heads EXCEPT ![t] = after[n]] /\ sizes' = [sizes EXCEPT ![t] = s - 1]
      /\ links' = [after EXCEPT ![n] = NoNode] /\ used' = used \union {n} /\ break' = break
  BY DEF Local!Take
<1>5. Local!TypeOK'
  <2>1. after[n] \in Local!Address /\ NoNode \in Local!Address
    BY <1>3 DEF Local!Address
  <2>2. heads' \in [LocalThreads -> Local!Address] /\ links' \in [Local!Nodes -> Local!Address]
    BY <1>4, <2>1 DEF Local!TypeOK
  <2>3. sizes' \in [LocalThreads -> 0 .. 2 * BucketSize - 1]
    BY <1>2, <1>4 DEF Local!TypeOK
  <2>4. used' \subseteq Local!Nodes
    BY <1>3, <1>4 DEF Local!TypeOK
  <2>5. QED
    BY <1>4, <2>2, <2>3, <2>4 DEF Local!TypeOK
<1>6. PICK M : M = [L EXCEPT ![t] = Tail(L[t])]
  OBVIOUS
<1>7. Tail(L[t]) \in Seq(Local!Nodes)
  BY <1>3 DEF IsChain
<1>8. M \in [LocalThreads -> Seq(Local!Nodes)] /\ M[t] = Tail(L[t]) /\ \A u \in LocalThreads : u # t => M[u] = L[u]
  BY <1>6, <1>7
<1>9. Apart(M, C, used', Local!Taken')
  <2>1. PICK T, U : T = Local!Taken' /\ U = used
    OBVIOUS
  <2>2. Apart(L, C, U, T)
    BY <2>1
  <2>3. Once(M[t]) /\ Elems(M[t]) = Elems(L[t]) \ {n}
    BY <1>3, <1>8
  <2>4. n \in Elems(L[t])
    BY <1>3
  <2>5. \A u \in LocalThreads : u # t => M[u] = L[u]
    BY <1>8
  <2>6. Apart(M, C, U \union {n}, T)
    BY <2>2, <2>3, <2>4, <2>5, ApartTake
  <2>7. QED
    BY <1>4, <2>1, <2>6
<1>10. \A x \in Local!Nodes : x # n => links'[x] = after[x]
  BY <1>4
<1>11. \A u \in LocalThreads : Elems(M[u]) \subseteq Local!Nodes /\ n \notin Elems(M[u])
  <2>1. ASSUME NEW u \in LocalThreads
        PROVE  Elems(M[u]) \subseteq Local!Nodes /\ n \notin Elems(M[u])
    <3>1. n \notin Elems(M[u])
      BY <1>3, <1>8 DEF Apart
    <3>2. M[u] \in Seq(Local!Nodes)
      BY <1>8
    <3>3. QED
      BY <3>1, <3>2 DEF Elems
  <2>2. QED
    BY <2>1
<1>12. ASSUME NEW u \in LocalThreads
       PROVE  IsChain(links', M[u], heads'[u], sizes'[u])
  <2>1. IsChain(after, M[u], heads'[u], sizes'[u]) /\ sizes'[u] \in Nat
    <3>1. CASE u = t
      <4>1. heads'[u] = after[n] /\ sizes'[u] = s - 1
        BY <1>4, <3>1 DEF Local!TypeOK
      <4>2. M[u] = Tail(L[t])
        BY <1>8, <3>1
      <4>3. QED
        BY <1>2, <1>3, <4>1, <4>2
    <3>2. CASE u # t
      BY <1>4, <1>8, <3>2 DEF Local!TypeOK
    <3>3. QED
      BY <3>1, <3>2
  <2>2. \A x \in Elems(M[u]) : links'[x] = after[x]
    BY <1>10, <1>11
  <2>3. QED
    BY <2>1, <2>2, ChainStays
<1>13. ASSUME NEW k \in 1 .. Len(stack')
       PROVE  IsChain(links', C[k], stack'[k].value, stack'[k].size)
  <2>1. stack'[k].size \in Nat
    <3>1. stack'[k] \in Local!Bucket
      BY <1>13
    <3>2. QED
      BY <3>1 DEF Local!Bucket
  <2>2. n \notin Elems(C[k])
    BY <1>3 DEF Apart
  <2>3. Elems(C[k]) \subseteq Local!Nodes
    BY DEF Elems
  <2>4. \A x \in Elems(C[k]) : links'[x] = after[x]
    BY <1>10, <2>2, <2>3
  <2>5. QED
    BY <2>1, <2>4, ChainStays
<1>14. ASSUME NEW u \in LocalThreads, sizes'[u] >= BucketSize
       PROVE  break'[u] = M[u][sizes'[u] - BucketSize + 1]
  <2>1. CASE u = t
    <3>1. sizes'[u] = s - 1
      BY <1>4, <2>1 DEF Local!TypeOK
    <3>2. break[t] = L[t][s - BucketSize + 1] /\ s - BucketSize \in 1 .. s - 1
      BY <1>14, <3>1
    <3>3. Len(L[t]) = s /\ L[t] \in Seq(Local!Nodes)
      BY DEF IsChain
    <3>4. \A i \in 1 .. s - 1 : Tail(L[t])[i] = L[t][i + 1]
      BY <3>3
    <3>5. Tail(L[t])[s - BucketSize] = L[t][s - BucketSize + 1]
      BY <3>2, <3>4
    <3>6. (s - 1) - BucketSize + 1 = s - BucketSize
      OBVIOUS
    <3>7. QED
      BY <1>4, <1>8, <2>1, <3>1, <3>2, <3>5, <3>6
  <2>2. CASE u # t
    <3>1. sizes'[u] = sizes[u] /\ break'[u] = break[u] /\ M[u] = L[u]
      BY <1>4, <1>8, <2>2 DEF Local!TypeOK
    <3>2. QED
      BY <1>14, <2>2, <3>1
  <2>3. QED
    BY <2>1, <2>2
<1>15. Kept(M, C)'
  BY <1>8, <1>9, <1>12, <1>13, <1>14 DEF Kept
<1>16. QED
  BY <1>5, <1>15 DEF PoolIsKept

\* A thread takes the first node of its own list.
LEMMA OwnKeeps ==
  ASSUME PoolIsKept, Local!ThreadLocalPoolAssumption, NEW t \in LocalThreads, Local!AllocateOwn(t)
  PROVE  PoolIsKept'
<1>1. PICK L, C : Kept(L, C)
  BY DEF PoolIsKept
<1>2. /\ sizes[t] > 0 /\ Local!Take(t, heads[t], sizes[t], links)
      /\ chunks' = chunks /\ stack' = stack
  BY DEF Local!AllocateOwn
<1>3. Local!TypeOK
  BY DEF PoolIsKept
<1>4. /\ sizes[t] \in 1 .. 2 * BucketSize - 1 /\ links \in [Local!Nodes -> Local!Address]
      /\ stack \in Seq(Local!Bucket) /\ chunks \in 0 .. Chunks
  BY <1>2, <1>3 DEF Local!TypeOK
<1>5. PICK n, s, after, T : n = heads[t] /\ s = sizes[t] /\ after = links /\ T = Local!Taken
  OBVIOUS
<1>6. Local!Taken' = T
  BY <1>2, <1>5 DEF Local!Taken, Local!Nodes
<1>7. /\ L \in [LocalThreads -> Seq(Local!Nodes)] /\ C \in Seq(Seq(Local!Nodes)) /\ Len(C) = Len(stack')
      /\ IsChain(after, L[t], n, s)
      /\ \A k \in 1 .. Len(stack') : IsChain(after, C[k], stack'[k].value, stack'[k].size)
      /\ Apart(L, C, used, Local!Taken')
  BY <1>1, <1>2, <1>5, <1>6 DEF Kept
<1>8. s - 1 >= BucketSize => break[t] = L[t][s - BucketSize + 1]
  <2>1. s >= BucketSize => break[t] = L[t][s - BucketSize + 1]
    BY <1>1, <1>5 DEF Kept
  <2>2. s \in Nat /\ BucketSize \in Nat
    BY <1>4, <1>5 DEF Local!ThreadLocalPoolAssumption
  <2>3. QED
    BY <2>1, <2>2
<1>9. \A u \in LocalThreads : u # t =>
        /\ IsChain(after, L[u], heads[u], sizes[u])
        /\ sizes[u] >= BucketSize => break[u] = L[u][sizes[u] - BucketSize + 1]
  BY <1>1, <1>5 DEF Kept
<1>10. Local!Take(t, n, s, after) /\ s \in 1 .. 2 * BucketSize - 1 /\ after \in [Local!Nodes -> Local!Address]
  BY <1>2, <1>4, <1>5
<1>11. stack' \in Seq(Local!Bucket) /\ chunks' \in 0 .. Chunks
  BY <1>2, <1>4
<1>12. Complete(t, n, s, after, L, C)
  BY <1>7, <1>8, <1>9, <1>11 DEF Complete
<1>13. QED
  BY <1>3, <1>10, <1>12, TakeKeeps

\* A thread whose list is empty takes over the top bucket.
LEMMA BucketKeeps ==
  ASSUME PoolIsKept, Local!ThreadLocalPoolAssumption, NEW t \in LocalThreads, Local!AllocateBucket(t)
  PROVE  PoolIsKept'
<1>1. PICK L, C : Kept(L, C)
  BY DEF PoolIsKept
<1>2. Local!TypeOK
  BY DEF PoolIsKept
<1>3. PICK z : z = Len(stack)
  OBVIOUS
<1>4. z \in Nat /\ z > 0 /\ stack \in Seq(Local!Bucket) /\ stack[z] \in Local!Bucket
  BY <1>2, <1>3 DEF Local!AllocateBucket, Local!TypeOK
<1>5. PICK n, s, after : n = stack[z].value /\ s = stack[z].size /\ after = links
  OBVIOUS
<1> DEFINE under == SubSeq(stack, 1, z - 1)
<1>6. /\ sizes[t] = 0 /\ Local!Take(t, n, s, after) /\ chunks' = chunks
      /\ stack' = under
  BY <1>3, <1>5 DEF Local!AllocateBucket, Local!Last, Local!Front
<1>7. s \in 1 .. BucketSize /\ after \in [Local!Nodes -> Local!Address] /\ chunks' \in 0 .. Chunks
  BY <1>2, <1>4, <1>5, <1>6 DEF Local!Bucket, Local!TypeOK
<1>8. s \in 1 .. 2 * BucketSize - 1 /\ ~(s - 1 >= BucketSize)
  BY <1>7 DEF Local!ThreadLocalPoolAssumption
<1>9. /\ stack' \in Seq(Local!Bucket) /\ Len(stack') = z - 1
      /\ \A k \in 1 .. z - 1 : stack'[k] = stack[k]
  <2>1. under \in Seq(Local!Bucket) /\ Len(under) = z - 1 /\ \A k \in 1 .. z - 1 : under[k] = stack[k]
    BY <1>3, <1>4
  <2>2. QED
    BY <1>6, <2>1
<1>10. C \in Seq(Seq(Local!Nodes)) /\ Len(C) = z /\ L \in [LocalThreads -> Seq(Local!Nodes)] /\ C[z] \in Seq(Local!Nodes)
  BY <1>1, <1>3, <1>4 DEF Kept
<1>11. PICK D : D = SubSeq(C, 1, z - 1)
  OBVIOUS
<1>12. D \in Seq(Seq(Local!Nodes)) /\ Len(D) = z - 1 /\ \A k \in 1 .. z - 1 : D[k] = C[k]
  BY <1>4, <1>10, <1>11
<1>13. PICK M : M = [L EXCEPT ![t] = C[z]]
  OBVIOUS
<1>14. M \in [LocalThreads -> Seq(Local!Nodes)] /\ M[t] = C[z] /\ \A u \in LocalThreads : u # t => M[u] = L[u]
  BY <1>10, <1>13
<1>15. Elems(L[t]) = {}
  <2>1. Len(L[t]) = 0
    BY <1>1, <1>6 DEF Kept, IsChain
  <2>2. QED
    BY <2>1 DEF Elems
<1>16. Apart(M, D, used, Local!Taken')
  <2>1. PICK U, T : U = used /\ T = Local!Taken
    OBVIOUS
  <2>2. Apart(L, C, U, T)
    BY <1>1, <2>1 DEF Kept
  <2>3. Len(C) \in Nat /\ Len(C) > 0 /\ M[t] = C[Len(C)] /\ Len(D) = Len(C) - 1 /\ \A k \in 1 .. Len(D) : D[k] = C[k]
    BY <1>4, <1>10, <1>12, <1>14
  <2>4. Len(C) \in Nat /\ Len(C) > 0 /\ Len(D) = Len(C) - 1
    BY <2>3
  <2>5. M[t] = C[Len(C)]
    BY <2>3
  <2>6. \A k \in 1 .. Len(D) : D[k] = C[k]
    BY <2>3
  <2>7. \A u \in LocalThreads : u # t => M[u] = L[u]
    BY <1>14
  <2>8. Apart(M, D, U, T)
    BY <1>15, <2>2, <2>4, <2>5, <2>6, <2>7, ApartPop
  <2>9. Local!Taken' = T
    BY <1>6, <2>1 DEF Local!Taken, Local!Nodes
  <2>10. QED
    BY <2>1, <2>8, <2>9
<1>17. IsChain(after, M[t], n, s)
  <2>1. z \in 1 .. Len(stack)
    BY <1>3, <1>4
  <2>2. QED
    BY <1>1, <1>5, <1>14, <2>1 DEF Kept
<1>18. \A u \in LocalThreads : u # t =>
         /\ IsChain(after, M[u], heads[u], sizes[u])
         /\ sizes[u] >= BucketSize => break[u] = M[u][sizes[u] - BucketSize + 1]
  BY <1>1, <1>5, <1>14 DEF Kept
<1>19. \A k \in 1 .. Len(stack') : IsChain(after, D[k], stack'[k].value, stack'[k].size)
  <2>1. ASSUME NEW k \in 1 .. z - 1
        PROVE  IsChain(after, D[k], stack'[k].value, stack'[k].size)
    <3>1. k \in 1 .. Len(stack)
      BY <1>3, <1>4
    <3>2. stack'[k] = stack[k] /\ D[k] = C[k]
      BY <1>9, <1>12
    <3>3. QED
      BY <1>1, <1>5, <3>1, <3>2 DEF Kept
  <2>2. QED
    BY <1>9, <2>1
<1>20. Len(D) = Len(stack')
  BY <1>9, <1>12
<1>21. Complete(t, n, s, after, M, D)
  BY <1>7, <1>8, <1>9, <1>12, <1>14, <1>16, <1>17, <1>18, <1>19, <1>20 DEF Complete
<1>22. QED
  BY <1>2, <1>6, <1>7, <1>8, <1>21, TakeKeeps

\* Where the nodes of one more chunk lie.
LEMMA ChunkNodes ==
  ASSUME Local!ThreadLocalPoolAssumption, NEW c \in 0 .. Chunks, c < Chunks,
         NEW m, m = c * BucketSize
  PROVE  /\ m \in Nat /\ (c + 1) * BucketSize = m + BucketSize
         /\ m + BucketSize <= Chunks * BucketSize /\ Chunks * BucketSize \in Nat
<1>1. BucketSize \in Nat /\ Chunks \in Nat /\ c \in Nat /\ c + 1 <= Chunks
  BY DEF Local!ThreadLocalPoolAssumption
<1>2. PICK d \in Nat : Chunks = (c + 1) + d
  BY <1>1
<1>3. Chunks * BucketSize = (c + 1) * BucketSize + d * BucketSize
  BY <1>1, <1>2
<1>4. m \in Nat /\ (c + 1) * BucketSize = m + BucketSize /\ d * BucketSize \in Nat
  BY <1>1, <1>2
<1>5. QED
  BY <1>1, <1>3, <1>4

\* A thread whose list is empty and that finds no bucket gets a new chunk.
LEMMA ChunkKeeps ==
  ASSUME PoolIsKept, Local!ThreadLocalPoolAssumption, NEW t \in LocalThreads, Local!AllocateChunk(t)
  PROVE  PoolIsKept'
<1>1. PICK L, C : Kept(L, C)
  BY DEF PoolIsKept
<1>2. Local!TypeOK /\ BucketSize \in Nat \ {0}
  BY DEF PoolIsKept, Local!ThreadLocalPoolAssumption
<1>3. PICK m : m = chunks * BucketSize
  OBVIOUS
<1>4. /\ chunks \in 0 .. Chunks /\ chunks < Chunks /\ sizes[t] = 0 /\ stack' = stack
      /\ chunks' = chunks + 1 /\ chunks' \in 0 .. Chunks /\ stack \in Seq(Local!Bucket)
      /\ links \in [Local!Nodes -> Local!Address]
  BY <1>2 DEF Local!AllocateChunk, Local!TypeOK, Local!ThreadLocalPoolAssumption
<1>5. m \in Nat /\ m + BucketSize <= Chunks * BucketSize /\ Chunks * BucketSize \in Nat
  BY <1>3, <1>4, ChunkNodes
<1>6. chunks' * BucketSize = m + BucketSize
  <2>1. (chunks + 1) * BucketSize = m + BucketSize
    BY <1>3, <1>4, ChunkNodes
  <2>2. QED
    BY <1>4, <2>1
<1>7. PICK top \in Nat : top = Chunks * BucketSize
  BY <1>5
<1>8. Local!Nodes = 1 .. top /\ m + BucketSize <= top
  BY <1>5, <1>7 DEF Local!Nodes
<1>9. PICK T : T = Local!Taken
  OBVIOUS
<1>10. /\ T = {x \in 1 .. top : x <= m}
       /\ Local!Taken' = {x \in 1 .. top : x <= m + BucketSize}
  BY <1>3, <1>6, <1>7, <1>8, <1>9 DEF Local!Taken, Local!Nodes
<1>11. PICK after : after = [x \in Local!Nodes |-> IF x \in m + 1 .. m + 1 + BucketSize - 1
                               THEN IF x = m + 1 + BucketSize - 1 THEN NoNode ELSE x + 1
                               ELSE links[x]]
  OBVIOUS
<1>12. Local!Take(t, m + 1, BucketSize, after)
  BY <1>3, <1>11 DEF Local!AllocateChunk
<1>13. /\ after \in [Local!Nodes -> Local!Address]
       /\ \A x \in T : after[x] = links[x]
       /\ \A i \in 1 .. BucketSize - 1 : after[m + i] = m + (i + 1)
  <2>1. ASSUME NEW x \in Local!Nodes
        PROVE  after[x] \in Local!Address
    <3>1. CASE x \in m + 1 .. m + 1 + BucketSize - 1 /\ x # m + 1 + BucketSize - 1
      <4>1. after[x] = x + 1 /\ x + 1 \in 1 .. top
        BY <1>2, <1>5, <1>8, <1>11, <3>1
      <4>2. QED
        BY <1>8, <4>1 DEF Local!Address
    <3>2. CASE x \in m + 1 .. m + 1 + BucketSize - 1 /\ x = m + 1 + BucketSize - 1
      BY <1>11, <3>2 DEF Local!Address
    <3>3. CASE x \notin m + 1 .. m + 1 + BucketSize - 1
      <4>1. after[x] = links[x]
        BY <1>11, <3>3
      <4>2. QED
        BY <1>4, <4>1
    <3>4. QED
      BY <3>1, <3>2, <3>3
  <2>2. ASSUME NEW x \in T
        PROVE  after[x] = links[x]
    <3>1. x \in Local!Nodes /\ x \notin m + 1 .. m + 1 + BucketSize - 1
      BY <1>2, <1>5, <1>8, <1>10
    <3>2. QED
      BY <1>11, <3>1
  <2>3. ASSUME NEW i \in 1 .. BucketSize - 1
        PROVE  after[m + i] = m + (i + 1)
    <3>1. /\ m + i \in Local!Nodes /\ m + i \in m + 1 .. m + 1 + BucketSize - 1
          /\ m + i # m + 1 + BucketSize - 1 /\ (m + i) + 1 = m + (i + 1)
      BY <1>2, <1>5, <1>8
    <3>2. QED
      BY <1>11, <3>1
  <2>4. after = [x \in Local!Nodes |-> after[x]]
    BY <1>11
  <2>5. QED
    BY <2>1, <2>2, <2>3, <2>4
<1>14. PICK row : row = [i \in 1 .. BucketSize |-> m + i]
  OBVIOUS
<1>15. row \in Seq(Local!Nodes) /\ Len(row) = BucketSize /\ \A i \in 1 .. BucketSize : row[i] = m + i
  <2>1. \A i \in 1 .. BucketSize : m + i \in Local!Nodes
    BY <1>2, <1>5, <1>8
  <2>2. QED
    BY <1>2, <1>14, <2>1
<1>16. IsChain(after, row, m + 1, BucketSize)
  <2>1. ASSUME NEW i \in 1 .. BucketSize - 1
        PROVE  after[row[i]] = row[i + 1]
    <3>1. i \in 1 .. BucketSize /\ i + 1 \in 1 .. BucketSize
      BY <1>2
    <3>2. row[i] = m + i /\ row[i + 1] = m + (i + 1)
      BY <1>15, <3>1
    <3>3. QED
      BY <1>13, <3>2
  <2>2. row[1] = m + 1
    BY <1>2, <1>15
  <2>3. QED
    BY <1>15, <2>1, <2>2 DEF IsChain
<1>17. Once(row) /\ Elems(row) \intersect T = {} /\ Local!Taken' = T \union Elems(row)
  <2>1. Once(row)
    BY <1>2, <1>5, <1>15 DEF Once
  <2>2. \A x : x \in Elems(row) <=> x \in m + 1 .. m + BucketSize
    <3>1. ASSUME NEW x \in m + 1 .. m + BucketSize
          PROVE  x \in Elems(row)
      <4>1. x - m \in 1 .. BucketSize /\ m + (x - m) = x
        BY <1>2, <1>5
      <4>2. QED
        BY <1>15, <4>1 DEF Elems
    <3>2. ASSUME NEW x \in Elems(row)
          PROVE  x \in m + 1 .. m + BucketSize
      <4>1. PICK i \in 1 .. BucketSize : x = m + i
        BY <1>15 DEF Elems
      <4>2. QED
        BY <1>2, <1>5, <4>1
    <3>3. QED
      BY <3>1, <3>2
  <2>3. \A x : x \in T <=> x \in 1 .. m
    BY <1>2, <1>5, <1>8, <1>10
  <2>4. \A x : x \in Local!Taken' <=> x \in 1 .. m + BucketSize
    BY <1>2, <1>5, <1>8, <1>10
  <2>5. \A x : x \in 1 .. m + BucketSize <=> x \in 1 .. m \/ x \in m + 1 .. m + BucketSize
    BY <1>2, <1>5
  <2>6. \A x \in 1 .. m : x \notin m + 1 .. m + BucketSize
    BY <1>2, <1>5
  <2>7. Local!Taken' = T \union Elems(row)
    BY <2>2, <2>3, <2>4, <2>5
  <2>8. Elems(row) \intersect T = {}
    BY <2>2, <2>3, <2>6
  <2>9. QED
    BY <2>1, <2>7, <2>8
<1>18. L \in [LocalThreads -> Seq(Local!Nodes)] /\ C \in Seq(Seq(Local!Nodes)) /\ Len(C) = Len(stack')
  BY <1>1, <1>4 DEF Kept
<1>19. PICK M : M = [L EXCEPT ![t] = row]
  OBVIOUS
<1>20. M \in [LocalThreads -> Seq(Local!Nodes)] /\ M[t] = row /\ \A u \in LocalThreads : u # t => M[u] = L[u]
  BY <1>15, <1>18, <1>19
<1>21. PICK U : U = used
  OBVIOUS
<1>22. Apart(L, C, U, T)
  BY <1>1, <1>9, <1>21 DEF Kept
<1>23. Apart(M, C, used, Local!Taken')
  <2>1. Len(L[t]) = 0
    BY <1>1, <1>4 DEF Kept, IsChain
  <2>2. Elems(L[t]) = {}
    BY <2>1 DEF Elems
  <2>3. Once(M[t]) /\ Elems(M[t]) \intersect T = {}
    BY <1>17, <1>20
  <2>4. \A u \in LocalThreads : u # t => M[u] = L[u]
    BY <1>20
  <2>5. Apart(M, C, U, T \union Elems(M[t]))
    BY <1>22, <2>2, <2>3, <2>4, ApartChunk
  <2>6. QED
    BY <1>17, <1>20, <1>21, <2>5
<1>24. ASSUME NEW u \in LocalThreads, u # t
       PROVE  /\ IsChain(after, M[u], heads[u], sizes[u])
              /\ sizes[u] >= BucketSize => break[u] = M[u][sizes[u] - BucketSize + 1]
  <2>1. \A x \in Elems(L[u]) : after[x] = links[x]
    BY <1>13, <1>22 DEF Apart
  <2>2. IsChain(links, L[u], heads[u], sizes[u]) /\ sizes[u] \in Nat /\ M[u] = L[u]
    BY <1>1, <1>2, <1>20, <1>24 DEF Kept, Local!TypeOK
  <2>3. IsChain(after, L[u], heads[u], sizes[u])
    BY <2>1, <2>2, ChainStays
  <2>4. QED
    BY <1>1, <2>2, <2>3 DEF Kept
<1>25. ASSUME NEW k \in 1 .. Len(stack')
       PROVE  IsChain(after, C[k], stack'[k].value, stack'[k].size)
  <2>1. \A x \in Elems(C[k]) : after[x] = links[x]
    BY <1>13, <1>18, <1>22 DEF Apart
  <2>2. k \in 1 .. Len(stack) /\ stack'[k] = stack[k]
    BY <1>4
  <2>3. IsChain(links, C[k], stack[k].value, stack[k].size)
    BY <1>1, <2>2 DEF Kept
  <2>4. stack[k].size \in Nat
    <3>1. stack[k] \in Local!Bucket
      BY <1>4, <2>2
    <3>2. QED
      BY <3>1 DEF Local!Bucket
  <2>5. QED
    BY <2>1, <2>2, <2>3, <2>4, ChainStays
<1>26. BucketSize \in 1 .. 2 * BucketSize - 1 /\ ~(BucketSize - 1 >= BucketSize)
  BY <1>2
<1>27. Complete(t, m + 1, BucketSize, after, M, C)
  BY <1>4, <1>16, <1>18, <1>20, <1>23, <1>24, <1>25, <1>26 DEF Complete
<1>28. QED
  BY <1>2, <1>12, <1>13, <1>26, <1>27, TakeKeeps

\* C are the chains of the buckets.
Bins(after, C, buckets) ==
  /\ buckets \in Seq(Local!Bucket) /\ C \in Seq(Seq(Local!Nodes)) /\ Len(C) = Len(buckets)
  /\ \A k \in 1 .. Len(buckets) : IsChain(after, C[k], buckets[k].value, buckets[k].size)

\* A chain becomes the top bucket.
LEMMA PushChains ==
  ASSUME NEW after, NEW old, NEW C, Bins(after, C, old),
         NEW value \in Local!Nodes, NEW count \in 1 .. BucketSize,
         NEW upper, IsChain(after, upper, value, count),
         NEW new, new = OnTop(old, value, count), NEW D, D = After(C, upper)
  PROVE  /\ Bins(after, D, new)
         /\ Len(D) = Len(C) + 1 /\ D[Len(C) + 1] = upper
         /\ \A k \in 1 .. Len(C) : D[k] = C[k]
<1>1. /\ old \in Seq(Local!Bucket) /\ C \in Seq(Seq(Local!Nodes)) /\ Len(C) = Len(old)
      /\ \A k \in 1 .. Len(old) : IsChain(after, C[k], old[k].value, old[k].size)
  BY DEF Bins
<1> USE <1>1
<1>2. PICK g : g = Local!Give(value, count)
  OBVIOUS
<1>3. g \in Local!Bucket /\ g.value = value /\ g.size = count
  BY <1>2 DEF Local!Give, Local!Bucket
<1>4. PICK z \in Nat : z = Len(old) /\ z = Len(C)
  OBVIOUS
<1>5. new = Append(old, g) /\ D = Append(C, upper) /\ upper \in Seq(Local!Nodes)
  BY <1>2 DEF IsChain, OnTop, After
<1>6. /\ new \in Seq(Local!Bucket) /\ Len(new) = z + 1 /\ new[z + 1] = g
      /\ \A k \in 1 .. z : new[k] = old[k]
  BY <1>3, <1>4, <1>5
<1>7. /\ D \in Seq(Seq(Local!Nodes)) /\ Len(D) = z + 1 /\ D[z + 1] = upper
      /\ \A k \in 1 .. z : D[k] = C[k]
  BY <1>4, <1>5
<1>8. ASSUME NEW k \in 1 .. z + 1
      PROVE  IsChain(after, D[k], new[k].value, new[k].size)
  <2>1. CASE k = z + 1
    BY <1>3, <1>6, <1>7, <2>1
  <2>2. CASE k # z + 1
    <3>1. k \in 1 .. z
      BY <2>2
    <3>2. QED
      BY <1>4, <1>6, <1>7, <3>1
  <2>3. QED
    BY <2>1, <2>2
<1>9. \A k \in 1 .. Len(new) : IsChain(after, D[k], new[k].value, new[k].size)
  BY <1>6, <1>8
<1>10. QED
  BY <1>4, <1>6, <1>7, <1>9 DEF Bins

\* What the lists and the buckets are when a node has been put before the list of t:
\* N are the lists with it, and C the buckets.
Grown(t, n, N, C) ==
  /\ N \in [LocalThreads -> Seq(Local!Nodes)]
  /\ C \in Seq(Seq(Local!Nodes)) /\ Len(C) = Len(stack)
  /\ IsChain(links', N[t], n, sizes[t] + 1)
  /\ \A u \in LocalThreads : u # t => IsChain(links', N[u], heads[u], sizes[u])
  /\ \A k \in 1 .. Len(stack) : IsChain(links', C[k], stack[k].value, stack[k].size)
  /\ \A u \in LocalThreads : u # t => (sizes[u] >= BucketSize => break[u] = N[u][sizes[u] - BucketSize + 1])
  /\ sizes[t] >= BucketSize => break[t] = N[t][sizes[t] - BucketSize + 2]
  /\ Apart(N, C, used', Local!Taken')

\* A node that is given back is the first of the list of the thread.
LEMMA GrownByOne ==
  ASSUME PoolIsKept, Local!ThreadLocalPoolAssumption, NEW t \in LocalThreads, NEW n, Local!Deallocate(t, n)
  PROVE  \E N : \E C : Grown(t, n, N, C)
<1>1. PICK L, C : Kept(L, C)
  BY DEF PoolIsKept
<1>2. Local!TypeOK /\ BucketSize \in Nat \ {0}
  BY DEF PoolIsKept, Local!ThreadLocalPoolAssumption
<1>3. /\ n \in used /\ used' = used \ {n} /\ chunks' = chunks
      /\ links' = [links EXCEPT ![n] = heads[t]]
  BY DEF Local!Deallocate
<1>4. n \in Local!Nodes /\ links \in [Local!Nodes -> Local!Address] /\ stack \in Seq(Local!Bucket)
  BY <1>2, <1>3 DEF Local!TypeOK
<1>5. PICK U, T, after, h, s : /\ U = used /\ T = Local!Taken /\ after = links'
                               /\ h = heads[t] /\ s = sizes[t]
  OBVIOUS
<1>6. Apart(L, C, U, T) /\ Local!Taken' = T
  BY <1>1, <1>3, <1>5 DEF Kept, Local!Taken, Local!Nodes
<1>7. L \in [LocalThreads -> Seq(Local!Nodes)] /\ C \in Seq(Seq(Local!Nodes)) /\ Len(C) = Len(stack)
  BY <1>1 DEF Kept
<1>8. after[n] = h /\ \A x \in Local!Nodes : x # n => after[x] = links[x]
  BY <1>3, <1>4, <1>5
<1>9. \A u \in LocalThreads : \A x \in Elems(L[u]) : after[x] = links[x]
  <2>1. ASSUME NEW u \in LocalThreads, NEW x \in Elems(L[u])
        PROVE  after[x] = links[x]
    <3>1. x # n
      BY <1>3, <1>5, <1>6 DEF Apart
    <3>2. x \in Local!Nodes
      <4>1. L[u] \in Seq(Local!Nodes)
        BY <1>7
      <4>2. QED
        BY <4>1 DEF Elems
    <3>3. QED
      BY <1>8, <3>1, <3>2
  <2>2. QED
    BY <2>1
<1>10. ASSUME NEW u \in LocalThreads
       PROVE  IsChain(after, L[u], heads[u], sizes[u])
  <2>1. IsChain(links, L[u], heads[u], sizes[u]) /\ sizes[u] \in Nat
    BY <1>1, <1>2 DEF Kept, Local!TypeOK
  <2>2. \A x \in Elems(L[u]) : after[x] = links[x]
    BY <1>9
  <2>3. QED
    BY <2>1, <2>2, ChainStays
<1>11. ASSUME NEW k \in 1 .. Len(stack)
       PROVE  IsChain(after, C[k], stack[k].value, stack[k].size)
  <2>1. IsChain(links, C[k], stack[k].value, stack[k].size) /\ k \in 1 .. Len(C)
    BY <1>1 DEF Kept
  <2>2. stack[k].size \in Nat
    <3>1. stack[k] \in Local!Bucket
      BY <1>4
    <3>2. QED
      BY <3>1 DEF Local!Bucket
  <2>3. \A x \in Elems(C[k]) : x # n /\ x \in Local!Nodes
    <3>1. n \notin Elems(C[k])
      BY <1>3, <1>5, <1>6, <2>1 DEF Apart
    <3>2. C[k] \in Seq(Local!Nodes)
      BY <1>7, <2>1
    <3>3. QED
      BY <3>1, <3>2 DEF Elems
  <2>4. \A x \in Elems(C[k]) : after[x] = links[x]
    BY <1>8, <2>3
  <2>5. QED
    BY <2>1, <2>2, <2>4, ChainStays
<1>12. PICK c, d : c = L[t] /\ d = Before(n, c)
  OBVIOUS
<1>13. s \in Nat /\ IsChain(after, c, h, s) /\ Once(c) /\ n \notin Elems(c) /\ c \in Seq(Local!Nodes)
  <2>1. s \in Nat
    BY <1>2, <1>5 DEF Local!TypeOK
  <2>2. IsChain(after, c, h, s)
    BY <1>5, <1>10, <1>12
  <2>3. Once(c)
    BY <1>6, <1>12 DEF Apart
  <2>4. n \notin Elems(c)
    BY <1>3, <1>5, <1>6, <1>12 DEF Apart
  <2>5. c \in Seq(Local!Nodes)
    BY <1>7, <1>12
  <2>6. QED
    BY <2>1, <2>2, <2>3, <2>4, <2>5
<1>14. /\ IsChain(after, d, n, s + 1) /\ Elems(d) = Elems(c) \union {n} /\ Once(d)
       /\ \A i \in 1 .. s : d[i + 1] = c[i]
  <2>1. s \in Nat /\ n \in Local!Nodes
    BY <1>4, <1>13
  <2>2. IsChain(after, c, h, s)
    BY <1>13
  <2>3. Once(c) /\ n \notin Elems(c)
    BY <1>13
  <2>4. after[n] = h
    BY <1>8
  <2>5. d = Before(n, c)
    BY <1>12
  <2>6. QED
    BY <2>1, <2>2, <2>3, <2>4, <2>5, ChainCons
<1>15. PICK N : N = [L EXCEPT ![t] = d]
  OBVIOUS
<1>16. N \in [LocalThreads -> Seq(Local!Nodes)] /\ N[t] = d /\ \A u \in LocalThreads : u # t => N[u] = L[u]
  BY <1>7, <1>14, <1>15 DEF IsChain
<1>17. Apart(N, C, used', Local!Taken')
  <2>1. n \in U
    BY <1>3, <1>5
  <2>2. Once(N[t]) /\ Elems(N[t]) = Elems(L[t]) \union {n}
    BY <1>12, <1>14, <1>16
  <2>3. \A u \in LocalThreads : u # t => N[u] = L[u]
    BY <1>16
  <2>4. Apart(L, C, U, T)
    BY <1>6
  <2>5. Apart(N, C, U \ {n}, T)
    BY <2>1, <2>2, <2>3, <2>4, ApartGive
  <2>6. QED
    BY <1>3, <1>5, <1>6, <2>5
<1>18. sizes[t] >= BucketSize => break[t] = N[t][sizes[t] - BucketSize + 2]
  <2>1. SUFFICES ASSUME s >= BucketSize
                 PROVE  break[t] = N[t][s - BucketSize + 2]
    BY <1>5
  <2>2. break[t] = c[s - BucketSize + 1]
    BY <1>1, <1>5, <1>12, <2>1 DEF Kept
  <2>3. s - BucketSize + 1 \in 1 .. s /\ (s - BucketSize + 1) + 1 = s - BucketSize + 2
    BY <1>2, <1>13, <2>1
  <2>4. QED
    BY <1>14, <1>16, <2>2, <2>3
<1>19. \A u \in LocalThreads : u # t => (sizes[u] >= BucketSize => break[u] = N[u][sizes[u] - BucketSize + 1])
  BY <1>1, <1>16 DEF Kept
<1>20. Grown(t, n, N, C)
  BY <1>5, <1>7, <1>10, <1>11, <1>14, <1>16, <1>17, <1>18, <1>19 DEF Grown
<1>21. QED
  BY <1>20

\* A thread gives a node back and keeps its list.
LEMMA GiveKeeps ==
  ASSUME PoolIsKept, Local!ThreadLocalPoolAssumption, NEW t \in LocalThreads, NEW n, Local!Deallocate(t, n),
         sizes[t] + 1 # 2 * BucketSize
  PROVE  PoolIsKept'
<1>1. PICK N, C : Grown(t, n, N, C)
  BY GrownByOne
<1>2. Local!TypeOK /\ BucketSize \in Nat \ {0}
  BY DEF PoolIsKept, Local!ThreadLocalPoolAssumption
<1>3. /\ n \in used /\ used' = used \ {n} /\ chunks' = chunks /\ stack' = stack
      /\ links' = [links EXCEPT ![n] = heads[t]]
      /\ heads' = [heads EXCEPT ![t] = n] /\ sizes' = [sizes EXCEPT ![t] = sizes[t] + 1]
      /\ break' = IF sizes[t] + 1 = BucketSize THEN [break EXCEPT ![t] = n] ELSE break
  BY DEF Local!Deallocate
<1>4. n \in Local!Nodes /\ n \in Local!Address /\ sizes[t] + 1 \in 0 .. 2 * BucketSize - 1 /\ sizes[t] \in Nat
  <2>1. n \in Local!Nodes /\ n \in Local!Address
    BY <1>2, <1>3 DEF Local!TypeOK, Local!Address
  <2>2. sizes[t] \in 0 .. 2 * BucketSize - 1
    BY <1>2 DEF Local!TypeOK
  <2>3. sizes[t] + 1 \in 0 .. 2 * BucketSize - 1 /\ sizes[t] \in Nat
    BY <1>2, <2>2
  <2>4. QED
    BY <2>1, <2>3
<1>5. Local!TypeOK'
  <2>1. heads' \in [LocalThreads -> Local!Address] /\ sizes' \in [LocalThreads -> 0 .. 2 * BucketSize - 1]
    BY <1>2, <1>3, <1>4 DEF Local!TypeOK
  <2>2. break' \in [LocalThreads -> Local!Address]
    BY <1>2, <1>3, <1>4 DEF Local!TypeOK
  <2>3. links' \in [Local!Nodes -> Local!Address]
    BY <1>2, <1>3 DEF Local!TypeOK
  <2>4. stack' \in Seq(Local!Bucket) /\ chunks' \in 0 .. Chunks /\ used' \subseteq Local!Nodes
    BY <1>2, <1>3 DEF Local!TypeOK
  <2>5. QED
    BY <2>1, <2>2, <2>3, <2>4 DEF Local!TypeOK
<1>6. heads'[t] = n /\ sizes'[t] = sizes[t] + 1
  BY <1>2, <1>3 DEF Local!TypeOK
<1>7. \A u \in LocalThreads : u # t => heads'[u] = heads[u] /\ sizes'[u] = sizes[u] /\ break'[u] = break[u]
  BY <1>2, <1>3 DEF Local!TypeOK
<1>8. ASSUME NEW u \in LocalThreads
      PROVE  IsChain(links', N[u], heads'[u], sizes'[u])
  <2>1. CASE u = t
    BY <1>1, <1>6, <2>1 DEF Grown
  <2>2. CASE u # t
    BY <1>1, <1>7, <2>2 DEF Grown
  <2>3. QED
    BY <2>1, <2>2
<1>9. ASSUME NEW u \in LocalThreads, sizes'[u] >= BucketSize
      PROVE  break'[u] = N[u][sizes'[u] - BucketSize + 1]
  <2>1. CASE u # t
    BY <1>1, <1>7, <1>9, <2>1 DEF Grown
  <2>2. CASE u = t /\ sizes[t] + 1 = BucketSize
    <3>1. break'[t] = n /\ sizes'[t] - BucketSize + 1 = 1
      BY <1>2, <1>3, <1>4, <1>6, <2>2 DEF Local!TypeOK
    <3>2. N[t][1] = n
      BY <1>1, <1>4 DEF Grown, IsChain
    <3>3. QED
      BY <2>2, <3>1, <3>2
  <2>3. CASE u = t /\ sizes[t] + 1 # BucketSize
    <3>1. break'[t] = break[t] /\ sizes[t] >= BucketSize
      BY <1>2, <1>3, <1>4, <1>6, <1>9, <2>3
    <3>2. break[t] = N[t][sizes[t] - BucketSize + 2]
      BY <1>1, <3>1 DEF Grown
    <3>3. sizes'[t] - BucketSize + 1 = sizes[t] - BucketSize + 2
      BY <1>2, <1>4, <1>6
    <3>4. QED
      BY <2>3, <3>1, <3>2, <3>3
  <2>4. QED
    BY <2>1, <2>2, <2>3
<1>10. \A k \in 1 .. Len(stack') : IsChain(links', C[k], stack'[k].value, stack'[k].size)
  BY <1>1, <1>3 DEF Grown
<1>11. Kept(N, C)'
  BY <1>1, <1>3, <1>8, <1>9, <1>10 DEF Grown, Kept
<1>12. QED
  BY <1>5, <1>11 DEF PoolIsKept

\* A thread gives a node back and the upper half of its list becomes a bucket.
LEMMA SpillKeeps ==
  ASSUME PoolIsKept, Local!ThreadLocalPoolAssumption, NEW t \in LocalThreads, NEW n, Local!Deallocate(t, n),
         sizes[t] + 1 = 2 * BucketSize
  PROVE  PoolIsKept'
<1>1. PICK N, C : Grown(t, n, N, C)
  BY GrownByOne
<1>2. Local!TypeOK /\ BucketSize \in Nat \ {0}
  BY DEF PoolIsKept, Local!ThreadLocalPoolAssumption
<1> DEFINE more == Append(stack, Local!Give(n, BucketSize))
<1>3. /\ n \in used /\ used' = used \ {n} /\ chunks' = chunks /\ stack' = more
      /\ links' = [links EXCEPT ![n] = heads[t]]
      /\ heads' = [heads EXCEPT ![t] = break[t]] /\ sizes' = [sizes EXCEPT ![t] = BucketSize]
      /\ break' = break
  BY DEF Local!Deallocate
<1>4. n \in Local!Nodes /\ sizes[t] \in 0 .. 2 * BucketSize - 1 /\ break[t] \in Local!Address
  BY <1>2, <1>3 DEF Local!TypeOK
<1>5. BucketSize \in 0 .. 2 * BucketSize - 1 /\ BucketSize \in 1 .. BucketSize /\ BucketSize \in 1 .. 2 * BucketSize - 1
  BY <1>2
<1>6. PICK d, after, s : d = N[t] /\ after = links' /\ s = 2 * BucketSize
  OBVIOUS
<1>7. s \in Nat /\ BucketSize \in 1 .. s - 1 /\ s - BucketSize = BucketSize
  BY <1>2, <1>6
<1>8. IsChain(after, d, n, s) /\ Once(d)
  <2>1. sizes[t] + 1 = s
    BY <1>6
  <2>2. QED
    BY <1>1, <1>6, <2>1 DEF Grown, Apart
<1>9. PICK upper, lower : upper = SubSeq(d, 1, BucketSize) /\ lower = SubSeq(d, BucketSize + 1, s)
  OBVIOUS
<1>10. /\ IsChain(after, upper, n, BucketSize) /\ IsChain(after, lower, d[BucketSize + 1], s - BucketSize)
       /\ Once(upper) /\ Once(lower)
       /\ Elems(upper) \intersect Elems(lower) = {}
       /\ Elems(upper) \union Elems(lower) = Elems(d)
  BY <1>7, <1>8, <1>9, ChainCut
<1>11. d[BucketSize + 1] = break[t]
  <2>1. sizes[t] >= BucketSize /\ sizes[t] - BucketSize + 2 = BucketSize + 1
    BY <1>2, <1>4
  <2>2. QED
    BY <1>1, <1>6, <2>1 DEF Grown
<1>12. IsChain(after, lower, break[t], BucketSize) /\ lower \in Seq(Local!Nodes) /\ lower[1] = break[t]
  BY <1>2, <1>7, <1>10, <1>11 DEF IsChain
<1>13. PICK M : M = [N EXCEPT ![t] = lower]
  OBVIOUS
<1>14. N \in [LocalThreads -> Seq(Local!Nodes)]
  BY <1>1 DEF Grown
<1>15. M \in [LocalThreads -> Seq(Local!Nodes)] /\ M[t] = lower /\ \A u \in LocalThreads : u # t => M[u] = N[u]
  BY <1>12, <1>13, <1>14
<1>16. PICK old, new, D : old = stack /\ new = OnTop(old, n, BucketSize) /\ D = After(C, upper)
  OBVIOUS
<1>17. old \in Seq(Local!Bucket) /\ C \in Seq(Seq(Local!Nodes)) /\ Len(C) = Len(old)
  BY <1>1, <1>2, <1>16 DEF Local!TypeOK, Grown
<1>18. \A k \in 1 .. Len(old) : IsChain(after, C[k], old[k].value, old[k].size)
  BY <1>1, <1>6, <1>16 DEF Grown
<1>19. new = OnTop(old, n, BucketSize) /\ D = After(C, upper)
  BY <1>16
<1>20. /\ Bins(after, D, new) /\ Len(D) = Len(C) + 1 /\ D[Len(C) + 1] = upper
       /\ \A k \in 1 .. Len(C) : D[k] = C[k]
  <2>1. n \in Local!Nodes /\ BucketSize \in 1 .. BucketSize
    BY <1>4, <1>5
  <2>2. IsChain(after, upper, n, BucketSize)
    BY <1>10
  <2>3. Bins(after, C, old)
    BY <1>17, <1>18 DEF Bins
  <2>4. QED
    BY <1>19, <2>1, <2>2, <2>3, PushChains
<1>21. stack' = new
  BY <1>3, <1>16 DEF OnTop
<1>22. Apart(M, D, used', Local!Taken')
  <2>1. PICK U, T : U = used' /\ T = Local!Taken'
    OBVIOUS
  <2>2. Apart(N, C, U, T)
    BY <1>1, <2>1 DEF Grown
  <2>3. Once(M[t]) /\ Elems(upper) \intersect Elems(M[t]) = {}
    BY <1>10, <1>15
  <2>4. Elems(upper) \union Elems(M[t]) = Elems(N[t])
    BY <1>6, <1>10, <1>15
  <2>5. Len(C) \in Nat
    BY <1>17
  <2>6. \A u \in LocalThreads : u # t => M[u] = N[u]
    BY <1>15
  <2>7. Len(D) = Len(C) + 1 /\ D[Len(C) + 1] = upper
    BY <1>20
  <2>8. \A k \in 1 .. Len(C) : D[k] = C[k]
    BY <1>20
  <2>9. Once(upper)
    BY <1>10
  <2>10. Apart(M, D, U, T)
    BY <2>2, <2>3, <2>4, <2>5, <2>6, <2>7, <2>8, <2>9, ApartPush
  <2>11. QED
    BY <2>1, <2>10
<1>23. Local!TypeOK'
  <2>1. heads' \in [LocalThreads -> Local!Address] /\ sizes' \in [LocalThreads -> 0 .. 2 * BucketSize - 1]
    BY <1>2, <1>3, <1>4, <1>5 DEF Local!TypeOK
  <2>2. break' \in [LocalThreads -> Local!Address] /\ links' \in [Local!Nodes -> Local!Address]
    BY <1>2, <1>3 DEF Local!TypeOK
  <2>3. stack' \in Seq(Local!Bucket) /\ chunks' \in 0 .. Chunks /\ used' \subseteq Local!Nodes
    BY <1>2, <1>3, <1>20, <1>21 DEF Local!TypeOK, Bins
  <2>4. QED
    BY <2>1, <2>2, <2>3 DEF Local!TypeOK
<1>24. heads'[t] = break[t] /\ sizes'[t] = BucketSize
  BY <1>2, <1>3 DEF Local!TypeOK
<1>25. \A u \in LocalThreads : u # t => heads'[u] = heads[u] /\ sizes'[u] = sizes[u]
  BY <1>2, <1>3 DEF Local!TypeOK
<1>26. ASSUME NEW u \in LocalThreads
       PROVE  IsChain(links', M[u], heads'[u], sizes'[u])
  <2>1. CASE u = t
    BY <1>6, <1>12, <1>15, <1>24, <2>1
  <2>2. CASE u # t
    <3>1. IsChain(links', N[u], heads[u], sizes[u])
      BY <1>1, <2>2 DEF Grown
    <3>2. QED
      BY <1>15, <1>25, <2>2, <3>1
  <2>3. QED
    BY <2>1, <2>2
<1>27. ASSUME NEW u \in LocalThreads, sizes'[u] >= BucketSize
       PROVE  break'[u] = M[u][sizes'[u] - BucketSize + 1]
  <2>1. CASE u = t
    <3>1. sizes'[t] - BucketSize + 1 = 1
      BY <1>2, <1>24
    <3>2. QED
      BY <1>3, <1>12, <1>15, <2>1, <3>1
  <2>2. CASE u # t
    <3>1. break[u] = N[u][sizes[u] - BucketSize + 1]
      BY <1>1, <1>25, <1>27, <2>2 DEF Grown
    <3>2. QED
      BY <1>3, <1>15, <1>25, <2>2, <3>1
  <2>3. QED
    BY <2>1, <2>2
<1>28. \A k \in 1 .. Len(stack') : IsChain(links', D[k], stack'[k].value, stack'[k].size)
  BY <1>6, <1>20, <1>21 DEF Bins
<1>29. Kept(M, D)'
  BY <1>15, <1>20, <1>21, <1>22, <1>26, <1>27, <1>28 DEF Kept, Bins
<1>30. QED
  BY <1>23, <1>29 DEF PoolIsKept

\* A thread ends: its list becomes one bucket or two.
LEMMA ExitKeeps ==
  ASSUME PoolIsKept, Local!ThreadLocalPoolAssumption, NEW t \in LocalThreads, Local!Exit(t)
  PROVE  PoolIsKept'
<1>1. PICK L, C : Kept(L, C)
  BY DEF PoolIsKept
<1>2. Local!TypeOK /\ BucketSize \in Nat \ {0}
  BY DEF PoolIsKept, Local!ThreadLocalPoolAssumption
<1> DEFINE upperGiven == IF sizes[t] > BucketSize THEN <<Local!Give(heads[t], sizes[t] - BucketSize)>> ELSE <<>>
           lowerGiven == IF sizes[t] > BucketSize THEN <<Local!Give(break[t], BucketSize)>>
                         ELSE IF sizes[t] > 0 THEN <<Local!Give(heads[t], sizes[t])>> ELSE <<>>
<1>3. stack' = stack \o upperGiven \o lowerGiven
  BY DEF Local!Exit
<1>4. /\ chunks' = chunks /\ links' = links /\ used' = used
      /\ heads' = [heads EXCEPT ![t] = NoNode] /\ sizes' = [sizes EXCEPT ![t] = 0]
      /\ break' = [break EXCEPT ![t] = NoNode]
  BY DEF Local!Exit
<1>5. PICK c, s, old, after, U, T : /\ c = L[t] /\ s = sizes[t] /\ old = stack /\ after = links
                                    /\ U = used /\ T = Local!Taken
  OBVIOUS
<1>6. L \in [LocalThreads -> Seq(Local!Nodes)] /\ C \in Seq(Seq(Local!Nodes)) /\ Len(C) = Len(old)
  BY <1>1, <1>5 DEF Kept
<1>7. s \in 0 .. 2 * BucketSize - 1 /\ old \in Seq(Local!Bucket)
  BY <1>2, <1>5 DEF Local!TypeOK
<1>8. IsChain(after, c, heads[t], s) /\ c \in Seq(Local!Nodes) /\ Len(c) = s
  BY <1>1, <1>5, <1>6 DEF Kept, IsChain
<1>9. s > 0 => heads[t] \in Local!Nodes
  BY <1>7, <1>8 DEF IsChain
<1>10. Apart(L, C, U, T) /\ Once(c)
  BY <1>1, <1>5 DEF Kept, Apart
<1>11. Bins(after, C, old)
  BY <1>1, <1>5, <1>6, <1>7 DEF Kept, Bins
<1>12. PICK M : M = [L EXCEPT ![t] = <<>>]
  OBVIOUS
<1>13. M \in [LocalThreads -> Seq(Local!Nodes)] /\ M[t] = <<>> /\ \A u \in LocalThreads : u # t => M[u] = L[u]
  BY <1>6, <1>12
<1>14. Elems(<<>>) = {} /\ Once(<<>>)
  BY DEF Elems, Once
<1>15. ASSUME NEW new, stack' = new, NEW D, Bins(after, D, new), Apart(M, D, U, T)
       PROVE  PoolIsKept'
  <2>1. /\ new \in Seq(Local!Bucket) /\ D \in Seq(Seq(Local!Nodes)) /\ Len(D) = Len(new)
        /\ \A k \in 1 .. Len(new) : IsChain(after, D[k], new[k].value, new[k].size)
    BY <1>15 DEF Bins
  <2>2. Local!TypeOK'
    <3>1. NoNode \in Local!Address /\ 0 \in 0 .. 2 * BucketSize - 1
      BY <1>2 DEF Local!Address
    <3>2. heads' \in [LocalThreads -> Local!Address] /\ break' \in [LocalThreads -> Local!Address]
      BY <1>2, <1>4, <3>1 DEF Local!TypeOK
    <3>3. sizes' \in [LocalThreads -> 0 .. 2 * BucketSize - 1]
      BY <1>2, <1>4, <3>1 DEF Local!TypeOK
    <3>4. links' \in [Local!Nodes -> Local!Address] /\ chunks' \in 0 .. Chunks /\ used' \subseteq Local!Nodes
      BY <1>2, <1>4 DEF Local!TypeOK
    <3>5. stack' \in Seq(Local!Bucket)
      BY <1>15, <2>1
    <3>6. QED
      BY <3>2, <3>3, <3>4, <3>5 DEF Local!TypeOK
  <2>3. sizes'[t] = 0 /\ \A u \in LocalThreads : u # t => /\ heads'[u] = heads[u] /\ sizes'[u] = sizes[u]
                                                     /\ break'[u] = break[u]
    BY <1>2, <1>4 DEF Local!TypeOK
  <2>4. ASSUME NEW u \in LocalThreads
        PROVE  IsChain(links', M[u], heads'[u], sizes'[u])
    <3>1. CASE u = t
      <4>1. IsChain(links', <<>>, heads'[t], 0)
        BY DEF IsChain
      <4>2. QED
        BY <1>13, <2>3, <3>1, <4>1
    <3>2. CASE u # t
      BY <1>1, <1>4, <1>13, <2>3, <3>2 DEF Kept
    <3>3. QED
      BY <3>1, <3>2
  <2>5. ASSUME NEW u \in LocalThreads, sizes'[u] >= BucketSize
        PROVE  break'[u] = M[u][sizes'[u] - BucketSize + 1]
    <3>1. u # t
      BY <1>2, <2>3, <2>5
    <3>2. QED
      BY <1>1, <1>13, <2>3, <2>5, <3>1 DEF Kept
  <2>6. Local!Taken' = T
    BY <1>4, <1>5 DEF Local!Taken, Local!Nodes
  <2>7. \A k \in 1 .. Len(stack') : IsChain(links', D[k], stack'[k].value, stack'[k].size)
    BY <1>4, <1>5, <1>15, <2>1
  <2>8. Kept(M, D)'
    BY <1>4, <1>5, <1>13, <1>15, <2>4, <2>5, <2>6, <2>7, <2>1 DEF Kept
  <2>9. QED
    BY <2>2, <2>8 DEF PoolIsKept
<1>16. CASE s = 0
  <2>1. stack' = old
    <3>1. stack' = stack \o <<>> \o <<>>
      <4>1. upperGiven = <<>> /\ lowerGiven = <<>>
        BY <1>2, <1>5, <1>16
      <4> HIDE DEF upperGiven, lowerGiven
      <4>2. QED
        BY <1>3, <4>1
    <3>2. old \o <<>> \o <<>> = old
      BY <1>7
    <3>3. QED
      BY <1>5, <3>1, <3>2
  <2>2. M = L
    <3>1. L[t] = <<>>
      BY <1>5, <1>8, <1>16
    <3>2. QED
      BY <1>6, <1>12, <3>1
  <2>3. QED
    BY <1>6, <1>7, <1>10, <1>11, <1>15, <2>1, <2>2
<1>17. CASE s > 0 /\ s <= BucketSize
  <2>1. PICK new, D : new = OnTop(old, heads[t], s) /\ D = After(C, c)
    OBVIOUS
  <2>2. stack' = new
    <3>1. stack' = stack \o <<>> \o <<Local!Give(heads[t], s)>>
      <4>1. upperGiven = <<>> /\ lowerGiven = <<Local!Give(heads[t], s)>>
        BY <1>2, <1>5, <1>7, <1>17
      <4> HIDE DEF upperGiven, lowerGiven
      <4>2. QED
        BY <1>3, <4>1
    <3>2. old \o <<>> \o <<Local!Give(heads[t], s)>> = Append(old, Local!Give(heads[t], s))
      BY <1>7
    <3>3. QED
      BY <1>5, <2>1, <3>1, <3>2 DEF OnTop
  <2>3. PICK value : value = heads[t]
    OBVIOUS
  <2>4. value \in Local!Nodes /\ s \in 1 .. BucketSize
    BY <1>7, <1>9, <1>17, <2>3
  <2>5. IsChain(after, c, value, s)
    BY <1>8, <2>3
  <2>6. new = OnTop(old, value, s) /\ D = After(C, c)
    BY <2>1, <2>3
  <2>7. /\ Bins(after, D, new) /\ Len(D) = Len(C) + 1 /\ D[Len(C) + 1] = c
        /\ \A k \in 1 .. Len(C) : D[k] = C[k]
    BY <1>11, <2>4, <2>5, <2>6, PushChains
  <2>8. Apart(M, D, U, T)
    <3>1. Once(c) /\ Once(M[t]) /\ Elems(c) \intersect Elems(M[t]) = {}
      BY <1>10, <1>13, <1>14
    <3>2. Elems(c) \union Elems(M[t]) = Elems(L[t])
      BY <1>5, <1>13, <1>14
    <3>3. \A u \in LocalThreads : u # t => M[u] = L[u]
      BY <1>13
    <3>4. Len(C) \in Nat
      BY <1>6
    <3>5. Len(D) = Len(C) + 1 /\ D[Len(C) + 1] = c
      BY <2>7
    <3>6. \A k \in 1 .. Len(C) : D[k] = C[k]
      BY <2>7
    <3>7. Apart(L, C, U, T)
      BY <1>10
    <3>8. QED
      BY <3>1, <3>2, <3>3, <3>4, <3>5, <3>6, <3>7, ApartPush
  <2>9. QED
    BY <1>15, <2>2, <2>7, <2>8
<1>18. CASE s > BucketSize
  <2>1. PICK m : m = s - BucketSize
    OBVIOUS
  <2>2. /\ s \in Nat /\ m \in 1 .. s - 1 /\ s - m = BucketSize
        /\ m \in 1 .. BucketSize /\ BucketSize \in 1 .. BucketSize
    BY <1>2, <1>7, <1>18, <2>1
  <2>3. PICK upper, lower : upper = SubSeq(c, 1, m) /\ lower = SubSeq(c, m + 1, s)
    OBVIOUS
  <2>4. PICK value, middle : value = heads[t] /\ middle = break[t]
    OBVIOUS
  <2>5. IsChain(after, c, value, s) /\ Once(c)
    BY <1>8, <1>10, <2>4
  <2>6. /\ IsChain(after, upper, value, m) /\ IsChain(after, lower, c[m + 1], s - m)
        /\ Once(upper) /\ Once(lower)
        /\ Elems(upper) \intersect Elems(lower) = {}
        /\ Elems(upper) \union Elems(lower) = Elems(c)
    BY <2>2, <2>3, <2>5, ChainCut
  <2>7. c[m + 1] = middle /\ middle \in Local!Nodes
    <3>1. break[t] = c[s - BucketSize + 1]
      <4>1. s >= BucketSize
        BY <1>2, <1>7, <1>18
      <4>2. sizes[t] >= BucketSize => break[t] = L[t][sizes[t] - BucketSize + 1]
        BY <1>1 DEF Kept
      <4>3. QED
        BY <1>5, <4>1, <4>2
    <3>2. m + 1 \in 1 .. Len(c)
      BY <1>8, <2>2
    <3>3. c[m + 1] = middle
      BY <2>1, <2>4, <3>1
    <3>4. QED
      BY <1>8, <3>2, <3>3
  <2>8. IsChain(after, lower, middle, BucketSize)
    BY <2>2, <2>6, <2>7
  <2>9. PICK one, new, E, D : /\ one = OnTop(old, value, m) /\ E = After(C, upper)
                              /\ new = OnTop(one, middle, BucketSize) /\ D = After(E, lower)
    OBVIOUS
  <2>10. value \in Local!Nodes
    <3>1. s > 0
      BY <1>2, <1>7, <1>18
    <3>2. QED
      BY <1>9, <2>4, <3>1
  <2>11. /\ Bins(after, E, one) /\ Len(E) = Len(C) + 1 /\ E[Len(C) + 1] = upper
         /\ \A k \in 1 .. Len(C) : E[k] = C[k]
    <3>1. m \in 1 .. BucketSize
      BY <2>2
    <3>2. IsChain(after, upper, value, m)
      BY <2>6
    <3>3. one = OnTop(old, value, m) /\ E = After(C, upper)
      BY <2>9
    <3>4. QED
      BY <1>11, <2>10, <3>1, <3>2, <3>3, PushChains
  <2>12. /\ Bins(after, D, new) /\ Len(D) = Len(E) + 1 /\ D[Len(E) + 1] = lower
         /\ \A k \in 1 .. Len(E) : D[k] = E[k]
    <3>1. Bins(after, E, one)
      BY <2>11
    <3>2. middle \in Local!Nodes /\ BucketSize \in 1 .. BucketSize
      BY <2>2, <2>7
    <3>3. new = OnTop(one, middle, BucketSize) /\ D = After(E, lower)
      BY <2>9
    <3>4. QED
      BY <2>8, <3>1, <3>2, <3>3, PushChains
  <2>13. stack' = new
    <3>1. stack' = stack \o <<Local!Give(heads[t], s - BucketSize)>> \o <<Local!Give(break[t], BucketSize)>>
      BY <1>5, <1>18, <1>3
    <3>2. PICK g, h : g = Local!Give(value, m) /\ h = Local!Give(middle, BucketSize)
      OBVIOUS
    <3>3. g \in Local!Bucket /\ h \in Local!Bucket
      BY <2>2, <2>7, <2>10, <3>2 DEF Local!Give, Local!Bucket
    <3>4. old \o <<g>> \o <<h>> = Append(Append(old, g), h)
      BY <1>7, <3>3
    <3>5. QED
      BY <1>5, <2>1, <2>4, <2>9, <3>1, <3>2, <3>4 DEF OnTop
  <2>14. PICK K : K = [L EXCEPT ![t] = lower]
    OBVIOUS
  <2>15. K[t] = lower /\ \A u \in LocalThreads : u # t => K[u] = L[u]
    BY <1>6, <2>14
  <2>16. Apart(K, E, U, T)
    <3>1. Once(upper) /\ Once(K[t]) /\ Elems(upper) \intersect Elems(K[t]) = {}
      BY <2>6, <2>15
    <3>2. Elems(upper) \union Elems(K[t]) = Elems(L[t])
      BY <1>5, <2>6, <2>15
    <3>3. \A u \in LocalThreads : u # t => K[u] = L[u]
      BY <2>15
    <3>4. Len(C) \in Nat
      BY <1>6
    <3>5. Len(E) = Len(C) + 1 /\ E[Len(C) + 1] = upper
      BY <2>11
    <3>6. \A k \in 1 .. Len(C) : E[k] = C[k]
      BY <2>11
    <3>7. Apart(L, C, U, T)
      BY <1>10
    <3>8. QED
      BY <3>1, <3>2, <3>3, <3>4, <3>5, <3>6, <3>7, ApartPush
  <2>17. Apart(M, D, U, T)
    <3>1. Once(lower) /\ Once(M[t]) /\ Elems(lower) \intersect Elems(M[t]) = {}
      BY <1>13, <1>14, <2>6
    <3>2. Elems(lower) \union Elems(M[t]) = Elems(K[t])
      BY <1>13, <1>14, <2>15
    <3>3. \A u \in LocalThreads : u # t => M[u] = K[u]
      BY <1>13, <2>15
    <3>4. Len(E) \in Nat
      BY <2>11 DEF Bins
    <3>5. Len(D) = Len(E) + 1 /\ D[Len(E) + 1] = lower
      BY <2>12
    <3>6. \A k \in 1 .. Len(E) : D[k] = E[k]
      BY <2>12
    <3>7. QED
      BY <2>16, <3>1, <3>2, <3>3, <3>4, <3>5, <3>6, ApartPush
  <2>18. QED
    BY <1>15, <2>12, <2>13, <2>17
<1>19. QED
  BY <1>2, <1>7, <1>16, <1>17, <1>18

\* A step that changes nothing of the pool.
LEMMA PoolStays ==
  ASSUME PoolIsKept, UNCHANGED Local!vars
  PROVE  PoolIsKept'
<1>1. PICK L, C : Kept(L, C)
  BY DEF PoolIsKept
<1>2. /\ chunks' = chunks /\ links' = links /\ stack' = stack /\ heads' = heads
      /\ sizes' = sizes /\ break' = break /\ used' = used
  BY DEF Local!vars
<1>3. Kept(L, C)'
  BY <1>1, <1>2 DEF Kept, Local!Taken, Local!Nodes
<1>4. Local!TypeOK'
  BY <1>2 DEF PoolIsKept, Local!TypeOK
<1>5. QED
  BY <1>3, <1>4 DEF PoolIsKept

\* The pool of every thread gives a node to one holder at a time, forgets none, and
\* every thread that holds a full bucket knows where it begins (pool.h:357, :388,
\* :484), however the threads take, give back and end.
THEOREM NodesCorrect == Local!Spec => []NodesAreKept
<1> USE LocalAssumed
<1>1. Local!Init => PoolIsKept
  BY PoolInit
<1>2. PoolIsKept /\ [Local!Next]_Local!vars => PoolIsKept'
  <2>1. SUFFICES ASSUME PoolIsKept, [Local!Next]_Local!vars
                 PROVE  PoolIsKept'
    OBVIOUS
  <2>2. ASSUME NEW t \in LocalThreads, Local!AllocateOwn(t)
        PROVE  PoolIsKept'
    BY <2>1, <2>2, OwnKeeps
  <2>3. ASSUME NEW t \in LocalThreads, Local!AllocateBucket(t)
        PROVE  PoolIsKept'
    BY <2>1, <2>3, BucketKeeps
  <2>4. ASSUME NEW t \in LocalThreads, Local!AllocateChunk(t)
        PROVE  PoolIsKept'
    BY <2>1, <2>4, ChunkKeeps
  <2>5. ASSUME NEW t \in LocalThreads, NEW n \in used, Local!Deallocate(t, n)
        PROVE  PoolIsKept'
    BY <2>1, <2>5, GiveKeeps, SpillKeeps
  <2>6. ASSUME NEW t \in LocalThreads, Local!Exit(t)
        PROVE  PoolIsKept'
    BY <2>1, <2>6, ExitKeeps
  <2>7. ASSUME UNCHANGED Local!vars
        PROVE  PoolIsKept'
    BY <2>1, <2>7, PoolStays
  <2>8. QED
    BY <2>1, <2>2, <2>3, <2>4, <2>5, <2>6, <2>7 DEF Local!Next
<1>3. PoolIsKept => NodesAreKept
  BY KeptImplies DEF Local!ThreadLocalPoolAssumption, NodesAreKept
<1>4. QED
  BY <1>1, <1>2, <1>3, PTL DEF Local!Spec

=============================================================================
