---------------------------- MODULE LockfreePool ----------------------------
(***************************************************************************)
(* The three lock-free stacks of library/pool.h.  They are one algorithm: a *)
(* head word that holds a node address and, in the 17 bits above it, a tag. *)
(*   fixed_pool  lockfree::fixed_pool, an array of nodes all free at first; *)
(*               allocate advances the tag, an empty stack answers nullptr  *)
(*   pool        lockfree::pool; deallocate advances the tag, an empty      *)
(*               stack sends allocate to the heap                           *)
(*   bucket      the stack of full buckets of _thread_local::pool; allocate *)
(*               advances the tag, the nodes are headers that come from     *)
(*               another pool for a push and go back to it after a pop      *)
(* The variable class, fixed at the start, says which one a behaviour has.  *)
(*                                                                          *)
(* Each access to _head and each access to a node's _next is a step.  A     *)
(* node that is off the stack may change under a thread still reading it:   *)
(* with compress = true its owner's value lies over _next.                  *)
(***************************************************************************)
EXTENDS Naturals, Sequences

CONSTANTS
  Capacity,   \* nodes there are
  Threads,
  TagLimit    \* tags the head word can hold: 2^17 in the code

ASSUME LockfreePoolAssumption ==
  /\ Capacity \in Nat \ {0}
  /\ TagLimit \in Nat \ {0, 1}

Nodes   == 1..Capacity
Null    == 0
Address == Nodes \union {Null}
Tags    == 0..(TagLimit - 1)
Word    == [ptr : Address, tag : Tags]
NoWord  == [ptr |-> Null, tag |-> 0]

VARIABLES
  class,
  heap,      \* addresses that are in no use, or in the pool of headers
  head,      \* _head
  next,      \* _next of every node
  pc,
  snapshot,  \* the local head of each thread
  link,      \* the _next a thread in allocate has read
  current,   \* the node a thread in deallocate gives back
  owned,     \* nodes each thread has allocated
  free,      \* the free nodes, top last (history)
  age        \* tags advanced since the thread's snapshot (history)

vars == <<class, heap, head, next, pc, snapshot, link, current, owned, free, age>>

Classes == {"fixed_pool", "pool", "bucket"}
Popping == {"pop_next", "pop_exchange"}
Pushing == {"push_link", "push_exchange"}

TypeOK ==
  /\ class \in Classes
  /\ heap \subseteq Nodes
  /\ head \in Word
  /\ next \in [Nodes -> Address]
  /\ pc \in [Threads -> {"idle", "new"} \union Popping \union Pushing]
  /\ snapshot \in [Threads -> Word]
  /\ link \in [Threads -> Address]
  /\ current \in [Threads -> Address]
  /\ owned \in [Threads -> SUBSET Nodes]
  /\ free \in Seq(Nodes)
  /\ age \in [Threads -> Tags]

-----------------------------------------------------------------------------

Goto(t, label) == pc' = [pc EXCEPT ![t] = label]

\* The constructor of fixed_pool chains its array in order.
InitFixed ==
  /\ class = "fixed_pool"
  /\ heap = {}
  /\ head = [ptr |-> 1, tag |-> 0]
  /\ next = [n \in Nodes |-> IF n = Capacity THEN Null ELSE n + 1]
  /\ free = [i \in 1..Capacity |-> Capacity + 1 - i]

InitEmpty ==
  /\ class \in {"pool", "bucket"}
  /\ heap = Nodes
  /\ head = NoWord
  /\ next = [n \in Nodes |-> Null]
  /\ free = <<>>

Init ==
  /\ InitFixed \/ InitEmpty
  /\ pc = [t \in Threads |-> "idle"]
  /\ snapshot = [t \in Threads |-> NoWord]
  /\ link = [t \in Threads |-> Null]
  /\ current = [t \in Threads |-> Null]
  /\ owned = [t \in Threads |-> {}]
  /\ age = [t \in Threads |-> 0]

\* Addition of 0x0000800000000000 to the tag bits of a word.
NextTag(tag) == IF tag = TagLimit - 1 THEN 0 ELSE tag + 1

\* Which of the two calls adds it.
AllocateTag(tag) == IF class = "pool" THEN tag ELSE NextTag(tag)

DeallocateTagKept(tag) == tag

DeallocateTag(tag) == IF class = "pool" THEN NextTag(tag) ELSE tag

\* A thread is not held up between its load and its exchange for so many
\* changes of the tag that it comes round to the value the thread has read.
NotLapped(t) ==
  \A u \in Threads \ {t} : pc[u] \in Popping => age[u] + 1 < TagLimit

TagAdvances(t) ==
  /\ NotLapped(t)
  /\ age' = [u \in Threads |-> IF u # t /\ pc[u] \in Popping THEN age[u] + 1 ELSE 0]

\* The locals end with the call.
Return(t) ==
  /\ Goto(t, "idle")
  /\ snapshot' = [snapshot EXCEPT ![t] = NoWord]
  /\ link' = [link EXCEPT ![t] = Null]
  /\ current' = [current EXCEPT ![t] = Null]

\* The head allocate goes on with: a null one ends the call, or sends it to
\* the heap.  A bucket stack that is empty leaves the caller to its own
\* chunk of nodes, which is not a matter of the stack.
Look(t) ==
  /\ IF head.ptr = Null
     THEN /\ Goto(t, IF class = "pool" THEN "new" ELSE "idle")
          /\ snapshot' = [snapshot EXCEPT ![t] = NoWord]
     ELSE /\ Goto(t, "pop_next")
          /\ snapshot' = [snapshot EXCEPT ![t] = head]
  /\ age' = [age EXCEPT ![t] = 0]
  /\ link' = [link EXCEPT ![t] = Null]
  /\ UNCHANGED <<class, heap, head, next, current, owned, free>>

AllocateLoad(t) == pc[t] = "idle" /\ Look(t)

AllocateNew(t, n) ==
  /\ pc[t] = "new"
  /\ n \in heap
  /\ heap' = heap \ {n}
  /\ owned' = [owned EXCEPT ![t] = @ \union {n}]
  /\ Return(t)
  /\ UNCHANGED <<class, head, next, free, age>>

\* The node may have been popped, reused or returned since the load.
AllocateNext(t) ==
  /\ pc[t] = "pop_next"
  /\ link' = [link EXCEPT ![t] = next[snapshot[t].ptr]]
  /\ Goto(t, "pop_exchange")
  /\ UNCHANGED <<class, heap, head, next, snapshot, current, owned, free, age>>

AllocateTakeByAddress(t) ==
  /\ pc[t] = "pop_exchange"
  /\ head.ptr = snapshot[t].ptr
  /\ head' = [ptr |-> link[t], tag |-> AllocateTag(head.tag)]
  /\ owned' = [owned EXCEPT ![t] = @ \union {snapshot[t].ptr}]
  /\ free' = SubSeq(free, 1, Len(free) - 1)
  /\ IF class = "pool" THEN age' = [age EXCEPT ![t] = 0] ELSE TagAdvances(t)
  /\ Return(t)
  /\ UNCHANGED <<class, heap, next>>

AllocateTake(t) ==
  /\ pc[t] = "pop_exchange"
  /\ head = snapshot[t]
  /\ head' = [ptr |-> link[t], tag |-> AllocateTag(head.tag)]
  /\ owned' = [owned EXCEPT ![t] = @ \union {snapshot[t].ptr}]
  /\ free' = SubSeq(free, 1, Len(free) - 1)
  /\ IF class = "pool" THEN age' = [age EXCEPT ![t] = 0] ELSE TagAdvances(t)
  /\ Return(t)
  /\ UNCHANGED <<class, heap, next>>

\* A failed exchange returns the word to retry with.
AllocateRetry(t) ==
  /\ pc[t] = "pop_exchange"
  /\ head # snapshot[t]
  /\ Look(t)

DeallocateLoad(t, n) ==
  /\ pc[t] = "idle"
  /\ n \in owned[t]
  /\ owned' = [owned EXCEPT ![t] = @ \ {n}]
  /\ current' = [current EXCEPT ![t] = n]
  /\ snapshot' = [snapshot EXCEPT ![t] = head]
  /\ Goto(t, "push_link")
  /\ UNCHANGED <<class, heap, head, next, link, free, age>>

DeallocateLink(t) ==
  /\ pc[t] = "push_link"
  /\ next' = [next EXCEPT ![current[t]] = snapshot[t].ptr]
  /\ Goto(t, "push_exchange")
  /\ UNCHANGED <<class, heap, head, snapshot, link, current, owned, free, age>>

DeallocateGive(t) ==
  /\ pc[t] = "push_exchange"
  /\ head = snapshot[t]
  /\ head' = [ptr |-> current[t], tag |-> DeallocateTag(head.tag)]
  /\ free' = Append(free, current[t])
  /\ IF class = "pool" THEN TagAdvances(t) ELSE UNCHANGED age
  /\ Return(t)
  /\ UNCHANGED <<class, heap, next, owned>>

DeallocateRetryUnlinked(t) ==
  /\ pc[t] = "push_exchange"
  /\ head # snapshot[t]
  /\ snapshot' = [snapshot EXCEPT ![t] = head]
  /\ UNCHANGED <<class, heap, head, next, pc, link, current, owned, free, age>>

\* The retry links the node again before it exchanges again.
DeallocateRetry(t) ==
  /\ pc[t] = "push_exchange"
  /\ head # snapshot[t]
  /\ snapshot' = [snapshot EXCEPT ![t] = head]
  /\ Goto(t, "push_link")
  /\ UNCHANGED <<class, heap, head, next, link, current, owned, free, age>>

\* A thread that gives a bucket to the stack takes a header for it first,
HeaderAllocate(t, n) ==
  /\ class = "bucket"
  /\ pc[t] = "idle"
  /\ n \in heap
  /\ heap' = heap \ {n}
  /\ owned' = [owned EXCEPT ![t] = @ \union {n}]
  /\ UNCHANGED <<class, head, next, pc, snapshot, link, current, free, age>>

\* and gives the header back when it has taken a bucket.
HeaderDeallocate(t, n) ==
  /\ class = "bucket"
  /\ pc[t] = "idle"
  /\ n \in owned[t]
  /\ heap' = heap \union {n}
  /\ owned' = [owned EXCEPT ![t] = @ \ {n}]
  /\ UNCHANGED <<class, head, next, pc, snapshot, link, current, free, age>>

\* The owner of a node writes its value over _next, and so does the pool of
\* headers with its own links.
Write(n, word) ==
  /\ \/ \E t \in Threads : n \in owned[t]
     \/ class = "bucket" /\ n \in heap
  /\ next' = [next EXCEPT ![n] = word]
  /\ UNCHANGED <<class, heap, head, pc, snapshot, link, current, owned, free, age>>

InFree == {free[i] : i \in 1..Len(free)}

\* The destructor and the move assignment of pool give the free nodes to the
\* heap; the class leaves it to its user that nobody is inside.
Clear ==
  /\ class = "pool"
  /\ \A t \in Threads : pc[t] = "idle"
  /\ head.ptr # Null
  /\ heap' = heap \union InFree
  /\ head' = NoWord
  /\ free' = <<>>
  /\ UNCHANGED <<class, next, pc, snapshot, link, current, owned, age>>

Allocate(t) ==
  \/ AllocateLoad(t)
  \/ \E n \in heap : AllocateNew(t, n)
  \/ AllocateNext(t) \/ AllocateTake(t) \/ AllocateRetry(t)

Deallocate(t) ==
  \/ \E n \in owned[t] : DeallocateLoad(t, n)
  \/ DeallocateLink(t) \/ DeallocateGive(t) \/ DeallocateRetry(t)

Header(t) ==
  \/ \E n \in heap : HeaderAllocate(t, n)
  \/ \E n \in owned[t] : HeaderDeallocate(t, n)

Next ==
  \/ \E t \in Threads : Allocate(t) \/ Deallocate(t) \/ Header(t)
  \/ \E n \in Nodes, word \in Address : Write(n, word)
  \/ Clear

Spec == Init /\ [][Next]_vars

-----------------------------------------------------------------------------

Top(seq)   == IF seq = <<>> THEN Null ELSE seq[Len(seq)]
Pending(t) == IF pc[t] \in Pushing THEN {current[t]} ELSE {}
Out(t)     == owned[t] \union Pending(t)

\* The words in memory are the stack: from _head every _next leads to the
\* node below, through each free node once.
ChainIsFree ==
  /\ head.ptr = Top(free)
  /\ \A i \in 1..Len(free) : next[free[i]] = IF i = 1 THEN Null ELSE free[i - 1]
  /\ \A i, j \in 1..Len(free) : free[i] = free[j] => i = j

\* A node is on the stack, on its way back to it, owned by one thread or in
\* the heap: none is handed to two threads and none is lost.
OneOwner ==
  /\ heap \intersect InFree = {}
  /\ \A t \in Threads :
       /\ Out(t) \intersect (heap \union InFree) = {}
       /\ owned[t] \intersect Pending(t) = {}
       /\ \A u \in Threads \ {t} : Out(t) \intersect Out(u) = {}
  /\ \A n \in Nodes : n \in heap \union InFree \/ \E t \in Threads : n \in Out(t)

\* The ABA hazard: an exchange in allocate that succeeds installs the
\* successor its node has now, not one read in an earlier life of the node.
NoStalePop ==
  \A t \in Threads :
    pc[t] = "pop_exchange" /\ head = snapshot[t] => link[t] = next[head.ptr]

=============================================================================
