--------------------------- MODULE ThreadLocalPool ---------------------------
(***************************************************************************)
(* library::_thread_local::pool (library/pool.h): the allocator of the      *)
(* queue nodes and messages.  Each thread has a context, a private list of  *)
(* free nodes of which it counts _size and remembers in _break the node     *)
(* that lies BucketSize deep; a full bucket goes to a stack all threads     *)
(* share and an empty context refills itself from there, or with a chunk of *)
(* BucketSize nodes from the heap.  Nodes may be given back by another      *)
(* thread than the one that took them.                                      *)
(*                                                                          *)
(* A bucket is the head of a chain and a size; the chain may go on into     *)
(* another list, so everything rests on the sizes.  The shared stack has    *)
(* the algorithm of module LockfreePool; a push or pop is one step here.    *)
(***************************************************************************)
EXTENDS Naturals, Sequences, SequencesExt, FiniteSets

CONSTANTS
  BucketSize,
  Chunks,      \* chunks the heap can return
  Threads,
  Null

ThreadLocalPoolAssumption ==
  /\ BucketSize \in Nat \ {0}
  /\ Chunks \in Nat

Nodes == 1..(Chunks * BucketSize)

Address == Nodes \union {Null}
Bucket  == [value : Nodes, size : 1..BucketSize]

VARIABLES
  chunks,   \* chunks taken from the heap
  next,     \* _next of every node
  stack,    \* the shared stack of buckets, top last
  head,     \* the context of each thread
  size,
  break,
  used      \* nodes handed out (history)

vars == <<chunks, next, stack, head, size, break, used>>

TypeOK ==
  /\ chunks \in 0..Chunks
  /\ next \in [Nodes -> Address]
  /\ stack \in Seq(Bucket)
  /\ head \in [Threads -> Address]
  /\ size \in [Threads -> 0..(2 * BucketSize - 1)]
  /\ break \in [Threads -> Address]
  /\ used \subseteq Nodes

Init ==
  /\ chunks = 0
  /\ next = [n \in Nodes |-> Null]
  /\ stack = <<>>
  /\ head = [t \in Threads |-> Null]
  /\ size = [t \in Threads |-> 0]
  /\ break = [t \in Threads |-> Null]
  /\ used = {}

\* context._head moves on by one node, which is handed out; the owner's value
\* lies over its _next.
Take(t, n, s, links) ==
  /\ head' = [head EXCEPT ![t] = links[n]]
  /\ size' = [size EXCEPT ![t] = s - 1]
  /\ next' = [links EXCEPT ![n] = Null]
  /\ used' = used \union {n}
  /\ UNCHANGED break

AllocateOwn(t) ==
  /\ size[t] > 0
  /\ Take(t, head[t], size[t], next)
  /\ UNCHANGED <<chunks, stack>>

AllocateBucket(t) ==
  /\ size[t] = 0
  /\ stack # <<>>
  /\ Take(t, Last(stack).value, Last(stack).size, next)
  /\ stack' = Front(stack)
  /\ UNCHANGED chunks

\* The nodes of a new chunk are chained in order, the last one to nullptr.
AllocateChunk(t) ==
  /\ size[t] = 0
  /\ stack = <<>>
  /\ chunks < Chunks
  /\ chunks' = chunks + 1
  /\ LET first == chunks * BucketSize + 1
         last  == first + BucketSize - 1
     IN  Take(t, first, BucketSize,
              [n \in Nodes |-> IF n \in first..last
                               THEN IF n = last THEN Null ELSE n + 1
                               ELSE next[n]])
  /\ UNCHANGED stack

Give(n, s) == [value |-> n, size |-> s]

\* deallocate: the node becomes the head; at BucketSize nodes the place is
\* remembered, at twice as many the upper half goes to the shared stack.
Deallocate(t, n) ==
  LET grown == size[t] + 1
  IN  /\ n \in used
      /\ used' = used \ {n}
      /\ next' = [next EXCEPT ![n] = head[t]]
      /\ IF grown = 2 * BucketSize
         THEN /\ stack' = Append(stack, Give(n, BucketSize))
              /\ head' = [head EXCEPT ![t] = break[t]]
              /\ size' = [size EXCEPT ![t] = BucketSize]
              /\ UNCHANGED break
         ELSE /\ head' = [head EXCEPT ![t] = n]
              /\ size' = [size EXCEPT ![t] = grown]
              /\ break' = IF grown = BucketSize THEN [break EXCEPT ![t] = n] ELSE break
              /\ UNCHANGED stack
      /\ UNCHANGED chunks

ExitInOnePiece(t) ==
  /\ stack' = IF size[t] > 0 THEN Append(stack, Give(head[t], size[t])) ELSE stack
  /\ head' = [head EXCEPT ![t] = Null]
  /\ size' = [size EXCEPT ![t] = 0]
  /\ break' = [break EXCEPT ![t] = Null]
  /\ UNCHANGED <<chunks, next, used>>

\* The context's destructor at the end of a thread, and the new context of
\* the thread that takes its place.
Exit(t) ==
  LET upper == IF size[t] > BucketSize THEN <<Give(head[t], size[t] - BucketSize)>> ELSE <<>>
      lower == IF size[t] > BucketSize THEN <<Give(break[t], BucketSize)>>
               ELSE IF size[t] > 0     THEN <<Give(head[t], size[t])>>
               ELSE <<>>
  IN  /\ stack' = stack \o upper \o lower
      /\ head' = [head EXCEPT ![t] = Null]
      /\ size' = [size EXCEPT ![t] = 0]
      /\ break' = [break EXCEPT ![t] = Null]
      /\ UNCHANGED <<chunks, next, used>>

Next ==
  \E t \in Threads :
    \/ AllocateOwn(t) \/ AllocateBucket(t) \/ AllocateChunk(t)
    \/ \E n \in used : Deallocate(t, n)
    \/ Exit(t)

Spec == Init /\ [][Next]_vars

-----------------------------------------------------------------------------

\* The first s nodes of the chain that starts at n.
Walk(n, s) ==
  LET at[i \in 1..s] == IF i = 1 THEN n ELSE next[at[i - 1]]
  IN  [i \in 1..s |-> at[i]]

Lists == [t \in Threads |-> Walk(head[t], size[t])]
Bins  == [i \in DOMAIN stack |-> Walk(stack[i].value, stack[i].size)]

Taken == {n \in Nodes : n <= chunks * BucketSize}

\* Every node of every chunk is in exactly one place: handed out, in one
\* thread's list or in one bucket.  In particular a chain that a bucket was
\* cut out of never makes a node be handed out twice, and none is forgotten.
EachNodeOnce ==
  LET lists == Lists
      bins  == Bins
      inList(t) == Range(lists[t])
      inBin(i)  == Range(bins[i])
      free      == (UNION {inList(t) : t \in Threads}) \union (UNION {inBin(i) : i \in DOMAIN bins})
  IN  /\ TypeOK
      /\ free \union used = Taken
      /\ free \intersect used = {}
      /\ \A t \in Threads : IsInjective(lists[t])
      /\ \A i \in DOMAIN bins : IsInjective(bins[i])
      /\ \A t, u \in Threads : t # u => inList(t) \intersect inList(u) = {}
      /\ \A i, j \in DOMAIN bins : i # j => inBin(i) \intersect inBin(j) = {}
      /\ \A t \in Threads, i \in DOMAIN bins : inList(t) \intersect inBin(i) = {}

\* A thread that holds a bucket or more remembers the node BucketSize deep,
\* whatever allocations and deallocations there were since it was noted.
BreakIsRight ==
  \A t \in Threads :
    size[t] >= BucketSize =>
      break[t] = Lists[t][size[t] - BucketSize + 1]

\* No node is lost or given twice on its way between threads, buckets and chunks,
\* and the next full bucket will be cut off where it should (pool.h:388, :484).
NodesAreKept == EachNodeOnce /\ BreakIsRight

=============================================================================
