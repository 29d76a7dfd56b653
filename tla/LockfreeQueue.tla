--------------------------- MODULE LockfreeQueue ---------------------------
(***************************************************************************)
(* library::lockfree::queue (library/queue.h): a linked list of nodes with  *)
(* a head and a tail word, each a node address and a count.  The node at    *)
(* count c has in _next either the node at count c + 1 or, when it is the   *)
(* last one, the address of the queue itself, and c + 1 in both cases.  The *)
(* first node of the list is a dummy.  All queues of a type take nodes from *)
(* and give them back to one pool (_thread_local::pool), so a node a thread *)
(* still looks at may be given back and belong to another queue.            *)
(*                                                                          *)
(* MultiPop is the template parameter multi_pop.  Without it one thread,    *)
(* Consumer, pops, after empty() has told it that there is something to     *)
(* pop, as actor::system, session and timer do; and anyone may call empty().*)
(* Every access to memory another thread may touch is a step.               *)
(***************************************************************************)
EXTENDS Naturals, Sequences, FiniteSets

CONSTANTS
  Queues,
  Nodes,
  Values,
  Threads,
  Consumer,
  MultiPop,
  None,
  EmplaceLimit   \* insertions into each queue: the 17 bits of a count are
                 \* taken never to come round

ASSUME LockfreeQueueAssumption ==
  /\ IsFiniteSet(Nodes)
  /\ Nodes \intersect Queues = {}
  /\ None \notin Nodes \union Queues \union Values
  /\ Consumer \in Threads
  /\ MultiPop \in BOOLEAN
  /\ EmplaceLimit \in Nat

Word == [to : Nodes \union {None}, count : Nat]
Link == [to : Nodes \union Queues \union {None}, count : Nat]

VARIABLES
  head,       \* _head of every queue
  tail,       \* _tail
  next,       \* _next of every node
  value,      \* _value of every node
  free,       \* nodes in the pool
  pc,
  queue,      \* the queue each thread works on
  current,    \* the node a thread inserts or gives back
  word,       \* the head or tail a thread has read
  link,       \* the _next a thread has read
  result,     \* the value a thread in pop has read
  contents,   \* the values in each queue (history)
  emplaced    \* values inserted so far (history)

sharedVars == <<head, tail, next, value, free>>
localVars  == <<pc, queue, current, word, link, result>>
histVars   == <<contents, emplaced>>
vars       == <<sharedVars, localVars, histVars>>

NoWord == [to |-> None, count |-> 0]

Inserting == {"emplace_load", "emplace_next", "emplace_mark", "emplace_link", "emplace_help"}
Popping   == {"pop_load", "pop_next", "pop_tail", "pop_help", "pop_value", "pop_head"}
PCs       == {"idle", "broken", "pop_free", "empty_load", "empty_next"}
             \union Inserting \union Popping

TypeOK ==
  /\ head \in [Queues -> Word]
  /\ tail \in [Queues -> Word]
  /\ next \in [Nodes -> Link]
  /\ value \in [Nodes -> Values \union {None}]
  /\ free \subseteq Nodes
  /\ pc \in [Threads -> PCs]
  /\ queue \in [Threads -> Queues \union {None}]
  /\ current \in [Threads -> Nodes \union {None}]
  /\ word \in [Threads -> Word]
  /\ link \in [Threads -> Link]
  /\ result \in [Threads -> Values \union {None}]
  /\ contents \in [Queues -> Seq(Values)]
  /\ emplaced \in [Queues -> 0..EmplaceLimit]

Exists(q)    == head[q] # NoWord
EndLink(q, c) == [to |-> q, count |-> c]

-----------------------------------------------------------------------------

Goto(t, label) == pc' = [pc EXCEPT ![t] = label]

Return(t) ==
  /\ Goto(t, "idle")
  /\ queue' = [queue EXCEPT ![t] = None]
  /\ current' = [current EXCEPT ![t] = None]
  /\ word' = [word EXCEPT ![t] = NoWord]
  /\ link' = [link EXCEPT ![t] = NoWord]
  /\ result' = [result EXCEPT ![t] = None]

Init ==
  /\ head = [q \in Queues |-> NoWord]
  /\ tail = [q \in Queues |-> NoWord]
  /\ next = [n \in Nodes |-> NoWord]
  /\ value = [n \in Nodes |-> None]
  /\ free = Nodes
  /\ pc = [t \in Threads |-> "idle"]
  /\ queue = [t \in Threads |-> None]
  /\ current = [t \in Threads |-> None]
  /\ word = [t \in Threads |-> NoWord]
  /\ link = [t \in Threads |-> NoWord]
  /\ result = [t \in Threads |-> None]
  /\ contents = [q \in Queues |-> <<>>]
  /\ emplaced = [q \in Queues |-> 0]

Construct(q, n) ==
  /\ ~Exists(q)
  /\ n \in free
  /\ free' = free \ {n}
  /\ next' = [next EXCEPT ![n] = EndLink(q, 1)]
  /\ head' = [head EXCEPT ![q] = [to |-> n, count |-> 0]]
  /\ tail' = [tail EXCEPT ![q] = [to |-> n, count |-> 0]]
  /\ UNCHANGED <<value, localVars, histVars>>

\* Step by step from the head of a queue to its last node; None behind it.
Walk(q) ==
  LET at[i \in 1 .. Cardinality(Nodes)] ==
        IF i = 1 THEN head[q].to
        ELSE IF at[i - 1] \in Nodes /\ next[at[i - 1]].to \in Nodes THEN next[at[i - 1]].to
        ELSE None
  IN  at

\* The nodes from the head of a queue on, last one included.
Chain(q) ==
  LET reached == {i \in 1 .. Cardinality(Nodes) : Walk(q)[i] \in Nodes}
  IN  [i \in 1 .. Cardinality(reached) |-> Walk(q)[i]]

ChainNodes(q) == {Chain(q)[i] : i \in DOMAIN Chain(q)}

\* A node in the pool is linked to another one by the word that was _next.
Pooled(nodes) == [n \in Nodes |-> IF n \in nodes THEN NoWord ELSE next[n]]

\* The destructor, when nobody uses the queue any more.
Destruct(q) ==
  /\ Exists(q)
  /\ \A t \in Threads : queue[t] # q
  /\ free' = free \union ChainNodes(q)
  /\ next' = Pooled(ChainNodes(q))
  /\ head' = [head EXCEPT ![q] = NoWord]
  /\ tail' = [tail EXCEPT ![q] = NoWord]
  /\ contents' = [contents EXCEPT ![q] = <<>>]
  /\ UNCHANGED <<value, localVars, emplaced>>

-----------------------------------------------------------------------------

EmplaceAllocate(t, q, n, v) ==
  /\ pc[t] = "idle"
  /\ Exists(q)
  /\ n \in free
  /\ emplaced[q] < EmplaceLimit
  /\ emplaced' = [emplaced EXCEPT ![q] = @ + 1]
  /\ free' = free \ {n}
  /\ value' = [value EXCEPT ![n] = v]
  /\ current' = [current EXCEPT ![t] = n]
  /\ queue' = [queue EXCEPT ![t] = q]
  /\ Goto(t, "emplace_load")
  /\ UNCHANGED <<head, tail, next, word, link, result, contents>>

EmplaceLoad(t) ==
  /\ pc[t] = "emplace_load"
  /\ word' = [word EXCEPT ![t] = tail[queue[t]]]
  /\ Goto(t, "emplace_next")
  /\ UNCHANGED <<sharedVars, histVars, queue, current, link, result>>

EmplaceNextAnyQueue(t) ==
  /\ pc[t] = "emplace_next"
  /\ LET found   == next[word[t].to]
         matches == found.count = word[t].count + 1
     IN  /\ link' = [link EXCEPT ![t] = found]
         /\ Goto(t, CASE matches /\ found.to \in Nodes  -> "emplace_help"
                      [] matches /\ found.to \in Queues -> "emplace_mark"
                      [] OTHER                          -> "emplace_load")
  /\ UNCHANGED <<sharedVars, histVars, queue, current, word, result>>

\* The count tells whether the node is still the one the tail stood for, the
\* address of the queue whether it is still the end of this queue.
EmplaceNext(t) ==
  /\ pc[t] = "emplace_next"
  /\ LET found   == next[word[t].to]
         matches == found.count = word[t].count + 1
     IN  /\ link' = [link EXCEPT ![t] = found]
         /\ Goto(t, CASE matches /\ found.to \in Nodes  -> "emplace_help"
                      [] matches /\ found.to = queue[t] -> "emplace_mark"
                      [] OTHER                          -> "emplace_load")
  /\ UNCHANGED <<sharedVars, histVars, queue, current, word, result>>

EmplaceHelpNot(t) ==
  /\ pc[t] = "emplace_help"
  /\ word' = [word EXCEPT ![t] = tail[queue[t]]]
  /\ Goto(t, "emplace_next")
  /\ UNCHANGED <<sharedVars, histVars, queue, current, link, result>>

\* The exchange yields the tail it found, the old one also when it succeeds:
\* the loop then tries once more before it sees the new tail.
EmplaceHelp(t) ==
  /\ pc[t] = "emplace_help"
  /\ word' = [word EXCEPT ![t] = tail[queue[t]]]
  /\ tail' = [tail EXCEPT ![queue[t]] = IF @ = word[t] THEN link[t] ELSE @]
  /\ Goto(t, "emplace_next")
  /\ UNCHANGED <<head, next, value, free, histVars, queue, current, link, result>>

EmplaceMarkSameCount(t) ==
  /\ pc[t] = "emplace_mark"
  /\ next' = [next EXCEPT ![current[t]] = EndLink(queue[t], word[t].count + 1)]
  /\ Goto(t, "emplace_link")
  /\ UNCHANGED <<head, tail, value, free, histVars, queue, current, word, link, result>>

EmplaceMark(t) ==
  /\ pc[t] = "emplace_mark"
  /\ next' = [next EXCEPT ![current[t]] = EndLink(queue[t], word[t].count + 2)]
  /\ Goto(t, "emplace_link")
  /\ UNCHANGED <<head, tail, value, free, histVars, queue, current, word, link, result>>

\* The tail is left for others to move.
EmplaceLink(t) ==
  /\ pc[t] = "emplace_link"
  /\ IF next[word[t].to] = link[t]
     THEN /\ next' = [next EXCEPT ![word[t].to] =
                        [to |-> current[t], count |-> word[t].count + 1]]
          /\ contents' = [contents EXCEPT ![queue[t]] = Append(@, value[current[t]])]
          /\ Return(t)
     ELSE /\ Goto(t, "emplace_load")
          /\ UNCHANGED <<next, contents, queue, current, word, link, result>>
  /\ UNCHANGED <<head, tail, value, free, emplaced>>

-----------------------------------------------------------------------------

MultiPopCall(t, q) ==
  /\ MultiPop
  /\ pc[t] = "idle"
  /\ Exists(q)
  /\ queue' = [queue EXCEPT ![t] = q]
  /\ Goto(t, "pop_load")
  /\ UNCHANGED <<sharedVars, histVars, current, word, link, result>>

EmptyCall(t, q) ==
  /\ pc[t] = "idle"
  /\ Exists(q)
  /\ queue' = [queue EXCEPT ![t] = q]
  /\ Goto(t, "empty_load")
  /\ UNCHANGED <<sharedVars, histVars, current, word, link, result>>

EmptyLoadTail(t) ==
  /\ pc[t] = "empty_load"
  /\ word' = [word EXCEPT ![t] = tail[queue[t]]]
  /\ Goto(t, "empty_next")
  /\ UNCHANGED <<sharedVars, histVars, queue, current, link, result>>

EmptyLoad(t) ==
  /\ pc[t] = "empty_load"
  /\ word' = [word EXCEPT ![t] = head[queue[t]]]
  /\ Goto(t, "empty_next")
  /\ UNCHANGED <<sharedVars, histVars, queue, current, link, result>>

\* empty() does not look at the count.  The one consumer pops next if it is told
\* that there is something; for others the call ends.
EmptyNext(t) ==
  /\ pc[t] = "empty_next"
  /\ IF next[word[t].to].to # queue[t] /\ t = Consumer /\ ~MultiPop
     THEN /\ Goto(t, "pop_load")
          /\ word' = [word EXCEPT ![t] = NoWord]
          /\ UNCHANGED <<queue, current, link, result>>
     ELSE Return(t)
  /\ UNCHANGED <<sharedVars, histVars>>

PopLoad(t) ==
  /\ pc[t] = "pop_load"
  /\ word' = [word EXCEPT ![t] = head[queue[t]]]
  /\ Goto(t, "pop_next")
  /\ UNCHANGED <<sharedVars, histVars, queue, current, link, result>>

\* The single consumer does not look at the count and stops the program on
\* anything but a successor.
PopNext(t) ==
  /\ pc[t] = "pop_next"
  /\ LET found   == next[word[t].to]
         matches == found.count = word[t].count + 1
     IN  IF MultiPop /\ matches /\ found.to = queue[t]
         THEN Return(t)
         ELSE /\ link' = [link EXCEPT ![t] = found]
              /\ Goto(t, CASE found.to \in Nodes /\ (MultiPop => matches) -> "pop_tail"
                           [] ~MultiPop /\ found.to \notin Nodes          -> "broken"
                           [] OTHER                                       -> "pop_load")
              /\ UNCHANGED <<queue, current, word, result>>
  /\ UNCHANGED <<sharedVars, histVars>>

PopTail(t) ==
  /\ pc[t] = "pop_tail"
  /\ Goto(t, IF tail[queue[t]] = word[t] THEN "pop_help" ELSE "pop_value")
  /\ UNCHANGED <<sharedVars, histVars, queue, current, word, link, result>>

PopHelp(t) ==
  /\ pc[t] = "pop_help"
  /\ tail' = [tail EXCEPT ![queue[t]] = IF @ = word[t] THEN link[t] ELSE @]
  /\ Goto(t, "pop_value")
  /\ UNCHANGED <<head, next, value, free, histVars, queue, current, word, link, result>>

PopValue(t) ==
  /\ pc[t] = "pop_value"
  /\ result' = [result EXCEPT ![t] = value[link[t].to]]
  /\ Goto(t, "pop_head")
  /\ UNCHANGED <<sharedVars, histVars, queue, current, word, link>>

PopHeadFreesNext(t) ==
  /\ pc[t] = "pop_head"
  /\ head[queue[t]] = word[t] \/ ~MultiPop
  /\ head' = [head EXCEPT ![queue[t]] = link[t]]
  /\ contents' = [contents EXCEPT ![queue[t]] = Tail(@)]
  /\ current' = [current EXCEPT ![t] = link[t].to]
  /\ Goto(t, "pop_free")
  /\ UNCHANGED <<tail, next, value, free, emplaced, queue, word, link, result>>

\* An exchange with several consumers, a plain store with one.
PopHead(t) ==
  /\ pc[t] = "pop_head"
  /\ head[queue[t]] = word[t] \/ ~MultiPop
  /\ head' = [head EXCEPT ![queue[t]] = link[t]]
  /\ contents' = [contents EXCEPT ![queue[t]] = Tail(@)]
  /\ current' = [current EXCEPT ![t] = word[t].to]
  /\ Goto(t, "pop_free")
  /\ UNCHANGED <<tail, next, value, free, emplaced, queue, word, link, result>>

PopRetrySameNext(t) ==
  /\ pc[t] = "pop_head"
  /\ head[queue[t]] # word[t] /\ MultiPop
  /\ word' = [word EXCEPT ![t] = head[queue[t]]]
  /\ UNCHANGED <<sharedVars, histVars, pc, queue, current, link, result>>

PopRetry(t) ==
  /\ pc[t] = "pop_head"
  /\ head[queue[t]] # word[t] /\ MultiPop
  /\ word' = [word EXCEPT ![t] = head[queue[t]]]
  /\ Goto(t, "pop_next")
  /\ UNCHANGED <<sharedVars, histVars, queue, current, link, result>>

PopFree(t) ==
  /\ pc[t] = "pop_free"
  /\ next' = Pooled({current[t]})
  /\ free' = free \union {current[t]}
  /\ Return(t)
  /\ UNCHANGED <<head, tail, value, histVars>>

-----------------------------------------------------------------------------

Emplace(t) ==
  \/ EmplaceLoad(t) \/ EmplaceNext(t) \/ EmplaceHelp(t) \/ EmplaceMark(t) \/ EmplaceLink(t)
Empty(t) == EmptyLoad(t) \/ EmptyNext(t)
Pop(t) ==
  \/ PopLoad(t) \/ PopNext(t) \/ PopTail(t) \/ PopHelp(t) \/ PopValue(t)
  \/ PopHead(t) \/ PopRetry(t) \/ PopFree(t)
Step(t) == Emplace(t) \/ Empty(t) \/ Pop(t)

Next ==
  \/ \E q \in Queues : Destruct(q) \/ \E n \in Nodes : Construct(q, n)
  \/ \E t \in Threads, q \in Queues :
       \/ MultiPopCall(t, q) \/ EmptyCall(t, q)
       \/ \E n \in Nodes, v \in Values : EmplaceAllocate(t, q, n, v)
  \/ \E t \in Threads : Step(t)

Safety == Init /\ [][Next]_vars

\* A thread inside a call keeps running.
Spec == Safety /\ \A t \in Threads : WF_vars(Step(t))

-----------------------------------------------------------------------------

\* The words in memory are the queue: from the head each node leads to the
\* next one and its count, the last one to the queue itself, and the values
\* behind the dummy are those inserted and not yet popped, in order.
ChainIsContents ==
  /\ TypeOK
  /\ \A q \in Queues : Exists(q) =>
       LET chain == Chain(q)
           last  == Len(chain)
       IN  /\ [i \in 1..last - 1 |-> value[chain[i + 1]]] = contents[q]
           /\ \A i \in 1..last : next[chain[i]].count = head[q].count + i
           /\ next[chain[last]].to = q

\* The tail lags behind, but never behind the head: it is a node of the list
\* with the count of that node, so that nobody inserts at a popped node.
TailInChain ==
  \A q \in Queues : Exists(q) =>
    \E i \in DOMAIN Chain(q) : tail[q] = [to |-> Chain(q)[i], count |-> head[q].count + i - 1]

\* The words are the queue: the links from the head give the values that were
\* inserted and not yet popped, in order, and the tail is one of those nodes,
\* behind the head (queue.h:473, :491).
WordsAreTheQueue == ChainIsContents /\ TailInChain

\* A node is in one queue, in one thread's hands or in the pool.
Held(t)  == {current[t]} \ {None}
OneOwner ==
  /\ \A q \in Queues : Exists(q) =>
       /\ ChainNodes(q) \intersect free = {}
       /\ \A t \in Threads : ChainNodes(q) \intersect Held(t) = {}
       /\ \A r \in Queues \ {q} : Exists(r) => ChainNodes(q) \intersect ChainNodes(r) = {}
  /\ \A t \in Threads :
       /\ Held(t) \intersect free = {}
       /\ \A u \in Threads \ {t} : Held(t) \intersect Held(u) = {}

\* A pop that succeeds returns the first value, though it read the value
\* before it knew that the node was still its queue's.
PopIsFirst ==
  \A t \in Threads :
    pc[t] = "pop_head" /\ (head[queue[t]] = word[t] \/ ~MultiPop) =>
      /\ contents[queue[t]] # <<>>
      /\ result[t] = Head(contents[queue[t]])
      /\ link[t] = next[word[t].to]

\* An insertion that succeeds links its node behind the last one of its own
\* queue, not to a node that was recycled since the thread read it.
LinkIsLast ==
  \A t \in Threads :
    pc[t] = "emplace_link" /\ next[word[t].to] = link[t] =>
      Exists(queue[t]) /\ word[t].to = Chain(queue[t])[Len(Chain(queue[t]))]

\* pop answers "empty" to any thread, and empty() to the one consumer, only when
\* the queue is empty at that moment.
EmptyIsRight ==
  [][\A t \in Threads :
       /\ pc'[t] = "idle"
       /\ pc[t] = "pop_next" \/ (pc[t] = "empty_next" /\ t = Consumer /\ ~MultiPop)
       => contents[queue[t]] = <<>>]_vars

\* The consumer that was told there is something to pop finds it.
NeverBroken == \A t \in Threads : pc[t] # "broken"

\* What a call was told of its queue is still so when it acts: an insertion links
\* behind the last node of its own queue, and the one consumer, told that there
\* is a value, pops one (queue.h:473, :523).
CallsActOnTheirQueue == LinkIsLast /\ NeverBroken

\* Every call ends: a thread goes round a loop again only because another
\* thread inserted or popped something.
CallsEnd == \A t \in Threads : pc[t] # "idle" ~> pc[t] = "idle"

=============================================================================
