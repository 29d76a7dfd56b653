---------------------------- MODULE QueueProofs ----------------------------
(***************************************************************************)
(* The queues that many threads or one thread use, the first of them first. *)
(*                                                                          *)
(* The safety of the queue for any number of queues, nodes, values and      *)
(* threads, in both forms of pop.  The argument: the words in memory are a  *)
(* chain of nodes for each queue.  A word that a thread has read is either  *)
(* still a node of the chain, with its count, or its node has been popped,  *)
(* and then the count of the head is past it for good: no exchange with it  *)
(* succeeds, since a node that comes back to the queue is marked with a     *)
(* count that nobody has read with it before.                               *)
(***************************************************************************)
EXTENDS MCQueues, FiniteSetTheorems, SequenceTheorems, Functions, WellFoundedInduction, TLAPS

\* Where a thread stands when it has read a word in this round of its call.
HasWord == {"emplace_next", "emplace_mark", "emplace_link", "emplace_help", "empty_next",
            "pop_next", "pop_tail", "pop_help", "pop_value", "pop_head", "pop_free"}
\* When the word was the tail, or the head.
FromTail == {"emplace_next", "emplace_mark", "emplace_link", "emplace_help"}
FromHead == {"empty_next", "pop_next", "pop_tail", "pop_help", "pop_value", "pop_head"}
\* When it has found a successor.
HasLink == {"emplace_help", "pop_tail", "pop_help", "pop_value", "pop_head"}
Pops == Popping \union {"pop_free"}

\* The word w is that of position i of a queue that is the chain s of nodes.
On(s, q, i, w) == w.to = s[i] /\ w.count = head[q].count + i - 1

\* The memory of a queue is the chain s of nodes with the values behind the
\* first one; a queue that does not exist has none.
QueueIs(q, s) ==
  IF Exists(q)
  THEN /\ s # <<>> /\ head[q].to = s[1]
       /\ \A i \in 1 .. Len(s) :
            next[s[i]] = [to |-> IF i = Len(s) THEN q ELSE s[i + 1], count |-> head[q].count + i]
       /\ Len(s) = Len(contents[q]) + 1
       /\ \A i \in 1 .. Len(contents[q]) : contents[q][i] = value[s[i + 1]]
       /\ \E i \in 1 .. Len(s) : On(s, q, i, tail[q])
  ELSE s = <<>> /\ contents[q] = <<>>

\* A node is in one place.
Apart(c) ==
  /\ \A q, r \in Queues : \A i \in 1 .. Len(c[q]), j \in 1 .. Len(c[r]) :
       c[q][i] = c[r][j] => q = r /\ i = j
  /\ \A q \in Queues : \A i \in 1 .. Len(c[q]) :
       c[q][i] \notin free /\ \A t \in Threads : c[q][i] # current[t]
  /\ \A t \in Threads : current[t] \notin free
  /\ \A t, u \in Threads : current[t] = current[u] /\ current[t] # None => t = u

\* The node of a thread's word has been popped since.
Old(t) == word[t].count < head[queue[t]].count

\* What a thread knows of the queue.
WordIsRight(c, t) ==
  word[t].to # None =>
    /\ queue[t] # None
    /\ Old(t) \/ \E i \in 1 .. Len(c[queue[t]]) : On(c[queue[t]], queue[t], i, word[t])
    /\ Old(t) /\ next[word[t].to].to = queue[t] => next[word[t].to].count > word[t].count + 1

CallIsRight(t) ==
  /\ pc[t] # "broken"
  /\ pc[t] = "idle" <=> queue[t] = None
  /\ queue[t] # None => Exists(queue[t])
  /\ pc[t] \in Inserting \union {"pop_free"} <=> current[t] # None
  /\ pc[t] \in Inserting => value[current[t]] \in Values
  /\ pc[t] \in HasWord => word[t].to # None
  /\ pc[t] = "idle" => word[t].to = None
  /\ pc[t] \in Pops => MultiPop \/ t = Consumer

LinkIsRight(t) ==
  /\ pc[t] \in {"emplace_mark", "emplace_link"} => link[t] = EndLink(queue[t], word[t].count + 1)
  /\ pc[t] = "emplace_link" => next[current[t]] = EndLink(queue[t], word[t].count + 2)
  /\ pc[t] \in HasLink => link[t].to \in Nodes /\ (Old(t) \/ link[t] = next[word[t].to])

PopIsRight(t) ==
  /\ pc[t] \in FromHead => word[t].count <= head[queue[t]].count
  /\ pc[t] \in FromHead /\ ~MultiPop /\ t = Consumer => ~Old(t)
  /\ pc[t] \in Popping /\ ~MultiPop => contents[queue[t]] # <<>>
  /\ pc[t] \in {"pop_value", "pop_head"} => Old(t) \/ tail[queue[t]].count > word[t].count
  /\ pc[t] = "pop_head" => Old(t) \/ result[t] = value[link[t].to]

\* A thread inserts its node with a count that no thread has read with it.
MarksAreNew ==
  \A t, u \in Threads :
    pc[u] \in FromTail /\ queue[t] = queue[u] /\ word[t].to = current[u] =>
      word[t].count < word[u].count

Inv(c) ==
  /\ \A q \in Queues : QueueIs(q, c[q])
  /\ Apart(c)
  /\ \A t \in Threads : WordIsRight(c, t) /\ CallIsRight(t) /\ LinkIsRight(t) /\ PopIsRight(t)
  /\ MarksAreNew

-----------------------------------------------------------------------------
(* Chains.                                                                   *)

\* A queue that exists is a chain of nodes whose counts go up one by one.
LEMMA ChainFacts ==
  ASSUME TypeOK, NEW q \in Queues, NEW s \in Seq(Nodes), QueueIs(q, s), Exists(q)
  PROVE  /\ Len(s) \in Nat /\ Len(s) >= 1 /\ head[q].count \in Nat /\ tail[q].count \in Nat
         /\ head[q].to = s[1]
         /\ \A i \in 1 .. Len(s) :
              /\ s[i] \in Nodes
              /\ next[s[i]].count = head[q].count + i
              /\ next[s[i]].to = IF i = Len(s) THEN q ELSE s[i + 1]
         /\ Len(s) = Len(contents[q]) + 1
         /\ \A i \in 1 .. Len(contents[q]) : contents[q][i] = value[s[i + 1]]
         /\ tail[q].count >= head[q].count
         /\ \E i \in 1 .. Len(s) : On(s, q, i, tail[q])
<1>1. /\ s # <<>> /\ head[q].to = s[1]
      /\ \A i \in 1 .. Len(s) :
           next[s[i]] = [to |-> IF i = Len(s) THEN q ELSE s[i + 1], count |-> head[q].count + i]
      /\ Len(s) = Len(contents[q]) + 1
      /\ \A i \in 1 .. Len(contents[q]) : contents[q][i] = value[s[i + 1]]
      /\ \E i \in 1 .. Len(s) : On(s, q, i, tail[q])
  BY DEF QueueIs
<1>2. Len(s) \in Nat /\ Len(s) >= 1 /\ \A i \in 1 .. Len(s) : s[i] \in Nodes
  BY <1>1
<1>3. head[q].count \in Nat /\ tail[q].count \in Nat
  BY DEF TypeOK, Word
<1>4. tail[q].count >= head[q].count
  BY <1>1, <1>2, <1>3 DEF On
<1>5. \A i \in 1 .. Len(s) :
        /\ next[s[i]].count = head[q].count + i
        /\ next[s[i]].to = IF i = Len(s) THEN q ELSE s[i + 1]
  <2> TAKE i \in 1 .. Len(s)
  <2> DEFINE node == IF i = Len(s) THEN q ELSE s[i + 1]
             number == head[q].count + i
  <2>1. next[s[i]] = [to |-> node, count |-> number]
    BY <1>1
  <2> HIDE DEF node, number
  <2>2. next[s[i]].count = number
    BY <2>1
  <2>3. next[s[i]].to = node
    BY <2>1
  <2>4. QED
    BY <2>2, <2>3 DEF node, number
<1>6. QED
  BY <1>1, <1>2, <1>3, <1>4, <1>5

\* What a thread knows of its word, as far as the node has not been popped.
LEMMA WordFacts ==
  ASSUME TypeOK, NEW c \in [Queues -> Seq(Nodes)], Inv(c), NEW t \in Threads,
         word[t].to # None
  PROVE  /\ queue[t] \in Queues /\ Exists(queue[t]) /\ word[t].to \in Nodes
         /\ word[t].count \in Nat /\ head[queue[t]].count \in Nat /\ tail[queue[t]].count \in Nat
         /\ ~Old(t) =>
              \E i \in 1 .. Len(c[queue[t]]) :
                /\ On(c[queue[t]], queue[t], i, word[t])
                /\ next[word[t].to].count = word[t].count + 1
                /\ next[word[t].to].to =
                     IF i = Len(c[queue[t]]) THEN queue[t] ELSE c[queue[t]][i + 1]
         /\ Old(t) => tail[queue[t]].count > word[t].count
<1>1. /\ queue[t] # None /\ queue[t] \in Queues \union {None} /\ word[t] \in Word
      /\ WordIsRight(c, t) /\ CallIsRight(t)
  BY DEF TypeOK, Inv, WordIsRight
<1>2. /\ queue[t] \in Queues /\ Exists(queue[t]) /\ word[t].to \in Nodes
      /\ word[t].count \in Nat
  BY <1>1 DEF CallIsRight, Word
<1> DEFINE q == queue[t]
           s == c[q]
<1>3. q \in Queues /\ s \in Seq(Nodes) /\ QueueIs(q, s) /\ Exists(q)
  BY <1>2 DEF Inv
<1>4. /\ Len(s) \in Nat /\ head[q].count \in Nat /\ tail[q].count \in Nat
      /\ tail[q].count >= head[q].count
      /\ \A i \in 1 .. Len(s) :
              /\ next[s[i]].count = head[q].count + i
              /\ next[s[i]].to = IF i = Len(s) THEN q ELSE s[i + 1]
  BY ZenonT(40), <1>3, ChainFacts
<1>5. Old(t) => tail[q].count > word[t].count
  BY <1>2, <1>4 DEF Old
<1>6. ASSUME ~Old(t)
      PROVE  \E i \in 1 .. Len(s) :
                /\ On(s, q, i, word[t])
                /\ next[word[t].to].count = word[t].count + 1
                /\ next[word[t].to].to = IF i = Len(s) THEN q ELSE s[i + 1]
  <2>1. PICK i \in 1 .. Len(s) : On(s, q, i, word[t])
    BY <1>1, <1>6 DEF WordIsRight
  <2>2. word[t].to = s[i] /\ word[t].count = head[q].count + i - 1
    BY <2>1 DEF On
  <2>3. next[word[t].to].count = head[q].count + i
    BY <1>4, <2>2
  <2>4. next[word[t].to].count = word[t].count + 1
    BY <1>2, <1>4, <2>2, <2>3
  <2>5. QED
    BY <1>4, <2>1, <2>2, <2>4
<1>7. QED
  BY <1>2, <1>4, <1>5, <1>6

\* Numbers can be taken in order.
LEMMA LeastOf ==
  ASSUME NEW S \in SUBSET Nat, S # {}
  PROVE  \E n \in S : \A m \in S : n <= m
<1> DEFINE Smaller == {ss \in Nat \X Nat : ss[1] < ss[2]}
<1>1. IsWellFoundedOn(Smaller, Nat)
  BY NatLessThanWellFounded DEF OpToRel
<1>2. \E x \in S : \A y \in S : ~ (<<y, x>> \in Smaller)
  BY <1>1, WFMin
<1>3. PICK x \in S : \A y \in S : ~ (<<y, x>> \in Smaller)
  BY <1>2
<1>4. ASSUME NEW y \in S PROVE x <= y
  <2>1. ~ (y < x)
    BY <1>3
  <2>2. QED
    BY <2>1
<1>5. QED
  BY <1>4

\* A sequence without repetition is no longer than the set it is taken from.
LEMMA NoLonger ==
  ASSUME NEW S, IsFiniteSet(S), NEW s \in Seq(S),
         \A i, j \in 1 .. Len(s) : s[i] = s[j] => i = j
  PROVE  Len(s) <= Cardinality(S) /\ Cardinality(1 .. Len(s)) = Len(s)
<1>1. s \in Injection(1 .. Len(s), S)
  BY DEF Injection, IsInjective
<1>2. Cardinality(1 .. Len(s)) <= Cardinality(S)
  BY <1>1, FS_Injection
<1>3. Cardinality(1 .. Len(s)) = Len(s)
  <2>1. PICK k \in Nat : k = Len(s)
    OBVIOUS
  <2>2. Cardinality(1 .. k) = IF 1 > k THEN 0 ELSE k - 1 + 1
    BY FS_Interval
  <2>3. QED
    BY <2>1, <2>2
<1>4. QED
  BY <1>2, <1>3

\* Walking along the links yields the chain.
LEMMA ChainIs ==
  ASSUME TypeOK, NEW q \in Queues, NEW s \in Seq(Nodes), QueueIs(q, s), Exists(q),
         \A i, j \in 1 .. Len(s) : s[i] = s[j] => i = j
  PROVE  Chain(q) = s
<1> DEFINE N == Cardinality(Nodes)
           k == Len(s)
           step(f, i) == IF i = 1 THEN head[q].to
                         ELSE IF f[i - 1] \in Nodes /\ next[f[i - 1]].to \in Nodes
                              THEN next[f[i - 1]].to
                              ELSE None
           g == [i \in 1 .. N |-> IF i <= k THEN s[i] ELSE None]
<1>1. N \in Nat /\ IsFiniteSet(Nodes) /\ None \notin Nodes /\ q \notin Nodes
  BY FS_CardinalityType, LockfreeQueueAssumption
<1>2. k \in Nat /\ k >= 1 /\ k <= N /\ Cardinality(1 .. k) = k
  BY <1>1, ChainFacts, NoLonger
<1>3. /\ head[q].to = s[1]
      /\ \A i \in 1 .. k : s[i] \in Nodes /\ next[s[i]].to = IF i = k THEN q ELSE s[i + 1]
  BY ChainFacts
<1> HIDE DEF N, k
<1>4. \A i \in 1 .. N : g[i] = step(g, i)
  <2> TAKE i \in 1 .. N
  <2>1. CASE i = 1
    BY <2>1, <1>2, <1>3
  <2>2. CASE i # 1 /\ i <= k
    <3>1. i - 1 \in 1 .. N /\ i - 1 \in 1 .. k /\ i - 1 # k /\ (i - 1) + 1 = i
      BY <2>2, <1>1, <1>2
    <3>2. g[i - 1] = s[i - 1] /\ s[i - 1] \in Nodes /\ next[s[i - 1]].to = s[i] /\ s[i] \in Nodes
      BY <3>1, <1>3, <2>2, <1>2
    <3>3. QED
      BY <3>2, <2>2
  <2>3. CASE i # 1 /\ i = k + 1
    <3>1. i - 1 \in 1 .. N /\ i - 1 = k /\ i - 1 \in 1 .. k
      BY <2>3, <1>1, <1>2
    <3>2. g[i - 1] = s[k] /\ next[s[k]].to = q
      BY <3>1, <1>3, <1>2
    <3>3. g[i] = None
      BY <2>3, <1>2
    <3>4. QED
      BY <3>2, <3>3, <2>3, <1>1
  <2>4. CASE i > k + 1
    <3>1. i - 1 \in 1 .. N /\ i - 1 > k /\ i > k /\ i # 1
      BY <2>4, <1>1, <1>2
    <3>2. g[i - 1] = None /\ g[i] = None
      BY <3>1, <1>2
    <3>3. QED
      BY <3>2, <3>1, <1>1
  <2>5. QED
    BY <2>1, <2>2, <2>3, <2>4, <1>1, <1>2
<1>5. g = [i \in 1 .. N |-> step(g, i)]
  BY <1>4
<1>6. ASSUME NEW f, f = [i \in 1 .. N |-> step(f, i)]
      PROVE  f = g
  <2> DEFINE W == {i \in 1 .. N : f[i] # g[i]}
  <2>1. ASSUME W # {} PROVE FALSE
    <3> HIDE DEF W
    <3>0. W \in SUBSET Nat
      BY <1>1 DEF W
    <3>1. PICK n \in W : \A m \in W : n <= m
      BY <2>1, <3>0, LeastOf
    <3>2. n \in 1 .. N /\ f[n] # g[n]
      BY <3>1 DEF W
    <3>3. f[n] = step(f, n) /\ g[n] = step(g, n)
      BY <3>2, <1>6, <1>4
    <3>4. n # 1
      BY <3>2, <3>3
    <3>5. n - 1 \in 1 .. N /\ n - 1 < n
      BY <3>2, <3>4, <1>1
    <3>6. f[n - 1] = g[n - 1]
      BY <3>1, <3>5, <1>1 DEF W
    <3>7. QED
      BY <3>2, <3>3, <3>6
  <2>2. \A i \in 1 .. N : f[i] = g[i]
    BY <2>1
  <2>3. f = [i \in 1 .. N |-> f[i]] /\ g = [i \in 1 .. N |-> g[i]]
    BY <1>6
  <2>4. QED
    BY <2>2, <2>3
<1>7. Walk(q) = g
  <2>1. Walk(q) = CHOOSE f : f = [i \in 1 .. N |-> step(f, i)]
    BY DEF Walk, N
  <2> HIDE DEF g, step
  <2>2. QED
    BY <2>1, <1>5, <1>6
<1>8. {i \in 1 .. N : g[i] \in Nodes} = 1 .. k
  BY <1>1, <1>2, <1>3
<1>9. Chain(q) = [i \in 1 .. k |-> g[i]]
  BY <1>7, <1>8, <1>2 DEF Chain, N
<1>10. \A i \in 1 .. k : g[i] = s[i]
  BY <1>1, <1>2
<1>11. s = [i \in 1 .. k |-> s[i]]
  BY DEF k
<1>12. QED
  BY <1>9, <1>10, <1>11

-----------------------------------------------------------------------------
(* Steps that leave a thread alone.                                          *)

\* A thread outside a call knows nothing.
LEMMA IdleKeeps ==
  ASSUME TypeOK, TypeOK', NEW c \in [Queues -> Seq(Nodes)], NEW d \in [Queues -> Seq(Nodes)],
         Inv(c), NEW u \in Threads, queue[u] = None,
         pc'[u] = pc[u], queue'[u] = queue[u], current'[u] = current[u], word'[u] = word[u]
  PROVE  WordIsRight(d, u)' /\ CallIsRight(u)' /\ LinkIsRight(u)' /\ PopIsRight(u)'
<1>1. CallIsRight(u)
  BY DEF Inv
<1>2. pc[u] = "idle" /\ word[u].to = None /\ current[u] = None
  BY <1>1 DEF CallIsRight, Inserting
<1>3. WordIsRight(d, u)'
  BY <1>2 DEF WordIsRight
<1>4. CallIsRight(u)'
  BY <1>2 DEF CallIsRight, Inserting, Popping, Pops, HasWord
<1>5. LinkIsRight(u)'
  BY <1>2 DEF LinkIsRight, HasLink
<1>6. PopIsRight(u)'
  BY <1>2 DEF PopIsRight, Popping, FromHead
<1>7. QED
  BY <1>3, <1>4, <1>5, <1>6

\* What a thread in a call knows stays right when the queue keeps the nodes it has,
\* up to the last one's link and those that are popped.
LEMMA CallKeeps ==
  ASSUME TypeOK, TypeOK', NEW c \in [Queues -> Seq(Nodes)], NEW d \in [Queues -> Seq(Nodes)],
         Inv(c), NEW u \in Threads, NEW q \in Queues, queue[u] = q,
         pc'[u] = pc[u], queue'[u] = queue[u], current'[u] = current[u],
         word'[u] = word[u], link'[u] = link[u], result'[u] = result[u],
         Exists(q)', head'[q].count >= head[q].count, tail'[q].count >= tail[q].count,
         ~MultiPop /\ u = Consumer => head'[q].count = head[q].count,
         pc[u] \in Popping /\ ~MultiPop => contents'[q] # <<>>,
         \A i \in 1 .. Len(c[q]) : head[q].count + i - 1 >= head'[q].count =>
           \E j \in 1 .. Len(d[q]) : d[q][j] = c[q][i] /\ head'[q].count + j = head[q].count + i,
         \A i \in 1 .. Len(c[q]) : i # Len(c[q]) => next'[c[q][i]] = next[c[q][i]],
         word[u].to # None /\ word[u].count < head'[q].count /\ next'[word[u].to].to = q =>
           next'[word[u].to].count > word[u].count + 1,
         pc[u] = "emplace_link" => next'[current[u]] = next[current[u]],
         pc[u] \in Inserting => value'[current[u]] \in Values,
         \A i \in 1 .. Len(c[q]) : value'[c[q][i]] = value[c[q][i]]
  PROVE  WordIsRight(d, u)' /\ CallIsRight(u)' /\ LinkIsRight(u)' /\ PopIsRight(u)'
<1>1. WordIsRight(c, u) /\ CallIsRight(u) /\ LinkIsRight(u) /\ PopIsRight(u)
  BY DEF Inv
<1>2. /\ QueueIs(q, c[q]) /\ Exists(q) /\ c[q] \in Seq(Nodes)
      /\ head'[q].count \in Nat /\ tail'[q].count \in Nat /\ word[u].count \in Nat
  BY <1>1, LockfreeQueueAssumption DEF Inv, CallIsRight, TypeOK, Word
<1> DEFINE s == c[q]
<1>3. /\ Len(s) \in Nat /\ head[q].count \in Nat /\ tail[q].count \in Nat
      /\ \A i \in 1 .. Len(s) :
           next[s[i]].to = IF i = Len(s) THEN q ELSE s[i + 1]
  BY <1>2, ChainFacts
<1>4. Old(u) => Old(u)'
  BY <1>2, <1>3 DEF Old
<1>5. q \notin Nodes /\ q # None
  BY LockfreeQueueAssumption
<1>6. ASSUME word[u].to # None, ~Old(u)
      PROVE  \E i \in 1 .. Len(s) : word[u].to = s[i] /\ word[u].count = head[q].count + i - 1
  BY <1>1, <1>6 DEF WordIsRight, On
<1>7. WordIsRight(d, u)'
  <2>1. ASSUME word[u].to # None, ~ (word[u].count < head'[q].count)
        PROVE  \E j \in 1 .. Len(d[q]) : word[u].to = d[q][j] /\ word[u].count = head'[q].count + j - 1
    <3>1. ~Old(u)
      BY <2>1, <1>2, <1>3 DEF Old
    <3>2. PICK i \in 1 .. Len(s) : word[u].to = s[i] /\ word[u].count = head[q].count + i - 1
      BY <2>1, <3>1, <1>6
    <3>3. head[q].count + i - 1 >= head'[q].count
      BY <2>1, <3>2, <1>2, <1>3
    <3>4. PICK j \in 1 .. Len(d[q]) : d[q][j] = s[i] /\ head'[q].count + j = head[q].count + i
      BY <3>3
    <3>5. word[u].to = d[q][j] /\ word[u].count = head'[q].count + j - 1
      <4>1. i \in Int /\ j \in Int
        OBVIOUS
      <4>2. word[u].to = d[q][j]
        BY <3>2, <3>4, Zenon
      <4>3. word[u].count = head'[q].count + j - 1
        <5> DEFINE m == word[u].count
                   a == head[q].count
                   b == head'[q].count
        <5>1. m \in Nat /\ a \in Nat /\ b \in Nat
          BY <1>2, <1>3
        <5>2. m = a + i - 1 /\ b + j = a + i
          BY <3>2, <3>4
        <5> HIDE DEF m, a, b
        <5>3. m = b + j - 1
          BY <4>1, <5>1, <5>2
        <5>4. QED
          BY <5>3 DEF m, b
      <4>4. QED
        BY <4>2, <4>3
    <3>6. QED
      BY <3>5
  <2>2. word[u].to # None /\ ~Old(u)' =>
          (\E j \in 1 .. Len(d[queue[u]]) : On(d[queue[u]], queue[u], j, word[u]))'
    BY <2>1 DEF Old, On
  <2>3. Old(u)' <=> word[u].count < head'[q].count
    BY DEF Old
  <2>4. QED
    BY <2>2, <2>3, <1>5 DEF WordIsRight
<1>8. CallIsRight(u)'
  BY <1>1, <1>5 DEF CallIsRight
<1>9. LinkIsRight(u)'
  <2>1. ASSUME pc[u] \in HasLink, ~Old(u)'
        PROVE  link[u] = next'[word[u].to]
    <3>1. ~Old(u) /\ word[u].to # None /\ link[u].to \in Nodes /\ link[u] = next[word[u].to]
      BY <2>1, <1>1, <1>4 DEF LinkIsRight, CallIsRight, HasLink, HasWord
    <3>2. PICK i \in 1 .. Len(s) : word[u].to = s[i]
      BY <3>1, <1>6
    <3>3. i # Len(s)
      BY <3>1, <3>2, <1>3, <1>5
    <3>4. QED
      BY <3>1, <3>2, <3>3
  <2>2. QED
    BY <2>1, <1>1 DEF LinkIsRight
<1>10. PopIsRight(u)'
  <2>1. ASSUME pc[u] = "pop_head", ~Old(u)'
        PROVE  result[u] = value'[link[u].to]
    <3>1. ~Old(u) /\ word[u].to # None /\ link[u].to \in Nodes /\ link[u] = next[word[u].to]
      BY <2>1, <1>1, <1>4 DEF LinkIsRight, CallIsRight, HasLink, HasWord
    <3>2. PICK i \in 1 .. Len(s) : word[u].to = s[i]
      BY <3>1, <1>6
    <3>3. i # Len(s)
      BY <3>1, <3>2, <1>3, <1>5
    <3>4. i + 1 \in 1 .. Len(s) /\ link[u].to = s[i + 1]
      BY <3>1, <3>2, <3>3, <1>3
    <3>5. result[u] = value[link[u].to]
      BY <2>1, <3>1, <1>1 DEF PopIsRight
    <3>6. QED
      BY <3>4, <3>5
  <2>2. pc[u] \in FromHead => word'[u].count <= head'[queue'[u]].count
    BY <1>1, <1>2, <1>3 DEF PopIsRight
  <2>3. pc[u] \in FromHead /\ ~MultiPop /\ u = Consumer => ~Old(u)'
    BY <1>1 DEF PopIsRight, Old
  <2>4. pc[u] \in {"pop_value", "pop_head"} => Old(u)' \/ tail'[queue'[u]].count > word'[u].count
    BY <1>1, <1>2, <1>3, <1>4 DEF PopIsRight
  <2>5. QED
    BY <2>1, <2>2, <2>3, <2>4 DEF PopIsRight
<1>11. QED
  BY <1>7, <1>8, <1>9, <1>10

\* A step that loads no other word than the head or the tail of its queue leaves
\* every mark new.
LEMMA MarksStep ==
  ASSUME TypeOK, NEW c \in [Queues -> Seq(Nodes)], Inv(c), NEW t \in Threads,
         \A u \in Threads : u # t =>
           /\ pc'[u] = pc[u] /\ queue'[u] = queue[u]
           /\ current'[u] = current[u] /\ word'[u] = word[u],
         \/ word'[t].to = None
         \/ queue'[t] = queue[t] /\ word'[t] = word[t]
         \/ /\ queue'[t] = queue[t] /\ queue[t] # None
            /\ word'[t] \in {head[queue[t]], tail[queue[t]]},
         pc'[t] \in FromTail =>
           /\ pc[t] \in Inserting /\ queue'[t] = queue[t] /\ queue[t] # None
           /\ current'[t] = current[t]
           /\ word'[t] = tail[queue[t]] \/ (pc[t] \in FromTail /\ word'[t] = word[t])
  PROVE  MarksAreNew'
<1> SUFFICES ASSUME NEW x \in Threads, NEW u \in Threads,
                    pc'[u] \in FromTail, queue'[x] = queue'[u], word'[x].to = current'[u]
             PROVE  word'[x].count < word'[u].count
  BY DEF MarksAreNew
<1> DEFINE q == queue[u]
<1>1. queue'[u] = q /\ current'[u] = current[u] /\ q # None
  <2>1. CASE u = t
    BY <2>1
  <2>2. CASE u # t
    BY <2>2 DEF Inv, CallIsRight, FromTail
  <2>3. QED
    BY <2>1, <2>2
<1>2. q \in Queues /\ Exists(q) /\ QueueIs(q, c[q]) /\ c[q] \in Seq(Nodes)
  BY <1>1 DEF TypeOK, Inv, CallIsRight
<1>3. /\ Len(c[q]) \in Nat /\ Len(c[q]) >= 1 /\ head[q].count \in Nat /\ tail[q].count \in Nat
      /\ head[q].to = c[q][1] /\ tail[q].count >= head[q].count
      /\ \E i \in 1 .. Len(c[q]) : On(c[q], q, i, tail[q])
  BY <1>2, ChainFacts
<1>4. \A i \in 1 .. Len(c[q]) : c[q][i] # current[u]
  BY <1>2 DEF Inv, Apart
<1>5. head[q].to # current[u] /\ tail[q].to # current[u]
  BY <1>3, <1>4 DEF On
<1>6. current[u] # None
  <2>1. pc[u] \in Inserting
    BY DEF FromTail, Inserting
  <2>2. QED
    BY <2>1 DEF Inv, CallIsRight
<1>7. queue[x] = q /\ word'[x] = word[x]
  BY <1>1, <1>5, <1>6
<1>8. ASSUME word'[u] = tail[q] PROVE word'[x].count < word'[u].count
  <2>1. word[x].to # None
    BY <1>1, <1>6, <1>7
  <2>2. Old(x)
    BY <2>1, <1>7, <1>4, <1>1 DEF Inv, WordIsRight, On
  <2>3. word[x].count \in Nat
    BY DEF TypeOK, Word
  <2>4. QED
    BY <1>3, <1>7, <1>8, <2>2, <2>3 DEF Old
<1>9. ASSUME pc[u] \in FromTail, word'[u] = word[u] PROVE word'[x].count < word'[u].count
  BY <1>1, <1>7, <1>9 DEF Inv, MarksAreNew
<1>10. QED
  BY <1>8, <1>9

-----------------------------------------------------------------------------
(* Steps that touch nothing but what their thread knows.                     *)

\* The words of a queue are on its chain, and the tail is not behind the head.
LEMMA Loaded ==
  ASSUME TypeOK, NEW c \in [Queues -> Seq(Nodes)], Inv(c), NEW q \in Queues, Exists(q)
  PROVE  /\ \E i \in 1 .. Len(c[q]) : On(c[q], q, i, head[q])
         /\ \E i \in 1 .. Len(c[q]) : On(c[q], q, i, tail[q])
         /\ head[q].count \in Nat /\ tail[q].count \in Nat
         /\ tail[q].count >= head[q].count
         /\ head[q].to \in Nodes /\ tail[q].to \in Nodes
         /\ head[q].to # None /\ tail[q].to # None
<1>1. QueueIs(q, c[q]) /\ c[q] \in Seq(Nodes)
  BY DEF Inv
<1>2. /\ Len(c[q]) \in Nat /\ Len(c[q]) >= 1 /\ head[q].count \in Nat /\ tail[q].count \in Nat
      /\ head[q].to = c[q][1]
      /\ \A i \in 1 .. Len(c[q]) : c[q][i] \in Nodes
      /\ tail[q].count >= head[q].count
      /\ \E i \in 1 .. Len(c[q]) : On(c[q], q, i, tail[q])
  BY <1>1, ChainFacts
<1>3. 1 \in 1 .. Len(c[q]) /\ On(c[q], q, 1, head[q])
  BY <1>2 DEF On
<1>4. tail[q].to \in Nodes
  BY <1>2 DEF On
<1>5. head[q].to \in Nodes
  BY <1>2
<1>6. QED
  BY <1>2, <1>3, <1>4, <1>5, LockfreeQueueAssumption

LEMMA LocalStep ==
  ASSUME TypeOK, TypeOK', NEW c \in [Queues -> Seq(Nodes)], Inv(c), NEW t \in Threads,
         UNCHANGED <<head, tail, next, value, free, contents, current>>,
         \A u \in Threads : u # t =>
           /\ pc'[u] = pc[u] /\ queue'[u] = queue[u]
           /\ word'[u] = word[u] /\ link'[u] = link[u] /\ result'[u] = result[u],
         WordIsRight(c, t)', CallIsRight(t)', LinkIsRight(t)', PopIsRight(t)', MarksAreNew'
  PROVE  Inv(c)'
<1>1. ASSUME NEW q \in Queues PROVE QueueIs(q, c[q])'
  BY DEF Inv, QueueIs, Exists, On
<1>2. Apart(c)'
  BY DEF Inv, Apart
<1>3. ASSUME NEW u \in Threads
      PROVE  WordIsRight(c, u)' /\ CallIsRight(u)' /\ LinkIsRight(u)' /\ PopIsRight(u)'
  <2>1. CASE u = t
    BY <2>1
  <2>2. CASE u # t /\ queue[u] = None
    BY <2>2, IdleKeeps
  <2>3. CASE u # t /\ queue[u] # None
    <3> DEFINE q == queue[u]
    <3>1. q \in Queues /\ QueueIs(q, c[q]) /\ c[q] \in Seq(Nodes)
          /\ WordIsRight(c, u) /\ CallIsRight(u) /\ PopIsRight(u)
      BY <2>3 DEF TypeOK, Inv
    <3>2. Exists(q)' /\ Exists(q)
      BY <2>3, <3>1 DEF CallIsRight, Exists
    <3>3. /\ head[q].count \in Nat /\ tail[q].count \in Nat
      BY <3>1, <3>2, ChainFacts
    <3>4. /\ head'[q].count >= head[q].count /\ tail'[q].count >= tail[q].count
          /\ head'[q].count = head[q].count
      BY <3>3
    <3>5. pc[u] \in Popping /\ ~MultiPop => contents'[q] # <<>>
      BY <3>1 DEF PopIsRight
    <3>6. word[u].to # None /\ word[u].count < head'[q].count /\ next'[word[u].to].to = q =>
           next'[word[u].to].count > word[u].count + 1
      BY <3>1 DEF WordIsRight, Old
    <3>7. pc[u] \in Inserting => value'[current[u]] \in Values
      BY <3>1 DEF CallIsRight
    <3>8. \A i \in 1 .. Len(c[q]) : head[q].count + i - 1 >= head'[q].count =>
           \E j \in 1 .. Len(c[q]) : c[q][j] = c[q][i] /\ head'[q].count + j = head[q].count + i
      BY <3>4
    <3>9. QED
      BY <2>2, <2>3, <3>1, <3>2, <3>4, <3>5, <3>6, <3>7, <3>8, CallKeeps
  <2>4. QED
    BY <2>1, <2>2, <2>3
<1>4. QED
  BY <1>1, <1>2, <1>3 DEF Inv

\* A thread that loads the head or the tail knows its word.
LEMMA LoadKnows ==
  ASSUME TypeOK, NEW c \in [Queues -> Seq(Nodes)], Inv(c), NEW t \in Threads,
         queue[t] \in Queues, Exists(queue[t]),
         queue'[t] = queue[t], UNCHANGED head,
         word'[t] \in {head[queue[t]], tail[queue[t]]}
  PROVE  /\ WordIsRight(c, t)' /\ ~Old(t)' /\ word'[t].to # None
         /\ word'[t].to \in Nodes /\ word'[t].count \in Nat
         /\ word'[t] = head[queue[t]] => word'[t].count <= head'[queue'[t]].count
<1> DEFINE q == queue[t]
<1>1. /\ \E i \in 1 .. Len(c[q]) : On(c[q], q, i, word'[t])
      /\ word'[t].count >= head[q].count /\ word'[t].to \in Nodes /\ word'[t].to # None
      /\ word'[t].count \in Nat /\ head[q].count \in Nat
  BY Loaded
<1>2. ~ (word'[t].count < head'[queue'[t]].count)
  BY <1>1
<1>3. ~Old(t)'
  BY <1>2 DEF Old
<1>4. (\E i \in 1 .. Len(c[q]) : On(c[q], q, i, word[t]))'
  BY <1>1 DEF On
<1>5. q # None
  BY LockfreeQueueAssumption
<1>6. WordIsRight(c, t)'
  BY <1>3, <1>4, <1>5 DEF WordIsRight
<1>7. QED
  BY <1>1, <1>3, <1>6

\* A thread that keeps its word knows it still.
LEMMA KeepKnows ==
  ASSUME NEW c \in [Queues -> Seq(Nodes)], Inv(c), NEW t \in Threads,
         queue'[t] = queue[t], word'[t] = word[t], UNCHANGED <<head, next>>
  PROVE  WordIsRight(c, t)' /\ (Old(t)' <=> Old(t))
BY DEF Inv, WordIsRight, Old, On

\* A thread that has returned knows nothing.
LEMMA IdleKnows ==
  ASSUME NEW c \in [Queues -> Seq(Nodes)], NEW t \in Threads,
         pc'[t] = "idle", queue'[t] = None, current'[t] = None, word'[t] = NoWord
  PROVE  WordIsRight(c, t)' /\ CallIsRight(t)' /\ LinkIsRight(t)' /\ PopIsRight(t)'
<1>1. word'[t].to = None
  BY DEF NoWord
<1>2. WordIsRight(c, t)'
  BY <1>1 DEF WordIsRight
<1>3. CallIsRight(t)'
  BY <1>1 DEF CallIsRight, Inserting, Popping, Pops, HasWord
<1>4. LinkIsRight(t)'
  BY DEF LinkIsRight, HasLink
<1>5. PopIsRight(t)'
  BY DEF PopIsRight, Popping, FromHead
<1>6. QED
  BY <1>2, <1>3, <1>4, <1>5


\* The tail is read.
LEMMA EmplaceLoadKeeps ==
  ASSUME TypeOK, TypeOK', NEW c \in [Queues -> Seq(Nodes)], Inv(c), NEW t \in Threads,
         EmplaceLoad(t)
  PROVE  Inv(c)'
<1>1. /\ WordIsRight(c, t) /\ CallIsRight(t) /\ LinkIsRight(t) /\ PopIsRight(t)
      /\ MarksAreNew
  BY DEF Inv
<1>2. /\ UNCHANGED <<head, tail, next, value, free, contents, current>>
      /\ \A u \in Threads : u # t =>
           /\ pc'[u] = pc[u] /\ queue'[u] = queue[u]
           /\ word'[u] = word[u] /\ link'[u] = link[u] /\ result'[u] = result[u]
  BY DEF EmplaceLoad, Goto, sharedVars, histVars
<1>3. /\ pc[t] = "emplace_load" /\ pc'[t] = "emplace_next" /\ queue'[t] = queue[t]
      /\ word'[t] = tail[queue[t]] /\ current'[t] = current[t]
  BY DEF EmplaceLoad, Goto, sharedVars, histVars, TypeOK
<1>4. queue[t] \in Queues /\ queue[t] # None /\ Exists(queue[t])
  BY <1>1, <1>3 DEF CallIsRight, TypeOK
<1>5. WordIsRight(c, t)' /\ ~Old(t)' /\ word'[t].to # None
  BY <1>2, <1>3, <1>4, LoadKnows
<1>6. CallIsRight(t)'
  BY <1>1, <1>2, <1>3, <1>4, <1>5 DEF CallIsRight, Exists, Inserting, Popping, Pops, HasWord
<1>7. LinkIsRight(t)' /\ PopIsRight(t)'
  BY <1>3 DEF LinkIsRight, PopIsRight, HasLink, FromHead, Popping
<1>8. MarksAreNew'
  BY <1>2, <1>3, <1>4, MarksStep DEF Inserting
<1>9. QED
  BY <1>2, <1>5, <1>6, <1>7, <1>8, LocalStep

\* The link of the node of the tail is read: when the count fits and the queue stands
\* there, it is the last node of this queue.
LEMMA EmplaceNextKeeps ==
  ASSUME TypeOK, TypeOK', NEW c \in [Queues -> Seq(Nodes)], Inv(c), NEW t \in Threads,
         EmplaceNext(t)
  PROVE  Inv(c)'
<1>1. /\ WordIsRight(c, t) /\ CallIsRight(t) /\ LinkIsRight(t) /\ PopIsRight(t)
      /\ MarksAreNew
  BY DEF Inv
<1>2. /\ UNCHANGED <<head, tail, next, value, free, contents, current>>
      /\ \A u \in Threads : u # t =>
           /\ pc'[u] = pc[u] /\ queue'[u] = queue[u]
           /\ word'[u] = word[u] /\ link'[u] = link[u] /\ result'[u] = result[u]
  BY DEF EmplaceNext, Goto, sharedVars, histVars
<1> DEFINE found == next[word[t].to]
           matches == found.count = word[t].count + 1
<1>3. /\ pc[t] = "emplace_next" /\ queue'[t] = queue[t] /\ word'[t] = word[t]
      /\ current'[t] = current[t] /\ link'[t] = found
      /\ pc'[t] = CASE matches /\ found.to \in Nodes -> "emplace_help"
                    [] matches /\ found.to = queue[t] -> "emplace_mark"
                    [] OTHER -> "emplace_load"
  BY DEF EmplaceNext, Goto, sharedVars, histVars, TypeOK
<1>4. /\ queue[t] \in Queues /\ queue[t] # None /\ Exists(queue[t]) /\ queue[t] \notin Nodes
      /\ word[t].to # None /\ word[t].to \in Nodes
  BY <1>1, <1>3, LockfreeQueueAssumption DEF CallIsRight, TypeOK, HasWord, Word
<1>5. WordIsRight(c, t)' /\ (Old(t)' <=> Old(t))
  BY <1>2, <1>3, KeepKnows
<1>6. \/ pc'[t] = "emplace_help" /\ matches /\ found.to \in Nodes
      \/ pc'[t] = "emplace_mark" /\ matches /\ found.to = queue[t]
      \/ pc'[t] = "emplace_load"
  BY <1>3, <1>4
<1>7. CallIsRight(t)'
  BY <1>1, <1>2, <1>3, <1>4, <1>6 DEF CallIsRight, Exists, Inserting, Popping, Pops, HasWord
<1>8. LinkIsRight(t)'
  <2>1. found \in Link
    BY <1>4 DEF TypeOK
  <2>2. matches /\ found.to = queue[t] => found = EndLink(queue[t], word[t].count + 1)
    BY <2>1 DEF Link, EndLink
  <2>3. QED
    BY <1>2, <1>3, <1>6, <2>2 DEF LinkIsRight, HasLink
<1>9. PopIsRight(t)'
  BY <1>6 DEF PopIsRight, FromHead, Popping
<1>10. MarksAreNew'
  BY <1>2, <1>3, <1>4, MarksStep DEF Inserting, FromTail
<1>11. QED
  BY <1>2, <1>5, <1>7, <1>8, <1>9, <1>10, LocalStep

\* A call of pop or empty() begins.
LEMMA PopCallKeeps ==
  ASSUME TypeOK, TypeOK', NEW c \in [Queues -> Seq(Nodes)], Inv(c), NEW t \in Threads, NEW q \in Queues,
         MultiPopCall(t, q) \/ EmptyCall(t, q)
  PROVE  Inv(c)'
<1>1. /\ WordIsRight(c, t) /\ CallIsRight(t) /\ LinkIsRight(t) /\ PopIsRight(t)
      /\ MarksAreNew
  BY DEF Inv
<1>2. /\ UNCHANGED <<head, tail, next, value, free, contents, current>>
      /\ \A u \in Threads : u # t =>
           /\ pc'[u] = pc[u] /\ queue'[u] = queue[u]
           /\ word'[u] = word[u] /\ link'[u] = link[u] /\ result'[u] = result[u]
  <2>1. CASE MultiPopCall(t, q)
    BY <2>1 DEF MultiPopCall, Goto, sharedVars, histVars
  <2>2. CASE EmptyCall(t, q)
    BY <2>2 DEF EmptyCall, Goto, sharedVars, histVars
  <2>3. QED
    BY <2>1, <2>2
<1>3. /\ pc[t] = "idle" /\ Exists(q) /\ queue'[t] = q /\ word'[t] = word[t]
      /\ \/ MultiPop /\ pc'[t] = "pop_load"
         \/ pc'[t] = "empty_load"
  BY DEF MultiPopCall, EmptyCall, Goto, sharedVars, histVars, TypeOK
<1>4. word'[t].to = None /\ q # None /\ current'[t] = None
  BY <1>1, <1>2, <1>3, LockfreeQueueAssumption DEF CallIsRight, Inserting
<1>5. WordIsRight(c, t)'
  BY <1>4 DEF WordIsRight
<1>6. CallIsRight(t)'
  BY <1>2, <1>3, <1>4 DEF CallIsRight, Exists, Inserting, Popping, Pops, HasWord
<1>7. LinkIsRight(t)' /\ PopIsRight(t)'
  BY <1>3 DEF LinkIsRight, PopIsRight, HasLink, FromHead, Popping
<1>8. MarksAreNew'
  BY <1>2, <1>3, <1>4, MarksStep DEF FromTail
<1>9. QED
  BY <1>2, <1>5, <1>6, <1>7, <1>8, LocalStep

\* empty() reads the head.
LEMMA EmptyLoadKeeps ==
  ASSUME TypeOK, TypeOK', NEW c \in [Queues -> Seq(Nodes)], Inv(c), NEW t \in Threads,
         EmptyLoad(t)
  PROVE  Inv(c)'
<1>1. /\ WordIsRight(c, t) /\ CallIsRight(t) /\ LinkIsRight(t) /\ PopIsRight(t)
      /\ MarksAreNew
  BY DEF Inv
<1>2. /\ UNCHANGED <<head, tail, next, value, free, contents, current>>
      /\ \A u \in Threads : u # t =>
           /\ pc'[u] = pc[u] /\ queue'[u] = queue[u]
           /\ word'[u] = word[u] /\ link'[u] = link[u] /\ result'[u] = result[u]
  BY DEF EmptyLoad, Goto, sharedVars, histVars
<1>3. /\ pc[t] = "empty_load" /\ pc'[t] = "empty_next" /\ queue'[t] = queue[t]
      /\ word'[t] = head[queue[t]] /\ current'[t] = current[t]
  BY DEF EmptyLoad, Goto, sharedVars, histVars, TypeOK
<1>4. queue[t] \in Queues /\ queue[t] # None /\ Exists(queue[t]) /\ current[t] = None
  BY <1>1, <1>3 DEF CallIsRight, TypeOK, Inserting
<1>5. WordIsRight(c, t)' /\ ~Old(t)' /\ word'[t].to # None /\ word'[t].count <= head'[queue'[t]].count
  BY <1>2, <1>3, <1>4, LoadKnows
<1>6. CallIsRight(t)'
  BY <1>1, <1>2, <1>3, <1>4, <1>5 DEF CallIsRight, Exists, Inserting, Popping, Pops, HasWord
<1>7. LinkIsRight(t)' /\ PopIsRight(t)'
  BY <1>3, <1>5 DEF LinkIsRight, PopIsRight, HasLink, FromHead, Popping
<1>8. MarksAreNew'
  BY <1>2, <1>3, <1>4, MarksStep DEF FromTail
<1>9. QED
  BY <1>2, <1>5, <1>6, <1>7, <1>8, LocalStep

\* A word read from the head that is not old is the head, and its node's link
\* tells whether the queue is empty.
LEMMA AtHead ==
  ASSUME TypeOK, NEW c \in [Queues -> Seq(Nodes)], Inv(c), NEW t \in Threads,
         pc[t] \in FromHead, ~Old(t)
  PROVE  /\ queue[t] \in Queues /\ word[t].to = c[queue[t]][1]
         /\ word[t].count = head[queue[t]].count
         /\ next[word[t].to].count = word[t].count + 1
         /\ contents[queue[t]] = <<>> => next[word[t].to].to = queue[t] /\ Len(c[queue[t]]) = 1
         /\ contents[queue[t]] # <<>> =>
              /\ Len(c[queue[t]]) >= 2 /\ next[word[t].to].to = c[queue[t]][2]
              /\ next[word[t].to].to \in Nodes
<1>1. word[t].to # None /\ word[t].count <= head[queue[t]].count
  BY DEF Inv, CallIsRight, PopIsRight, FromHead, HasWord
<1> DEFINE q == queue[t]
           s == c[q]
<1>2. /\ q \in Queues /\ Exists(q) /\ word[t].count \in Nat /\ head[q].count \in Nat
      /\ \E i \in 1 .. Len(s) :
           /\ On(s, q, i, word[t]) /\ next[word[t].to].count = word[t].count + 1
           /\ next[word[t].to].to = IF i = Len(s) THEN q ELSE s[i + 1]
  BY <1>1, WordFacts
<1>3. PICK i \in 1 .. Len(s) :
           /\ On(s, q, i, word[t]) /\ next[word[t].to].count = word[t].count + 1
           /\ next[word[t].to].to = IF i = Len(s) THEN q ELSE s[i + 1]
  BY <1>2
<1>4. i = 1
  BY <1>1, <1>2, <1>3 DEF On
<1>5. word[t].count = head[q].count /\ word[t].to = s[1]
  BY <1>2, <1>3, <1>4 DEF On
<1>6. QueueIs(q, s) /\ s \in Seq(Nodes) /\ contents[q] \in Seq(Values)
  BY <1>2 DEF Inv, TypeOK
<1>7. Len(s) = Len(contents[q]) + 1 /\ \A j \in 1 .. Len(s) : s[j] \in Nodes
  BY <1>2, <1>6, ChainFacts
<1>8. contents[q] = <<>> => Len(s) = 1
  BY <1>7
<1>9. contents[q] # <<>> => Len(s) >= 2
  BY <1>6, <1>7
<1>10. contents[q] # <<>> => s[2] \in Nodes
  BY <1>7, <1>9
<1>11. QED
  BY <1>2, <1>3, <1>4, <1>5, <1>8, <1>9, <1>10


\* The consumer is told that there is something only when there is.
LEMMA EmptyNextKeeps ==
  ASSUME TypeOK, TypeOK', NEW c \in [Queues -> Seq(Nodes)], Inv(c), NEW t \in Threads,
         EmptyNext(t)
  PROVE  Inv(c)'
<1>1. /\ WordIsRight(c, t) /\ CallIsRight(t) /\ LinkIsRight(t) /\ PopIsRight(t)
      /\ MarksAreNew
  BY DEF Inv
<1>3. /\ pc[t] = "empty_next" /\ current[t] = None
      /\ queue[t] \in Queues /\ queue[t] # None /\ Exists(queue[t]) /\ queue[t] \notin Nodes
  BY <1>1, LockfreeQueueAssumption DEF EmptyNext, CallIsRight, Inserting, TypeOK
<1>2. /\ UNCHANGED <<head, tail, next, value, free, contents>>
      /\ current' = current
      /\ \A u \in Threads : u # t =>
           /\ pc'[u] = pc[u] /\ queue'[u] = queue[u]
           /\ word'[u] = word[u] /\ link'[u] = link[u] /\ result'[u] = result[u]
  BY <1>3 DEF EmptyNext, Return, Goto, sharedVars, histVars, TypeOK
<1>4. word'[t] = NoWord /\ word'[t].to = None
  BY DEF EmptyNext, Return, Goto, TypeOK, NoWord
<1>5. \/ /\ pc'[t] = "pop_load" /\ queue'[t] = queue[t] /\ next[word[t].to].to # queue[t]
         /\ t = Consumer /\ ~MultiPop
      \/ pc'[t] = "idle" /\ queue'[t] = None
  BY DEF EmptyNext, Return, Goto, TypeOK
<1>6. MarksAreNew'
  BY <1>2, <1>4, <1>5, MarksStep DEF FromTail
<1>7. CASE pc'[t] = "idle" /\ queue'[t] = None
  <2>1. WordIsRight(c, t)' /\ CallIsRight(t)' /\ LinkIsRight(t)' /\ PopIsRight(t)'
    BY <1>2, <1>3, <1>4, <1>7, IdleKnows
  <2>2. QED
    BY <1>2, <1>6, <2>1, LocalStep
<1>8. CASE /\ pc'[t] = "pop_load" /\ queue'[t] = queue[t] /\ next[word[t].to].to # queue[t]
           /\ t = Consumer /\ ~MultiPop
  <2>1. contents[queue[t]] # <<>>
    <3>1. ~Old(t) /\ pc[t] \in FromHead
      BY <1>1, <1>3, <1>8 DEF PopIsRight, FromHead
    <3>2. QED
      BY <3>1, <1>8, AtHead
  <2>2. WordIsRight(c, t)'
    BY <1>4 DEF WordIsRight
  <2>3. CallIsRight(t)'
    BY <1>2, <1>3, <1>4, <1>8 DEF CallIsRight, Exists, Inserting, Popping, Pops, HasWord
  <2>4. LinkIsRight(t)' /\ PopIsRight(t)'
    BY <1>2, <1>8, <2>1 DEF LinkIsRight, PopIsRight, HasLink, FromHead, Popping
  <2>5. QED
    BY <1>2, <1>6, <2>2, <2>3, <2>4, LocalStep
<1>9. QED
  BY <1>5, <1>7, <1>8

\* pop reads the head.
LEMMA PopLoadKeeps ==
  ASSUME TypeOK, TypeOK', NEW c \in [Queues -> Seq(Nodes)], Inv(c), NEW t \in Threads,
         PopLoad(t)
  PROVE  Inv(c)'
<1>1. /\ WordIsRight(c, t) /\ CallIsRight(t) /\ LinkIsRight(t) /\ PopIsRight(t)
      /\ MarksAreNew
  BY DEF Inv
<1>2. /\ UNCHANGED <<head, tail, next, value, free, contents, current>>
      /\ \A u \in Threads : u # t =>
           /\ pc'[u] = pc[u] /\ queue'[u] = queue[u]
           /\ word'[u] = word[u] /\ link'[u] = link[u] /\ result'[u] = result[u]
  BY DEF PopLoad, Goto, sharedVars, histVars
<1>3. /\ pc[t] = "pop_load" /\ pc'[t] = "pop_next" /\ queue'[t] = queue[t]
      /\ word'[t] = head[queue[t]] /\ current'[t] = current[t]
  BY DEF PopLoad, Goto, sharedVars, histVars, TypeOK
<1>4. queue[t] \in Queues /\ queue[t] # None /\ Exists(queue[t]) /\ current[t] = None
  BY <1>1, <1>3 DEF CallIsRight, TypeOK, Inserting
<1>5. WordIsRight(c, t)' /\ ~Old(t)' /\ word'[t].to # None /\ word'[t].count <= head'[queue'[t]].count
  BY <1>2, <1>3, <1>4, LoadKnows
<1>6. CallIsRight(t)'
  BY <1>1, <1>2, <1>3, <1>4, <1>5 DEF CallIsRight, Exists, Inserting, Popping, Pops, HasWord
<1>7. LinkIsRight(t)'
  BY <1>3 DEF LinkIsRight, HasLink
<1>8. PopIsRight(t)'
  BY <1>1, <1>2, <1>3, <1>5 DEF PopIsRight, FromHead, Popping
<1>9. MarksAreNew'
  BY <1>2, <1>3, <1>4, MarksStep DEF FromTail
<1>10. QED
  BY <1>2, <1>5, <1>6, <1>7, <1>8, <1>9, LocalStep

\* The exchange of the head has yielded another one.
LEMMA PopRetryKeeps ==
  ASSUME TypeOK, TypeOK', NEW c \in [Queues -> Seq(Nodes)], Inv(c), NEW t \in Threads,
         PopRetry(t)
  PROVE  Inv(c)'
<1>1. /\ WordIsRight(c, t) /\ CallIsRight(t) /\ LinkIsRight(t) /\ PopIsRight(t)
      /\ MarksAreNew
  BY DEF Inv
<1>2. /\ UNCHANGED <<head, tail, next, value, free, contents, current>>
      /\ \A u \in Threads : u # t =>
           /\ pc'[u] = pc[u] /\ queue'[u] = queue[u]
           /\ word'[u] = word[u] /\ link'[u] = link[u] /\ result'[u] = result[u]
  BY DEF PopRetry, Goto, sharedVars, histVars
<1>3. /\ pc[t] = "pop_head" /\ pc'[t] = "pop_next" /\ queue'[t] = queue[t]
      /\ word'[t] = head[queue[t]] /\ current'[t] = current[t]
  BY DEF PopRetry, Goto, sharedVars, histVars, TypeOK
<1>4. queue[t] \in Queues /\ queue[t] # None /\ Exists(queue[t]) /\ current[t] = None
  BY <1>1, <1>3 DEF CallIsRight, TypeOK, Inserting
<1>5. WordIsRight(c, t)' /\ ~Old(t)' /\ word'[t].to # None /\ word'[t].count <= head'[queue'[t]].count
  BY <1>2, <1>3, <1>4, LoadKnows
<1>6. CallIsRight(t)'
  BY <1>1, <1>2, <1>3, <1>4, <1>5 DEF CallIsRight, Exists, Inserting, Popping, Pops, HasWord
<1>7. LinkIsRight(t)'
  BY <1>3 DEF LinkIsRight, HasLink
<1>8. PopIsRight(t)'
  BY <1>1, <1>2, <1>3, <1>5 DEF PopIsRight, FromHead, Popping
<1>9. MarksAreNew'
  BY <1>2, <1>3, <1>4, MarksStep DEF FromTail
<1>10. QED
  BY <1>2, <1>5, <1>6, <1>7, <1>8, <1>9, LocalStep

\* pop reads the link behind the head: the one consumer finds a node there.
LEMMA PopNextKeeps ==
  ASSUME TypeOK, TypeOK', NEW c \in [Queues -> Seq(Nodes)], Inv(c), NEW t \in Threads,
         PopNext(t)
  PROVE  Inv(c)'
<1>1. /\ WordIsRight(c, t) /\ CallIsRight(t) /\ LinkIsRight(t) /\ PopIsRight(t)
      /\ MarksAreNew
  BY DEF Inv
<1>3. /\ pc[t] = "pop_next" /\ current[t] = None
      /\ queue[t] \in Queues /\ queue[t] # None /\ Exists(queue[t]) /\ queue[t] \notin Nodes
      /\ word[t].to # None /\ (MultiPop \/ t = Consumer)
  BY <1>1, LockfreeQueueAssumption DEF PopNext, CallIsRight, Inserting, HasWord, Pops, Popping, TypeOK
<1>2. /\ UNCHANGED <<head, tail, next, value, free, contents>>
      /\ current' = current
      /\ \A u \in Threads : u # t =>
           /\ pc'[u] = pc[u] /\ queue'[u] = queue[u]
           /\ word'[u] = word[u] /\ link'[u] = link[u] /\ result'[u] = result[u]
  BY <1>3 DEF PopNext, Return, Goto, sharedVars, histVars, TypeOK
<1> DEFINE found == next[word[t].to]
           matches == found.count = word[t].count + 1
<1>4. \/ pc'[t] = "idle" /\ queue'[t] = None /\ word'[t] = NoWord
      \/ /\ queue'[t] = queue[t] /\ word'[t] = word[t] /\ link'[t] = found
         /\ pc'[t] = CASE found.to \in Nodes /\ (MultiPop => matches) -> "pop_tail"
                       [] ~MultiPop /\ found.to \notin Nodes          -> "broken"
                       [] OTHER                                       -> "pop_load"
  BY DEF PopNext, Return, Goto, TypeOK
<1>5. CASE pc'[t] = "idle" /\ queue'[t] = None /\ word'[t] = NoWord
  <2>1. WordIsRight(c, t)' /\ CallIsRight(t)' /\ LinkIsRight(t)' /\ PopIsRight(t)'
    BY <1>2, <1>3, <1>5, IdleKnows
  <2>2. word'[t].to = None
    BY <1>5 DEF NoWord
  <2>3. MarksAreNew'
    BY <1>2, <1>5, <2>2, MarksStep DEF FromTail
  <2>4. QED
    BY <1>2, <2>1, <2>3, LocalStep
<1>6. CASE /\ queue'[t] = queue[t] /\ word'[t] = word[t] /\ link'[t] = found
           /\ pc'[t] = CASE found.to \in Nodes /\ (MultiPop => matches) -> "pop_tail"
                         [] ~MultiPop /\ found.to \notin Nodes          -> "broken"
                         [] OTHER                                       -> "pop_load"
  <2>1. ~MultiPop => found.to \in Nodes
    <3>1. ASSUME ~MultiPop
          PROVE  ~Old(t) /\ pc[t] \in FromHead /\ contents[queue[t]] # <<>>
      BY <1>1, <1>3, <3>1 DEF PopIsRight, FromHead, Popping
    <3>2. QED
      BY <3>1, AtHead
  <2>2. \/ pc'[t] = "pop_tail" /\ found.to \in Nodes
        \/ pc'[t] = "pop_load"
    BY <1>6, <2>1, LockfreeQueueAssumption
  <2>3. WordIsRight(c, t)' /\ (Old(t)' <=> Old(t))
    BY <1>2, <1>6, KeepKnows
  <2>4. CallIsRight(t)'
    BY <1>1, <1>2, <1>3, <1>6, <2>2 DEF CallIsRight, Exists, Inserting, Popping, Pops, HasWord
  <2>5. LinkIsRight(t)'
    BY <1>2, <1>6, <2>2 DEF LinkIsRight, HasLink
  <2>6. PopIsRight(t)'
    BY <1>1, <1>2, <1>3, <1>6, <2>2, <2>3 DEF PopIsRight, FromHead, Popping
  <2>7. MarksAreNew'
    BY <1>2, <1>6, <2>2, MarksStep DEF FromTail
  <2>8. QED
    BY <1>2, <2>3, <2>4, <2>5, <2>6, <2>7, LocalStep
<1>7. QED
  BY <1>4, <1>5, <1>6

\* A word that is not old stands for one node only: another word of the queue with
\* its count is the same.
LEMMA TailIsPast ==
  ASSUME TypeOK, NEW c \in [Queues -> Seq(Nodes)], Inv(c), NEW t \in Threads,
         pc[t] \in FromHead, ~Old(t), tail[queue[t]] # word[t]
  PROVE  tail[queue[t]].count > word[t].count
<1> DEFINE q == queue[t]
<1>1. /\ q \in Queues /\ word[t].to = c[q][1] /\ word[t].count = head[q].count
  BY AtHead
<1>2. Exists(q)
  BY <1>1, LockfreeQueueAssumption DEF Inv, CallIsRight
<1>3. /\ \E i \in 1 .. Len(c[q]) : On(c[q], q, i, tail[q])
      /\ head[q].count \in Nat /\ tail[q].count \in Nat /\ tail[q].count >= head[q].count
  BY <1>1, <1>2, Loaded
<1>4. PICK i \in 1 .. Len(c[q]) : tail[q].to = c[q][i] /\ tail[q].count = head[q].count + i - 1
  BY <1>3 DEF On
<1>5. tail[q] \in Word /\ word[t] \in Word
  BY <1>1 DEF TypeOK
<1>6. ASSUME tail[q].count = word[t].count PROVE FALSE
  <2>1. i = 1
    BY <1>1, <1>3, <1>4, <1>6
  <2>2. tail[q].to = word[t].to
    BY <1>1, <1>4, <2>1
  <2>3. QED
    BY <1>5, <1>6, <2>2 DEF Word
<1>7. QED
  BY <1>1, <1>3, <1>6


\* pop compares the tail with its head.
LEMMA PopTailKeeps ==
  ASSUME TypeOK, TypeOK', NEW c \in [Queues -> Seq(Nodes)], Inv(c), NEW t \in Threads,
         PopTail(t)
  PROVE  Inv(c)'
<1>1. /\ WordIsRight(c, t) /\ CallIsRight(t) /\ LinkIsRight(t) /\ PopIsRight(t)
      /\ MarksAreNew
  BY DEF Inv
<1>2. /\ UNCHANGED <<head, tail, next, value, free, contents, current>>
      /\ \A u \in Threads : u # t =>
           /\ pc'[u] = pc[u] /\ queue'[u] = queue[u]
           /\ word'[u] = word[u] /\ link'[u] = link[u] /\ result'[u] = result[u]
  BY DEF PopTail, Goto, sharedVars, histVars
<1>3. /\ pc[t] = "pop_tail" /\ queue'[t] = queue[t] /\ word'[t] = word[t]
      /\ link'[t] = link[t]
      /\ pc'[t] = IF tail[queue[t]] = word[t] THEN "pop_help" ELSE "pop_value"
  BY DEF PopTail, Goto, sharedVars, histVars, TypeOK
<1>4. WordIsRight(c, t)' /\ (Old(t)' <=> Old(t))
  BY <1>2, <1>3, KeepKnows
<1>5. CallIsRight(t)'
  BY <1>1, <1>2, <1>3 DEF CallIsRight, Exists, Inserting, Popping, Pops, HasWord
<1>6. LinkIsRight(t)'
  BY <1>1, <1>2, <1>3, <1>4 DEF LinkIsRight, HasLink
<1>7. PopIsRight(t)'
  <2>1. ASSUME pc'[t] = "pop_value", ~Old(t)
        PROVE  tail[queue[t]].count > word[t].count
    <3>1. pc[t] \in FromHead /\ tail[queue[t]] # word[t]
      BY <1>3, <2>1 DEF FromHead
    <3>2. QED
      BY <2>1, <3>1, TailIsPast
  <2>2. QED
    BY <1>1, <1>2, <1>3, <1>4, <2>1 DEF PopIsRight, FromHead, Popping
<1>8. MarksAreNew'
  BY <1>2, <1>3, MarksStep DEF FromTail
<1>9. QED
  BY <1>2, <1>4, <1>5, <1>6, <1>7, <1>8, LocalStep

\* pop reads the value of the node behind its head.
LEMMA PopValueKeeps ==
  ASSUME TypeOK, TypeOK', NEW c \in [Queues -> Seq(Nodes)], Inv(c), NEW t \in Threads,
         PopValue(t)
  PROVE  Inv(c)'
<1>1. /\ WordIsRight(c, t) /\ CallIsRight(t) /\ LinkIsRight(t) /\ PopIsRight(t)
      /\ MarksAreNew
  BY DEF Inv
<1>2. /\ UNCHANGED <<head, tail, next, value, free, contents, current>>
      /\ \A u \in Threads : u # t =>
           /\ pc'[u] = pc[u] /\ queue'[u] = queue[u]
           /\ word'[u] = word[u] /\ link'[u] = link[u] /\ result'[u] = result[u]
  BY DEF PopValue, Goto, sharedVars, histVars
<1>3. /\ pc[t] = "pop_value" /\ queue'[t] = queue[t] /\ word'[t] = word[t]
      /\ link'[t] = link[t] /\ pc'[t] = "pop_head" /\ result'[t] = value[link[t].to]
  BY DEF PopValue, Goto, sharedVars, histVars, TypeOK
<1>4. WordIsRight(c, t)' /\ (Old(t)' <=> Old(t))
  BY <1>2, <1>3, KeepKnows
<1>5. CallIsRight(t)'
  BY <1>1, <1>2, <1>3 DEF CallIsRight, Exists, Inserting, Popping, Pops, HasWord
<1>6. LinkIsRight(t)'
  BY <1>1, <1>2, <1>3, <1>4 DEF LinkIsRight, HasLink
<1>7. PopIsRight(t)'
  BY <1>1, <1>2, <1>3, <1>4 DEF PopIsRight, FromHead, Popping
<1>8. MarksAreNew'
  BY <1>2, <1>3, MarksStep DEF FromTail
<1>9. QED
  BY <1>2, <1>4, <1>5, <1>6, <1>7, <1>8, LocalStep
-----------------------------------------------------------------------------
(* Steps that touch what is shared.                                          *)

\* A thread whose queue keeps its head, its values and its links, and whose node
\* nobody touches, stays right.
LEMMA SameChain ==
  ASSUME TypeOK, TypeOK', NEW c \in [Queues -> Seq(Nodes)], NEW d \in [Queues -> Seq(Nodes)],
         Inv(c), NEW u \in Threads,
         pc'[u] = pc[u], queue'[u] = queue[u], current'[u] = current[u],
         word'[u] = word[u], link'[u] = link[u], result'[u] = result[u],
         \A q \in Queues : queue[u] = q =>
           /\ head'[q] = head[q] /\ d[q] = c[q]
           /\ tail'[q].count >= tail[q].count
           /\ contents'[q] = contents[q]
           /\ \A i \in 1 .. Len(c[q]) :
                next'[c[q][i]] = next[c[q][i]] /\ value'[c[q][i]] = value[c[q][i]]
           /\ \A n \in Nodes : word[u].to = n =>
                \/ next'[n] = next[n] \/ next'[n].to # q
                \/ next'[n].count > word[u].count + 1,
         current[u] # None =>
           next'[current[u]] = next[current[u]] /\ value'[current[u]] = value[current[u]]
  PROVE  WordIsRight(d, u)' /\ CallIsRight(u)' /\ LinkIsRight(u)' /\ PopIsRight(u)'
<1>1. CASE queue[u] = None
  BY <1>1, IdleKeeps
<1>2. CASE queue[u] # None
  <2> DEFINE q == queue[u]
  <2>1. q \in Queues /\ QueueIs(q, c[q]) /\ c[q] \in Seq(Nodes)
        /\ WordIsRight(c, u) /\ CallIsRight(u) /\ PopIsRight(u)
    BY <1>2 DEF TypeOK, Inv
  <2>2. /\ head'[q] = head[q] /\ d[q] = c[q]
        /\ tail'[q].count >= tail[q].count
        /\ contents'[q] = contents[q]
        /\ \A i \in 1 .. Len(c[q]) :
             next'[c[q][i]] = next[c[q][i]] /\ value'[c[q][i]] = value[c[q][i]]
        /\ \A n \in Nodes : word[u].to = n =>
             \/ next'[n] = next[n] \/ next'[n].to # q
             \/ next'[n].count > word[u].count + 1
    BY <2>1
  <2>3. Exists(q)' /\ Exists(q)
    BY <1>2, <2>1, <2>2 DEF CallIsRight, Exists
  <2>4. head[q].count \in Nat /\ word[u] \in Word
    BY <2>1, <2>3, ChainFacts DEF TypeOK
  <2>5. head'[q].count >= head[q].count /\ head'[q].count = head[q].count
    BY <2>2, <2>4
  <2>6. pc[u] \in Popping /\ ~MultiPop => contents'[q] # <<>>
    BY <2>1, <2>2 DEF PopIsRight
  <2>7. word[u].to # None /\ word[u].count < head'[q].count /\ next'[word[u].to].to = q =>
           next'[word[u].to].count > word[u].count + 1
    <3>1. word[u].to # None => word[u].to \in Nodes
      BY <2>4 DEF Word
    <3>2. word[u].to # None /\ word[u].count < head[q].count /\ next[word[u].to].to = q =>
             next[word[u].to].count > word[u].count + 1
      BY <2>1 DEF WordIsRight, Old
    <3>3. QED
      BY <2>2, <2>5, <3>1, <3>2
  <2>8. pc[u] \in Inserting => value'[current[u]] \in Values
    BY <2>1 DEF CallIsRight
  <2>9. pc[u] = "emplace_link" => next'[current[u]] = next[current[u]]
    BY <2>1 DEF CallIsRight, Inserting
  <2>10. \A i \in 1 .. Len(c[q]) : head[q].count + i - 1 >= head'[q].count =>
           \E j \in 1 .. Len(d[q]) : d[q][j] = c[q][i] /\ head'[q].count + j = head[q].count + i
    BY <2>2
  <2>11. \A i \in 1 .. Len(c[q]) : i # Len(c[q]) => next'[c[q][i]] = next[c[q][i]]
    BY <2>2
  <2>12. \A i \in 1 .. Len(c[q]) : value'[c[q][i]] = value[c[q][i]]
    BY <2>2
  <2>13. QED
    BY <1>2, <2>1, <2>2, <2>3, <2>5, <2>6, <2>7, <2>8, <2>9, <2>10, <2>11, <2>12, CallKeeps
<1>3. QED
  BY <1>1, <1>2

\* A queue whose nodes nobody touches is the chain it was, though its tail may move
\* along.
LEMMA SameQueue ==
  ASSUME TypeOK, NEW q \in Queues, NEW s \in Seq(Nodes), QueueIs(q, s),
         head'[q] = head[q], contents'[q] = contents[q],
         \A i \in 1 .. Len(s) : next'[s[i]] = next[s[i]] /\ value'[s[i]] = value[s[i]],
         \/ tail'[q] = tail[q]
         \/ \E i \in 1 .. Len(s) : tail'[q].to = s[i] /\ tail'[q].count = head[q].count + i - 1
  PROVE  QueueIs(q, s)'
<1>1. CASE ~Exists(q)
  BY <1>1 DEF QueueIs, Exists
<1>2. CASE Exists(q)
  <2>1. /\ s # <<>> /\ head[q].to = s[1]
        /\ \A i \in 1 .. Len(s) :
             next[s[i]] = [to |-> IF i = Len(s) THEN q ELSE s[i + 1], count |-> head[q].count + i]
        /\ Len(s) = Len(contents[q]) + 1
        /\ \A i \in 1 .. Len(contents[q]) : contents[q][i] = value[s[i + 1]]
        /\ \E i \in 1 .. Len(s) : On(s, q, i, tail[q])
    BY <1>2 DEF QueueIs
  <2>2. /\ Exists(q)' /\ s # <<>> /\ head'[q].to = s[1]
        /\ \A i \in 1 .. Len(s) :
             next'[s[i]] = [to |-> IF i = Len(s) THEN q ELSE s[i + 1], count |-> head'[q].count + i]
        /\ Len(s) = Len(contents'[q]) + 1
    BY <1>2, <2>1 DEF Exists
  <2>3. \A i \in 1 .. Len(contents'[q]) : contents'[q][i] = value'[s[i + 1]]
    <3> SUFFICES ASSUME NEW i \in 1 .. Len(contents[q]) PROVE contents[q][i] = value'[s[i + 1]]
      OBVIOUS
    <3>1. contents[q] \in Seq(Values) /\ Len(contents[q]) \in Nat
      BY DEF TypeOK
    <3>2. i + 1 \in 1 .. Len(s)
      BY <2>1, <3>1
    <3>3. QED
      BY <2>1, <3>2
  <2>4. (\E i \in 1 .. Len(s) : On(s, q, i, tail[q]))'
    BY <2>1 DEF On
  <2>5. QED
    BY <2>2, <2>3, <2>4 DEF QueueIs
<1>3. QED
  BY <1>1, <1>2

\* A node is taken from the pool for a value.
LEMMA EmplaceAllocateKeeps ==
  ASSUME TypeOK, TypeOK', NEW c \in [Queues -> Seq(Nodes)], Inv(c), NEW t \in Threads,
         NEW q \in Queues, NEW n \in Nodes, NEW v \in Values,
         EmplaceAllocate(t, q, n, v)
  PROVE  Inv(c)'
<1>1. /\ WordIsRight(c, t) /\ CallIsRight(t) /\ Apart(c) /\ n # None /\ q # None
      /\ \A r \in Queues : QueueIs(r, c[r])
  BY LockfreeQueueAssumption DEF Inv
<1>2. /\ pc[t] = "idle" /\ Exists(q) /\ n \in free
      /\ UNCHANGED <<head, tail, next, word, link, result, contents>>
      /\ free' = free \ {n} /\ value'[n] = v
      /\ \A m \in Nodes : m # n => value'[m] = value[m]
      /\ current'[t] = n /\ queue'[t] = q /\ pc'[t] = "emplace_load"
      /\ \A u \in Threads : u # t =>
           pc'[u] = pc[u] /\ queue'[u] = queue[u] /\ current'[u] = current[u]
  BY DEF EmplaceAllocate, Goto, TypeOK
<1>3. \A r \in Queues : \A i \in 1 .. Len(c[r]) :
        c[r][i] \in Nodes /\ c[r][i] # n /\ value'[c[r][i]] = value[c[r][i]]
  <2> TAKE r \in Queues
  <2> TAKE i \in 1 .. Len(c[r])
  <2>1. c[r][i] \in Nodes /\ c[r][i] \notin free
    BY <1>1 DEF Apart
  <2>2. QED
    BY <1>2, <2>1
<1>4. \A u \in Threads : current[u] # n
  BY <1>1, <1>2 DEF Apart
<1>5. ASSUME NEW r \in Queues PROVE QueueIs(r, c[r])'
  BY <1>1, <1>2, <1>3, SameQueue
<1>6. Apart(c)'
  <2>1. \A r \in Queues : \A i \in 1 .. Len(c[r]) :
          c[r][i] \notin free' /\ \A u \in Threads : c[r][i] # current'[u]
    BY <1>1, <1>2, <1>3 DEF Apart
  <2>2. \A u \in Threads : current'[u] \notin free'
    BY <1>1, <1>2 DEF Apart
  <2>3. \A x, u \in Threads : current'[x] = current'[u] /\ current'[x] # None => x = u
    BY <1>1, <1>2, <1>4 DEF Apart
  <2>4. QED
    BY <1>1, <2>1, <2>2, <2>3 DEF Apart
<1>7. ASSUME NEW u \in Threads, u # t
      PROVE  WordIsRight(c, u)' /\ CallIsRight(u)' /\ LinkIsRight(u)' /\ PopIsRight(u)'
  <2>1. \A r \in Queues : tail[r].count \in Nat /\ tail'[r].count >= tail[r].count
    BY <1>2 DEF TypeOK, Word
  <2>2. current[u] # None => current[u] \in Nodes /\ value'[current[u]] = value[current[u]]
    BY <1>2, <1>4 DEF TypeOK
  <2>3. QED
    BY <1>2, <1>3, <1>7, <2>1, <2>2, SameChain
<1>8. WordIsRight(c, t)' /\ CallIsRight(t)' /\ LinkIsRight(t)' /\ PopIsRight(t)'
  <2>1. word'[t].to = None
    BY <1>1, <1>2 DEF CallIsRight
  <2>2. WordIsRight(c, t)'
    BY <2>1 DEF WordIsRight
  <2>3. CallIsRight(t)'
    BY <1>1, <1>2, <2>1 DEF CallIsRight, Exists, Inserting, Popping, Pops, HasWord
  <2>4. LinkIsRight(t)' /\ PopIsRight(t)'
    BY <1>2 DEF LinkIsRight, PopIsRight, HasLink, FromHead, Popping
  <2>5. QED
    BY <2>2, <2>3, <2>4
<1>9. MarksAreNew'
  <2>1. word'[t].to = None
    BY <1>1, <1>2 DEF CallIsRight
  <2>2. QED
    BY <1>2, <2>1, MarksStep DEF FromTail
<1>10. QED
  BY <1>5, <1>6, <1>7, <1>8, <1>9 DEF Inv

\* The tail that is moved on goes to the next node.
LEMMA TailMoves ==
  ASSUME TypeOK, NEW c \in [Queues -> Seq(Nodes)], Inv(c), NEW t \in Threads,
         pc[t] \in HasLink, tail[queue[t]] = word[t]
  PROVE  /\ ~Old(t) /\ queue[t] \in Queues /\ link[t].count = tail[queue[t]].count + 1
         /\ \E i \in 1 .. Len(c[queue[t]]) :
              link[t].to = c[queue[t]][i] /\ link[t].count = head[queue[t]].count + i - 1
<1> DEFINE q == queue[t]
           s == c[q]
<1>1. /\ word[t].to # None /\ link[t].to \in Nodes
      /\ Old(t) \/ link[t] = next[word[t].to]
  BY DEF Inv, CallIsRight, LinkIsRight, HasLink, HasWord
<1>2. /\ q \in Queues /\ Exists(q) /\ word[t].count \in Nat /\ head[q].count \in Nat
      /\ Old(t) => tail[q].count > word[t].count
  BY <1>1, WordFacts
<1>3. ~Old(t) /\ link[t] = next[word[t].to]
  BY <1>1, <1>2
<1>4. PICK i \in 1 .. Len(s) :
           /\ On(s, q, i, word[t]) /\ next[word[t].to].count = word[t].count + 1
           /\ next[word[t].to].to = IF i = Len(s) THEN q ELSE s[i + 1]
  BY <1>1, <1>3, WordFacts
<1>5. q \notin Nodes /\ Len(s) \in Nat
  BY <1>2, LockfreeQueueAssumption
<1>6. i + 1 \in 1 .. Len(s) /\ link[t].to = s[i + 1]
  BY <1>1, <1>3, <1>4, <1>5
<1>7. link[t].count = head[q].count + (i + 1) - 1
  BY <1>2, <1>3, <1>4 DEF On
<1>8. link[t].count = tail[q].count + 1
  BY <1>3, <1>4
<1>9. QED
  BY <1>2, <1>3, <1>6, <1>7, <1>8

\* Whoever moves the tail on, the queues are the chains they were.
LEMMA HelpKeeps ==
  ASSUME TypeOK, TypeOK', NEW c \in [Queues -> Seq(Nodes)], Inv(c), NEW t \in Threads,
         pc[t] \in HasLink,
         tail' = [tail EXCEPT ![queue[t]] = IF @ = word[t] THEN link[t] ELSE @],
         UNCHANGED <<head, next, value, free, contents, queue, current, link, result>>,
         \A u \in Threads : u # t => pc'[u] = pc[u] /\ word'[u] = word[u]
  PROVE  /\ \A r \in Queues : QueueIs(r, c[r])'
         /\ Apart(c)'
         /\ \A u \in Threads : u # t =>
              WordIsRight(c, u)' /\ CallIsRight(u)' /\ LinkIsRight(u)' /\ PopIsRight(u)'
         /\ queue[t] \in Queues /\ queue[t] # None /\ Exists(queue[t])
<1> DEFINE q == queue[t]
<1>1. q \in Queues /\ q # None /\ Exists(q)
  BY LockfreeQueueAssumption DEF TypeOK, Inv, CallIsRight, HasLink
<1>2. \A r \in Queues : /\ r # q => tail'[r] = tail[r]
                        /\ tail'[q] = IF tail[q] = word[t] THEN link[t] ELSE tail[q]
  BY <1>1 DEF TypeOK
<1>3. ASSUME tail'[q] # tail[q]
      PROVE  /\ tail'[q].count = tail[q].count + 1
             /\ \E i \in 1 .. Len(c[q]) :
                  tail'[q].to = c[q][i] /\ tail'[q].count = head[q].count + i - 1
  <2>1. tail[q] = word[t] /\ tail'[q] = link[t]
    BY <1>1, <1>2, <1>3
  <2>2. QED
    BY <2>1, TailMoves
<1>4. ASSUME NEW r \in Queues PROVE QueueIs(r, c[r])'
  <2>1. \/ tail'[r] = tail[r]
        \/ \E i \in 1 .. Len(c[r]) :
             tail'[r].to = c[r][i] /\ tail'[r].count = head[r].count + i - 1
    BY <1>2, <1>3
  <2>2. QueueIs(r, c[r]) /\ c[r] \in Seq(Nodes)
    BY DEF Inv
  <2>3. QED
    BY <2>1, <2>2, SameQueue
<1>5. Apart(c)'
  BY DEF Inv, Apart
<1>6. \A r \in Queues : tail'[r].count >= tail[r].count
  <2> TAKE r \in Queues
  <2>1. tail[r].count \in Nat
    BY DEF TypeOK, Word
  <2>2. QED
    BY <1>2, <1>3, <2>1
<1>7. ASSUME NEW u \in Threads, u # t
      PROVE  WordIsRight(c, u)' /\ CallIsRight(u)' /\ LinkIsRight(u)' /\ PopIsRight(u)'
  BY <1>6, <1>7, SameChain
<1>8. QED
  BY <1>1, <1>4, <1>5, <1>7

\* An insertion that finds the tail behind moves it on and starts over with the
\* tail it found.
LEMMA EmplaceHelpKeeps ==
  ASSUME TypeOK, TypeOK', NEW c \in [Queues -> Seq(Nodes)], Inv(c), NEW t \in Threads,
         EmplaceHelp(t)
  PROVE  Inv(c)'
<1>1. CallIsRight(t)
  BY DEF Inv
<1>2. /\ pc[t] = "emplace_help" /\ pc'[t] = "emplace_next" /\ word'[t] = tail[queue[t]]
      /\ tail' = [tail EXCEPT ![queue[t]] = IF @ = word[t] THEN link[t] ELSE @]
      /\ UNCHANGED <<head, next, value, free, contents, queue, current, link, result>>
      /\ \A u \in Threads : u # t => pc'[u] = pc[u] /\ word'[u] = word[u]
  BY DEF EmplaceHelp, Goto, histVars, TypeOK
<1>3. /\ \A r \in Queues : QueueIs(r, c[r])'
      /\ Apart(c)'
      /\ \A u \in Threads : u # t =>
           WordIsRight(c, u)' /\ CallIsRight(u)' /\ LinkIsRight(u)' /\ PopIsRight(u)'
      /\ queue[t] \in Queues /\ queue[t] # None /\ Exists(queue[t])
  BY <1>2, HelpKeeps DEF HasLink
<1>4. WordIsRight(c, t)' /\ ~Old(t)' /\ word'[t].to # None
  BY <1>2, <1>3, LoadKnows
<1>5. CallIsRight(t)'
  BY <1>1, <1>2, <1>3, <1>4 DEF CallIsRight, Exists, Inserting, Popping, Pops, HasWord
<1>6. LinkIsRight(t)' /\ PopIsRight(t)'
  BY <1>2 DEF LinkIsRight, PopIsRight, HasLink, FromHead, Popping
<1>7. MarksAreNew'
  BY <1>2, <1>3, MarksStep DEF Inserting
<1>8. ASSUME NEW u \in Threads
      PROVE  WordIsRight(c, u)' /\ CallIsRight(u)' /\ LinkIsRight(u)' /\ PopIsRight(u)'
  BY <1>3, <1>4, <1>5, <1>6
<1>9. QED
  BY <1>3, <1>7, <1>8 DEF Inv

\* A pop that finds the tail at its head moves it on.
LEMMA PopHelpKeeps ==
  ASSUME TypeOK, TypeOK', NEW c \in [Queues -> Seq(Nodes)], Inv(c), NEW t \in Threads,
         PopHelp(t)
  PROVE  Inv(c)'
<1>1. WordIsRight(c, t) /\ CallIsRight(t) /\ LinkIsRight(t) /\ PopIsRight(t)
  BY DEF Inv
<1>2. /\ pc[t] = "pop_help" /\ pc'[t] = "pop_value" /\ word' = word
      /\ tail' = [tail EXCEPT ![queue[t]] = IF @ = word[t] THEN link[t] ELSE @]
      /\ UNCHANGED <<head, next, value, free, contents, queue, current, link, result>>
      /\ \A u \in Threads : u # t => pc'[u] = pc[u] /\ word'[u] = word[u]
  BY DEF PopHelp, Goto, histVars, TypeOK
<1>3. /\ \A r \in Queues : QueueIs(r, c[r])'
      /\ Apart(c)'
      /\ \A u \in Threads : u # t =>
           WordIsRight(c, u)' /\ CallIsRight(u)' /\ LinkIsRight(u)' /\ PopIsRight(u)'
      /\ queue[t] \in Queues /\ queue[t] # None /\ Exists(queue[t])
  BY <1>2, HelpKeeps DEF HasLink
<1>4. WordIsRight(c, t)' /\ (Old(t)' <=> Old(t))
  BY <1>2, KeepKnows
<1>5. CallIsRight(t)'
  BY <1>1, <1>2, <1>3 DEF CallIsRight, Exists, Inserting, Popping, Pops, HasWord
<1>6. LinkIsRight(t)'
  BY <1>1, <1>2, <1>4 DEF LinkIsRight, HasLink
<1>7. PopIsRight(t)'
  <2>1. ASSUME ~Old(t) PROVE tail'[queue[t]].count > word[t].count
    <3>1. CASE tail[queue[t]] = word[t]
      <4>1. link[t].count = tail[queue[t]].count + 1
        BY <1>2, <3>1, TailMoves DEF HasLink
      <4>2. tail'[queue[t]] = link[t]
        BY <1>2, <1>3, <3>1 DEF TypeOK
      <4>3. tail[queue[t]].count \in Nat
        BY <1>3 DEF TypeOK, Word
      <4>4. QED
        BY <3>1, <4>1, <4>2, <4>3
    <3>2. CASE tail[queue[t]] # word[t]
      <4>1. tail'[queue[t]] = tail[queue[t]]
        BY <1>2, <1>3, <3>2 DEF TypeOK
      <4>2. pc[t] \in FromHead
        BY <1>2 DEF FromHead
      <4>3. QED
        BY <2>1, <3>2, <4>1, <4>2, TailIsPast
    <3>3. QED
      BY <3>1, <3>2
  <2>2. QED
    BY <1>1, <1>2, <1>4, <2>1 DEF PopIsRight, FromHead, Popping
<1>8. MarksAreNew'
  BY <1>2, <1>3, MarksStep DEF FromTail
<1>9. ASSUME NEW u \in Threads
      PROVE  WordIsRight(c, u)' /\ CallIsRight(u)' /\ LinkIsRight(u)' /\ PopIsRight(u)'
  BY <1>3, <1>4, <1>5, <1>6, <1>7
<1>10. QED
  BY <1>3, <1>8, <1>9 DEF Inv

\* The node to insert is marked as the last one of the queue, with a count that no
\* word has that was ever read with it.
LEMMA EmplaceMarkKeeps ==
  ASSUME TypeOK, TypeOK', NEW c \in [Queues -> Seq(Nodes)], Inv(c), NEW t \in Threads,
         EmplaceMark(t)
  PROVE  Inv(c)'
<1>1. /\ WordIsRight(c, t) /\ CallIsRight(t) /\ LinkIsRight(t) /\ PopIsRight(t)
      /\ Apart(c) /\ MarksAreNew /\ \A r \in Queues : QueueIs(r, c[r])
  BY DEF Inv
<1> DEFINE n == current[t]
           q == queue[t]
<1>2. /\ pc[t] = "emplace_mark" /\ pc'[t] = "emplace_link"
      /\ UNCHANGED <<head, tail, value, free, contents, queue, current, word, link, result>>
      /\ \A u \in Threads : u # t => pc'[u] = pc[u]
  BY DEF EmplaceMark, Goto, histVars, TypeOK
<1>3. n \in Nodes /\ n # None /\ q # None /\ q \in Queues /\ word[t].count \in Nat
      /\ word[t].to # None
  BY <1>1, <1>2 DEF CallIsRight, Inserting, TypeOK, HasWord, Word
<1>4. /\ next'[n] = EndLink(q, word[t].count + 2)
      /\ next'[n].count = word[t].count + 2
      /\ \A m \in Nodes : m # n => next'[m] = next[m]
  BY <1>3 DEF EmplaceMark, TypeOK, EndLink
<1>5. \A r \in Queues : \A i \in 1 .. Len(c[r]) :
        c[r][i] \in Nodes /\ c[r][i] # n /\ next'[c[r][i]] = next[c[r][i]]
  <2> TAKE r \in Queues
  <2> TAKE i \in 1 .. Len(c[r])
  <2>1. c[r][i] \in Nodes /\ c[r][i] # n
    BY <1>1 DEF Apart
  <2>2. QED
    BY <1>4, <2>1
<1>6. ASSUME NEW r \in Queues PROVE QueueIs(r, c[r])'
  BY <1>1, <1>2, <1>5, SameQueue
<1>7. Apart(c)'
  BY <1>1, <1>2 DEF Apart
<1>8. \A u \in Threads : queue[u] = q /\ word[u].to = n => next'[n].count > word[u].count + 1
  <2> SUFFICES ASSUME NEW u \in Threads, queue[u] = q, word[u].to = n
               PROVE  next'[n].count > word[u].count + 1
    OBVIOUS
  <2>1. word[u].count < word[t].count
    BY <1>1, <1>2 DEF MarksAreNew, FromTail
  <2>2. word[u].count \in Nat
    BY DEF TypeOK, Word
  <2>3. QED
    BY <1>3, <1>4, <2>1, <2>2
<1>9. \A r \in Queues : tail[r].count \in Nat /\ tail'[r].count >= tail[r].count
  BY <1>2 DEF TypeOK, Word
<1>10. ASSUME NEW u \in Threads, u # t
       PROVE  WordIsRight(c, u)' /\ CallIsRight(u)' /\ LinkIsRight(u)' /\ PopIsRight(u)'
  <2>1. \A m \in Nodes : queue[u] = q /\ word[u].to = m =>
           \/ next'[m] = next[m] \/ next'[m].count > word[u].count + 1
    BY <1>4, <1>8
  <2>2. \A m \in Nodes : queue[u] # q => \/ next'[m] = next[m] \/ next'[m].to # queue[u]
    BY <1>4 DEF EndLink
  <2>3. current[u] # None => current[u] \in Nodes /\ current[u] # n
    BY <1>1, <1>10, <1>3 DEF Apart, TypeOK
  <2>4. current[u] # None => next'[current[u]] = next[current[u]]
    BY <1>4, <2>3
  <2>5. \A r \in Queues : queue[u] = r =>
          /\ head'[r] = head[r] /\ c[r] = c[r]
          /\ tail'[r].count >= tail[r].count
          /\ contents'[r] = contents[r]
          /\ \A i \in 1 .. Len(c[r]) :
               next'[c[r][i]] = next[c[r][i]] /\ value'[c[r][i]] = value[c[r][i]]
          /\ \A m \in Nodes : word[u].to = m =>
               \/ next'[m] = next[m] \/ next'[m].to # r
               \/ next'[m].count > word[u].count + 1
    BY <1>2, <1>5, <1>9, <2>1, <2>2
  <2>6. value' = value /\ queue'[u] = queue[u] /\ current'[u] = current[u] /\ pc'[u] = pc[u]
        /\ word'[u] = word[u] /\ link'[u] = link[u] /\ result'[u] = result[u]
    BY <1>2, <1>10
  <2>7. QED
    BY <2>4, <2>5, <2>6, SameChain
<1>11. WordIsRight(c, t)' /\ CallIsRight(t)' /\ LinkIsRight(t)' /\ PopIsRight(t)'
  <2>1. word[t].to \in Nodes
    BY <1>3 DEF TypeOK, Word
  <2>2. word[t].to # n
    <3>1. ASSUME word[t].to = n PROVE FALSE
      <4>1. word[t].count < word[t].count
        BY <1>1, <1>2, <3>1 DEF MarksAreNew, FromTail
      <4>2. QED
        BY <1>3, <4>1
    <3>2. QED
      BY <3>1
  <2>3. next'[word[t].to] = next[word[t].to]
    BY <1>4, <2>1, <2>2
  <2>4. WordIsRight(c, t)'
    BY <1>1, <1>2, <2>3 DEF WordIsRight, Old, On
  <2>5. CallIsRight(t)'
    BY <1>1, <1>2, <1>3 DEF CallIsRight, Exists, Inserting, Popping, Pops, HasWord
  <2>6. LinkIsRight(t)'
    BY <1>1, <1>2, <1>4 DEF LinkIsRight, HasLink
  <2>7. PopIsRight(t)'
    BY <1>2 DEF PopIsRight, FromHead, Popping
  <2>8. QED
    BY <2>4, <2>5, <2>6, <2>7
<1>12. MarksAreNew'
  BY <1>2, <1>3, MarksStep DEF FromTail, Inserting
<1>13. ASSUME NEW u \in Threads
       PROVE  WordIsRight(c, u)' /\ CallIsRight(u)' /\ LinkIsRight(u)' /\ PopIsRight(u)'
  BY <1>10, <1>11
<1>14. QED
  BY <1>6, <1>7, <1>12, <1>13 DEF Inv

\* A node that nobody needs goes back to the pool.
LEMMA PopFreeKeeps ==
  ASSUME TypeOK, TypeOK', NEW c \in [Queues -> Seq(Nodes)], Inv(c), NEW t \in Threads,
         PopFree(t)
  PROVE  Inv(c)'
<1>1. /\ CallIsRight(t) /\ Apart(c) /\ \A r \in Queues : QueueIs(r, c[r])
  BY DEF Inv
<1> DEFINE n == current[t]
<1>2. /\ pc[t] = "pop_free" /\ pc'[t] = "idle" /\ queue'[t] = None /\ current'[t] = None
      /\ word'[t] = NoWord
      /\ UNCHANGED <<head, tail, value, contents>> /\ free' = free \union {n}
      /\ \A u \in Threads : u # t =>
           /\ pc'[u] = pc[u] /\ queue'[u] = queue[u] /\ current'[u] = current[u]
           /\ word'[u] = word[u] /\ link'[u] = link[u] /\ result'[u] = result[u]
  BY DEF PopFree, Return, Goto, histVars, TypeOK
<1>3. n \in Nodes /\ n # None
  BY <1>1, <1>2 DEF CallIsRight, TypeOK
<1>4. /\ next'[n].to = None /\ \A m \in Nodes : m # n => next'[m] = next[m]
  BY <1>3 DEF PopFree, Pooled, NoWord
<1>5. \A r \in Queues : \A i \in 1 .. Len(c[r]) :
        c[r][i] \in Nodes /\ c[r][i] # n /\ next'[c[r][i]] = next[c[r][i]]
  <2> TAKE r \in Queues
  <2> TAKE i \in 1 .. Len(c[r])
  <2>1. c[r][i] \in Nodes /\ c[r][i] # n
    BY <1>1 DEF Apart
  <2>2. QED
    BY <1>4, <2>1
<1>6. ASSUME NEW r \in Queues PROVE QueueIs(r, c[r])'
  BY <1>1, <1>2, <1>5, SameQueue
<1>7. Apart(c)'
  <2>1. \A r \in Queues : \A i \in 1 .. Len(c[r]) :
          c[r][i] \notin free' /\ \A u \in Threads : c[r][i] # current'[u]
    <3> TAKE r \in Queues
    <3> TAKE i \in 1 .. Len(c[r])
    <3>1. c[r][i] \notin free' /\ c[r][i] # None
      BY <1>1, <1>2, <1>5, LockfreeQueueAssumption DEF Apart
    <3>2. ASSUME NEW u \in Threads PROVE c[r][i] # current'[u]
      BY <1>1, <1>2, <3>1 DEF Apart
    <3>3. QED
      BY <3>1, <3>2
  <2>2. \A u \in Threads : current'[u] \notin free'
    <3> TAKE u \in Threads
    <3>1. CASE u = t
      <4>1. free \subseteq Nodes
        BY DEF TypeOK
      <4>2. QED
        BY <1>2, <1>3, <3>1, <4>1, LockfreeQueueAssumption
    <3>2. CASE u # t
      BY <1>1, <1>2, <1>3, <3>2 DEF Apart
    <3>3. QED
      BY <3>1, <3>2
  <2>3. \A x, u \in Threads : current'[x] = current'[u] /\ current'[x] # None => x = u
    BY <1>1, <1>2 DEF Apart
  <2>4. QED
    BY <1>1, <2>1, <2>2, <2>3 DEF Apart
<1>8. \A r \in Queues : tail[r].count \in Nat /\ tail'[r].count >= tail[r].count /\ r # None
  BY <1>2, LockfreeQueueAssumption DEF TypeOK, Word
<1>9. ASSUME NEW u \in Threads, u # t
      PROVE  WordIsRight(c, u)' /\ CallIsRight(u)' /\ LinkIsRight(u)' /\ PopIsRight(u)'
  <2>1. current[u] # None => current[u] \in Nodes /\ current[u] # n
    BY <1>1, <1>9, <1>3 DEF Apart, TypeOK
  <2>2. current[u] # None => next'[current[u]] = next[current[u]]
    BY <1>4, <2>1
  <2>3. \A m \in Nodes : \A r \in Queues : next'[m] = next[m] \/ next'[m].to # r
    BY <1>4, <1>8
  <2>4. \A r \in Queues : queue[u] = r =>
          /\ head'[r] = head[r] /\ c[r] = c[r]
          /\ tail'[r].count >= tail[r].count
          /\ contents'[r] = contents[r]
          /\ \A i \in 1 .. Len(c[r]) :
               next'[c[r][i]] = next[c[r][i]] /\ value'[c[r][i]] = value[c[r][i]]
          /\ \A m \in Nodes : word[u].to = m =>
               \/ next'[m] = next[m] \/ next'[m].to # r
               \/ next'[m].count > word[u].count + 1
    BY <1>2, <1>5, <1>8, <2>3
  <2>5. value' = value /\ queue'[u] = queue[u] /\ current'[u] = current[u] /\ pc'[u] = pc[u]
        /\ word'[u] = word[u] /\ link'[u] = link[u] /\ result'[u] = result[u]
    BY <1>2, <1>9
  <2>6. QED
    BY <2>2, <2>4, <2>5, SameChain
<1>10. WordIsRight(c, t)' /\ CallIsRight(t)' /\ LinkIsRight(t)' /\ PopIsRight(t)'
  BY <1>2, IdleKnows
<1>11. MarksAreNew'
  <2>1. word'[t].to = None
    BY <1>2 DEF NoWord
  <2>2. QED
    BY <1>2, <2>1, MarksStep DEF FromTail
<1>12. ASSUME NEW u \in Threads
       PROVE  WordIsRight(c, u)' /\ CallIsRight(u)' /\ LinkIsRight(u)' /\ PopIsRight(u)'
  BY <1>9, <1>10
<1>13. QED
  BY <1>6, <1>7, <1>11, <1>12 DEF Inv

\* A sequence with an element more, or with its first one gone.
LEMMA Longer ==
  ASSUME NEW S, NEW s \in Seq(S), NEW n \in S
  PROVE  /\ Append(s, n) \in Seq(S) /\ Len(Append(s, n)) = Len(s) + 1
         /\ \A i \in 1 .. Len(s) : Append(s, n)[i] = s[i]
         /\ Append(s, n)[Len(s) + 1] = n
OBVIOUS

LEMMA Shorter ==
  ASSUME NEW S, NEW s \in Seq(S), s # <<>>
  PROVE  /\ Tail(s) \in Seq(S) /\ Len(Tail(s)) = Len(s) - 1
         /\ \A i \in 1 .. Len(s) - 1 : Tail(s)[i] = s[i + 1]
BY HeadTailProperties

\* The exchange of the link succeeds only at the last node of the thread's own queue.
LEMMA LinkIsAtLast ==
  ASSUME TypeOK, NEW c \in [Queues -> Seq(Nodes)], Inv(c), NEW t \in Threads,
         pc[t] = "emplace_link", next[word[t].to] = link[t]
  PROVE  /\ queue[t] \in Queues /\ Exists(queue[t])
         /\ word[t].to = c[queue[t]][Len(c[queue[t]])] /\ Len(c[queue[t]]) \in 1 .. Len(c[queue[t]])
         /\ word[t].count = head[queue[t]].count + Len(c[queue[t]]) - 1
<1> DEFINE q == queue[t]
           s == c[q]
<1>1. /\ WordIsRight(c, t) /\ CallIsRight(t) /\ LinkIsRight(t)
  BY DEF Inv
<1>2. word[t].to # None /\ next[word[t].to] = EndLink(q, word[t].count + 1)
  BY <1>1 DEF CallIsRight, LinkIsRight, HasWord
<1>3. next[word[t].to].to = q /\ next[word[t].to].count = word[t].count + 1
  BY <1>2 DEF EndLink
<1>4. q \in Queues /\ Exists(q) /\ word[t].count \in Nat /\ head[q].count \in Nat
      /\ q \notin Nodes /\ s \in Seq(Nodes) /\ Len(s) \in Nat
  BY <1>2, WordFacts, LockfreeQueueAssumption
<1>5. ~Old(t)
  BY <1>1, <1>2, <1>3, <1>4 DEF WordIsRight
<1>6. PICK i \in 1 .. Len(s) :
           /\ On(s, q, i, word[t])
           /\ next[word[t].to].to = IF i = Len(s) THEN q ELSE s[i + 1]
  BY <1>2, <1>5, WordFacts
<1>7. i = Len(s)
  <2>1. ASSUME i # Len(s) PROVE FALSE
    <3>1. i + 1 \in 1 .. Len(s)
      BY <1>4, <2>1
    <3>2. s[i + 1] \in Nodes
      BY <1>4, <3>1
    <3>3. QED
      BY <1>3, <1>4, <1>6, <2>1, <3>2
  <2>2. QED
    BY <2>1
<1>8. QED
  BY <1>4, <1>6, <1>7 DEF On

\* An insertion makes its queue one node longer, or starts over.
LEMMA EmplaceLinkKeeps ==
  ASSUME TypeOK, TypeOK', NEW c \in [Queues -> Seq(Nodes)], Inv(c), NEW t \in Threads,
         EmplaceLink(t)
  PROVE  \E d \in [Queues -> Seq(Nodes)] : Inv(d)'
<1>1. /\ WordIsRight(c, t) /\ CallIsRight(t) /\ LinkIsRight(t) /\ Apart(c)
      /\ \A r \in Queues : QueueIs(r, c[r])
  BY DEF Inv
<1>2. pc[t] = "emplace_link"
  BY DEF EmplaceLink
<1>3. CASE next[word[t].to] # link[t]
  <2>1. /\ UNCHANGED <<head, tail, next, value, free, contents, current, queue, word, link, result>>
        /\ \A u \in Threads : u # t => pc'[u] = pc[u]
        /\ pc'[t] = "emplace_load"
    BY <1>3 DEF EmplaceLink, Goto, TypeOK
  <2>2. WordIsRight(c, t)'
    BY <2>1, KeepKnows
  <2>3. CallIsRight(t)'
    BY <1>1, <1>2, <2>1 DEF CallIsRight, Exists, Inserting, Popping, Pops, HasWord
  <2>4. LinkIsRight(t)' /\ PopIsRight(t)'
    BY <2>1 DEF LinkIsRight, PopIsRight, HasLink, FromHead, Popping
  <2>5. MarksAreNew'
    BY <2>1, MarksStep DEF FromTail
  <2>6. Inv(c)'
    BY <2>1, <2>2, <2>3, <2>4, <2>5, LocalStep
  <2>7. QED
    BY <2>6
<1>4. CASE next[word[t].to] = link[t]
  <2>0. PICK q \in Queues, n \in Nodes, p \in Nodes :
          queue[t] = q /\ current[t] = n /\ word[t].to = p
    <3>1. queue[t] \in Queues /\ current[t] \in Nodes /\ word[t].to \in Nodes
      BY <1>1, <1>2, <1>4, LinkIsAtLast, LockfreeQueueAssumption
      DEF CallIsRight, Inserting, HasWord, TypeOK, Word
    <3>2. QED
      BY <3>1
  <2> USE <2>0
  <2> DEFINE s == c[q]
             k == Len(s)
  <2>1. /\ q \in Queues /\ Exists(q) /\ p = s[k] /\ k \in 1 .. k
        /\ word[t].count = head[q].count + k - 1
    BY <1>2, <1>4, LinkIsAtLast
  <2>2. /\ n \in Nodes /\ n # None /\ p \in Nodes /\ s \in Seq(Nodes) /\ q \notin Nodes
        /\ \A i \in 1 .. Len(s) : s[i] \in Nodes
        /\ n \notin Queues /\ word[t].count \in Nat /\ head[q].count \in Nat
    BY SMTT(20), <1>1, <1>2, <2>1, LockfreeQueueAssumption DEF CallIsRight, Inserting, TypeOK, Word
  <2>3. /\ UNCHANGED <<head, tail, value, free>>
        /\ pc'[t] = "idle" /\ queue'[t] = None /\ current'[t] = None /\ word'[t] = NoWord
        /\ \A u \in Threads : u # t =>
             /\ pc'[u] = pc[u] /\ queue'[u] = queue[u] /\ current'[u] = current[u]
             /\ word'[u] = word[u] /\ link'[u] = link[u] /\ result'[u] = result[u]
    BY <1>4 DEF EmplaceLink, Return, Goto, TypeOK
  <2>4. /\ contents'[q] = Append(contents[q], value[n])
        /\ \A x \in Queues : x # q => contents'[x] = contents[x]
        /\ \A m \in Nodes : m # p => next'[m] = next[m]
        /\ next'[p] = [to |-> n, count |-> word[t].count + 1]
    BY <1>4, <2>1, <2>2 DEF EmplaceLink, TypeOK
  <2>5. next'[p].to = n
    BY <2>4
  <2>6. PICK r \in Seq(Nodes) :
          /\ Len(r) = k + 1
          /\ \A i \in 1 .. k : r[i] = s[i]
          /\ r[k + 1] = n
    <3>1. /\ Append(s, n) \in Seq(Nodes) /\ Len(Append(s, n)) = k + 1
          /\ \A i \in 1 .. k : Append(s, n)[i] = s[i]
          /\ Append(s, n)[k + 1] = n
      BY <2>2, Longer
    <3>2. QED
      BY <3>1
  <2>7. PICK d \in [Queues -> Seq(Nodes)] :
          d[q] = r /\ \A x \in Queues : x # q => d[x] = c[x]
    <3>1. [c EXCEPT ![q] = r] \in [Queues -> Seq(Nodes)]
      BY <2>1
    <3>2. QED
      BY <3>1
  <2>8. \A x \in Queues : \A i \in 1 .. Len(c[x]) :
          /\ c[x][i] \in Nodes /\ c[x][i] # n /\ c[x][i] # None
          /\ c[x][i] = p => x = q /\ i = k
          /\ ~ (x = q /\ i = k) => next'[c[x][i]] = next[c[x][i]]
    <3> SUFFICES ASSUME NEW x \in Queues, NEW i \in 1 .. Len(c[x])
                 PROVE  /\ c[x][i] \in Nodes /\ c[x][i] # n /\ c[x][i] # None
                        /\ c[x][i] = p => x = q /\ i = k
                        /\ ~ (x = q /\ i = k) => next'[c[x][i]] = next[c[x][i]]
      OBVIOUS
    <3>1. c[x][i] \in Nodes /\ c[x][i] # n /\ c[x][i] # None
      BY <1>1, LockfreeQueueAssumption DEF Apart
    <3>2. c[x][i] = p => x = q /\ i = k
      BY <1>1, <2>1 DEF Apart
    <3>3. QED
      BY <3>1, <3>2, <2>4
  <2>9. QueueIs(q, r)'
    <3>1. /\ k \in Nat /\ k >= 1 /\ head[q].to = s[1]
          /\ \A i \in 1 .. k :
               next[s[i]] = [to |-> IF i = k THEN q ELSE s[i + 1], count |-> head[q].count + i]
          /\ k = Len(contents[q]) + 1
          /\ \A i \in 1 .. Len(contents[q]) : contents[q][i] = value[s[i + 1]]
          /\ \E i \in 1 .. k : On(s, q, i, tail[q])
      BY <1>1, <2>1 DEF QueueIs
    <3>2. /\ Exists(q)' /\ r # <<>> /\ head'[q].to = r[1]
      BY <2>1, <2>3, <2>6, <3>1 DEF Exists
    <3>3. \A i \in 1 .. Len(r) :
            next'[r[i]] = [to |-> IF i = Len(r) THEN q ELSE r[i + 1], count |-> head'[q].count + i]
      <4> SUFFICES ASSUME NEW i \in 1 .. Len(r)
                   PROVE  next'[r[i]] = [to |-> IF i = Len(r) THEN q ELSE r[i + 1],
                                         count |-> head[q].count + i]
        BY <2>3
      <4>1. CASE i <= k - 1
        <5>1. i \in 1 .. k /\ i # k /\ i + 1 \in 1 .. k /\ i # Len(r)
          BY SMTT(20), <4>1, <3>1, <2>6
        <5>2. r[i] = s[i] /\ r[i + 1] = s[i + 1] /\ next'[s[i]] = next[s[i]]
          BY <5>1, <2>1, <2>6, <2>8
        <5>3. next[s[i]] = [to |-> s[i + 1], count |-> head[q].count + i]
          BY <5>1, <3>1
        <5>4. QED
          BY <5>1, <5>2, <5>3
      <4>2. CASE i = k
        <5>1. r[i] = p /\ r[i + 1] = n /\ i # Len(r)
          BY SMTT(20), <4>2, <2>1, <2>6, <3>1
        <5>2. word[t].count + 1 = head[q].count + i
          <6> DEFINE a == head[q].count
                     m == word[t].count
          <6>1. a \in Nat /\ m \in Nat /\ m = a + k - 1
            BY <2>1, <2>2
          <6> HIDE DEF a, m, k
          <6>2. m + 1 = a + i
            BY <4>2, <6>1, <3>1
          <6>3. QED
            BY <6>2 DEF a, m
        <5>3. QED
          BY <5>1, <5>2, <2>4
      <4>3. CASE i = k + 1
        <5>1. r[i] = n /\ i = Len(r)
          BY <4>3, <2>6
        <5>2. n # p
          BY <2>1, <2>8
        <5>3. next'[n] = EndLink(q, word[t].count + 2)
          BY <5>2, <1>1, <1>2, <2>2, <2>4 DEF LinkIsRight
        <5>4. word[t].count + 2 = head[q].count + i
          <6> DEFINE a == head[q].count
                     m == word[t].count
          <6>1. a \in Nat /\ m \in Nat /\ m = a + k - 1
            BY <2>1, <2>2
          <6> HIDE DEF a, m, k
          <6>2. m + 2 = a + i
            BY <4>3, <6>1, <3>1
          <6>3. QED
            BY <6>2 DEF a, m
        <5>5. QED
          BY <5>1, <5>3, <5>4 DEF EndLink
      <4>4. QED
        BY <4>1, <4>2, <4>3, <2>6, <3>1
    <3>4. /\ Len(contents'[q]) = k
          /\ \A i \in 1 .. k - 1 : contents'[q][i] = contents[q][i]
          /\ contents'[q][k] = value[n]
      <4>1. contents[q] \in Seq(Values) /\ value[n] \in Values
        BY <1>1, <1>2, <2>1 DEF TypeOK, CallIsRight, Inserting
      <4>2. QED
        BY <4>1, <2>4, <3>1, Longer
    <3>5. \A i \in 1 .. Len(contents'[q]) : contents'[q][i] = value'[r[i + 1]]
      <4> SUFFICES ASSUME NEW i \in 1 .. k PROVE contents'[q][i] = value[r[i + 1]]
        BY <2>3, <3>4
      <4>1. CASE i = k
        BY <4>1, <2>6, <3>4
      <4>2. CASE i # k
        <5>1. i \in 1 .. k - 1 /\ i \in 1 .. Len(contents[q]) /\ i + 1 \in 1 .. k
          BY SMTT(20), <4>2, <3>1
        <5>2. QED
          BY SMTT(20), <5>1, <2>6, <3>1, <3>4
      <4>3. QED
        BY <4>1, <4>2
    <3>6. (\E i \in 1 .. Len(r) : On(r, q, i, tail[q]))'
      BY <2>3, <2>6, <3>1 DEF On
    <3>7. QED
      BY <3>2, <3>3, <3>4, <3>5, <3>6, <2>6 DEF QueueIs
  <2>10. ASSUME NEW x \in Queues PROVE QueueIs(x, d[x])'
    <3>1. CASE x = q
      BY <3>1, <2>7, <2>9
    <3>2. CASE x # q
      <4>1. QueueIs(x, c[x]) /\ c[x] \in Seq(Nodes)
        BY <1>1
      <4>2. QueueIs(x, c[x])'
        BY <4>1, <3>2, <2>3, <2>4, <2>8, SameQueue
      <4>3. QED
        BY <4>2, <3>2, <2>7
    <3>3. QED
      BY <3>1, <3>2
  <2>11. \A x \in Queues : \A i \in 1 .. Len(d[x]) :
           \/ d[x][i] = n /\ x = q /\ i = k + 1
           \/ i \in 1 .. Len(c[x]) /\ d[x][i] = c[x][i]
    <3> SUFFICES ASSUME NEW x \in Queues, NEW i \in 1 .. Len(d[x])
                 PROVE  \/ d[x][i] = n /\ x = q /\ i = k + 1
                        \/ i \in 1 .. Len(c[x]) /\ d[x][i] = c[x][i]
      OBVIOUS
    <3>1. CASE x = q
      BY <3>1, <2>6, <2>7, <2>1
    <3>2. CASE x # q
      BY <3>2, <2>7
    <3>3. QED
      BY <3>1, <3>2
  <2>12. Apart(d)'
    <3>1. \A x, y \in Queues : \A i \in 1 .. Len(d[x]), j \in 1 .. Len(d[y]) :
            d[x][i] = d[y][j] => x = y /\ i = j
      <4> SUFFICES ASSUME NEW x \in Queues, NEW y \in Queues,
                          NEW i \in 1 .. Len(d[x]), NEW j \in 1 .. Len(d[y]), d[x][i] = d[y][j]
                   PROVE  x = y /\ i = j
        OBVIOUS
      <4>1. \/ d[x][i] = n /\ x = q /\ i = k + 1
            \/ i \in 1 .. Len(c[x]) /\ d[x][i] = c[x][i] /\ d[x][i] # n
        BY SMTT(20), <2>8, <2>11
      <4>2. \/ d[y][j] = n /\ y = q /\ j = k + 1
            \/ j \in 1 .. Len(c[y]) /\ d[y][j] = c[y][j] /\ d[y][j] # n
        BY <2>8, <2>11
      <4>3. CASE i \in 1 .. Len(c[x]) /\ j \in 1 .. Len(c[y]) /\ c[x][i] = c[y][j]
        BY <4>3, <1>1 DEF Apart
      <4>4. QED
        BY <4>1, <4>2, <4>3
    <3>2. \A x \in Queues : \A i \in 1 .. Len(d[x]) :
            d[x][i] \notin free' /\ \A u \in Threads : d[x][i] # current'[u]
      <4> SUFFICES ASSUME NEW x \in Queues, NEW i \in 1 .. Len(d[x])
                   PROVE  d[x][i] \notin free' /\ \A u \in Threads : d[x][i] # current'[u]
        OBVIOUS
      <4>1. n \notin free /\ \A u \in Threads : current'[u] # n
        <5>1. n \notin free
          BY <1>1 DEF Apart
        <5>2. ASSUME NEW u \in Threads PROVE current'[u] # n
          <6>1. CASE u = t
            BY <6>1, <2>2, <2>3
          <6>2. CASE u # t
            <7>1. current[u] # current[t]
              BY <6>2, <1>1, <2>2 DEF Apart
            <7>2. QED
              BY <6>2, <7>1, <2>3
          <6>3. QED
            BY <6>1, <6>2
        <5>3. QED
          BY <5>1, <5>2
      <4>2. CASE d[x][i] = n
        BY <4>1, <4>2, <2>3
      <4>3. CASE i \in 1 .. Len(c[x]) /\ d[x][i] = c[x][i]
        BY <4>3, <1>1, <2>3, <2>8 DEF Apart
      <4>4. QED
        BY <4>2, <4>3, <2>11
    <3>3. \A u \in Threads : current'[u] \notin free'
      <4>1. free \subseteq Nodes
        BY DEF TypeOK
      <4>2. QED
        BY ZenonT(40), <4>1, <1>1, <2>3, LockfreeQueueAssumption DEF Apart
    <3>4. \A x, u \in Threads : current'[x] = current'[u] /\ current'[x] # None => x = u
      <4> SUFFICES ASSUME NEW x \in Threads, NEW u \in Threads,
                          current'[x] = current'[u], current'[x] # None
                   PROVE  x = u
        OBVIOUS
      <4>1. x # t /\ u # t
        BY <2>3
      <4>2. current[x] = current[u] /\ current[x] # None
        BY <4>1, <2>3
      <4>3. QED
        BY <4>2, <1>1 DEF Apart
    <3>5. QED
      BY <3>1, <3>2, <3>3, <3>4 DEF Apart
  <2>13. ASSUME NEW u \in Threads, u # t
         PROVE  WordIsRight(d, u)' /\ CallIsRight(u)' /\ LinkIsRight(u)' /\ PopIsRight(u)'
    <3>0. /\ pc'[u] = pc[u] /\ queue'[u] = queue[u] /\ current'[u] = current[u]
          /\ word'[u] = word[u] /\ link'[u] = link[u] /\ result'[u] = result[u]
          /\ WordIsRight(c, u) /\ CallIsRight(u)
      BY <2>3, <2>13 DEF Inv
    <3>1. current[u] # None => /\ current[u] \in Nodes
                               /\ next'[current[u]] = next[current[u]]
                               /\ value'[current[u]] = value[current[u]]
      <4>1. current[u] # p
        <5>1. \A i \in 1 .. Len(c[q]) : c[q][i] # current[u]
          BY <1>1 DEF Apart
        <5>2. QED
          BY <5>1, <2>1
      <4>2. QED
        BY <4>1, <2>3, <2>4 DEF TypeOK
    <3>2. CASE queue[u] # q
      <4>1. \A x \in Queues : queue[u] = x =>
              /\ head'[x] = head[x] /\ d[x] = c[x]
              /\ tail'[x].count >= tail[x].count
              /\ contents'[x] = contents[x]
              /\ \A i \in 1 .. Len(c[x]) :
                   next'[c[x][i]] = next[c[x][i]] /\ value'[c[x][i]] = value[c[x][i]]
              /\ \A m \in Nodes : word[u].to = m =>
                   \/ next'[m] = next[m] \/ next'[m].to # x
                   \/ next'[m].count > word[u].count + 1
        <5> SUFFICES ASSUME NEW x \in Queues, queue[u] = x
                     PROVE  /\ head'[x] = head[x] /\ d[x] = c[x]
                            /\ tail'[x].count >= tail[x].count
                            /\ contents'[x] = contents[x]
                            /\ \A i \in 1 .. Len(c[x]) :
                                 next'[c[x][i]] = next[c[x][i]] /\ value'[c[x][i]] = value[c[x][i]]
                            /\ \A m \in Nodes : next'[m] = next[m] \/ next'[m].to # x
          OBVIOUS
        <5>1. tail[x].count \in Nat
          BY DEF TypeOK, Word
        <5>2. \A m \in Nodes : next'[m] = next[m] \/ next'[m].to # x
          BY <2>2, <2>4, <2>5
        <5>3. QED
          BY <5>1, <5>2, <3>2, <2>3, <2>4, <2>7, <2>8
      <4>2. /\ pc'[u] = pc[u] /\ queue'[u] = queue[u] /\ current'[u] = current[u]
            /\ word'[u] = word[u] /\ link'[u] = link[u] /\ result'[u] = result[u]
            /\ current[u] # None => next'[current[u]] = next[current[u]]
                                   /\ value'[current[u]] = value[current[u]]
        BY <3>0, <3>1
      <4>3. QED
        BY <4>1, <4>2, SameChain, ZenonT(60)
    <3>3. CASE queue[u] = q
      <4>1. Exists(q)' /\ head'[q] = head[q] /\ tail'[q] = tail[q] /\ tail[q].count \in Nat
        BY <2>1, <2>3 DEF Exists, TypeOK, Word
      <4>2. contents'[q] # <<>>
        <5>1. contents[q] \in Seq(Values)
          BY <2>1 DEF TypeOK
        <5>2. value[n] \in Values
          BY <1>1, <1>2 DEF CallIsRight, Inserting
        <5>3. Len(contents'[q]) = Len(contents[q]) + 1 /\ Len(contents[q]) \in Nat
          BY <5>1, <5>2, <2>4, Longer
        <5>4. QED
          BY <5>3
      <4>3. \A i \in 1 .. Len(c[q]) : head[q].count + i - 1 >= head'[q].count =>
              \E j \in 1 .. Len(d[q]) : d[q][j] = c[q][i] /\ head'[q].count + j = head[q].count + i
        <5> SUFFICES ASSUME NEW i \in 1 .. k
                     PROVE  \E j \in 1 .. Len(d[q]) :
                              d[q][j] = c[q][i] /\ head[q].count + j = head[q].count + i
          BY SMTT(20), <4>1
        <5>1. i \in 1 .. Len(d[q]) /\ d[q][i] = c[q][i]
          BY <2>1, <2>6, <2>7
        <5>2. QED
          BY <5>1
      <4>4. \A i \in 1 .. Len(c[q]) : i # Len(c[q]) => next'[c[q][i]] = next[c[q][i]]
        BY <2>1, <2>8
      <4>5. word[u].to # None /\ word[u].count < head'[q].count /\ next'[word[u].to].to = q =>
              next'[word[u].to].count > word[u].count + 1
        <5>1. word[u].to # None => word[u].to \in Nodes
          BY DEF TypeOK, Word
        <5>2. word[u].to # None /\ word[u].count < head[q].count /\ next[word[u].to].to = q =>
                next[word[u].to].count > word[u].count + 1
          BY <3>0, <3>3 DEF WordIsRight, Old
        <5>3. word[u].to # None /\ next'[word[u].to].to = q =>
                next'[word[u].to] = next[word[u].to]
          BY ZenonT(30), <5>1, <2>2, <2>4, <2>5
        <5>4. QED
          BY <5>2, <5>3, <4>1
      <4>6. pc[u] \in Inserting => value'[current[u]] \in Values
        BY <3>0, <2>3 DEF CallIsRight
      <4>7. pc[u] = "emplace_link" => next'[current[u]] = next[current[u]]
        BY <3>0, <3>1 DEF CallIsRight, Inserting
      <4>8. head'[q].count >= head[q].count /\ tail'[q].count >= tail[q].count
            /\ head'[q].count = head[q].count /\ \A i \in 1 .. Len(c[q]) : value'[c[q][i]] = value[c[q][i]]
        BY <4>1, <2>2, <2>3
      <4>9. QED
        BY <3>0, <3>3, <4>1, <4>2, <4>3, <4>4, <4>5, <4>6, <4>7, <4>8, <2>1, <2>7, CallKeeps
    <3>4. QED
      BY <3>2, <3>3
  <2>14. WordIsRight(d, t)' /\ CallIsRight(t)' /\ LinkIsRight(t)' /\ PopIsRight(t)'
    BY <2>3, <2>7, IdleKnows
  <2>15. MarksAreNew'
    <3>1. word'[t].to = None
      BY <2>3 DEF NoWord
    <3>2. QED
      BY <2>3, <3>1, MarksStep DEF FromTail
  <2>16. ASSUME NEW u \in Threads
         PROVE  WordIsRight(d, u)' /\ CallIsRight(u)' /\ LinkIsRight(u)' /\ PopIsRight(u)'
    BY <2>13, <2>14
  <2>17. Inv(d)'
    BY <2>10, <2>12, <2>15, <2>16 DEF Inv
  <2>18. QED
    BY <2>7, <2>17
<1>5. QED
  BY <1>3, <1>4

\* A pop that gets past its exchange takes the node behind the head, which is still
\* what the thread has read.
LEMMA PopIsAtHead ==
  ASSUME TypeOK, NEW c \in [Queues -> Seq(Nodes)], Inv(c), NEW t \in Threads,
         pc[t] = "pop_head", head[queue[t]] = word[t] \/ ~MultiPop
  PROVE  /\ ~Old(t) /\ queue[t] \in Queues /\ Exists(queue[t])
         /\ word[t].to = c[queue[t]][1] /\ word[t].count = head[queue[t]].count
         /\ Len(c[queue[t]]) >= 2 /\ contents[queue[t]] # <<>>
         /\ link[t] = next[word[t].to]
         /\ link[t].to = c[queue[t]][2] /\ link[t].count = head[queue[t]].count + 1
         /\ tail[queue[t]].count > head[queue[t]].count
         /\ result[t] = value[link[t].to]
         /\ link[t] \in Word
<1> DEFINE q == queue[t]
<1>1. CallIsRight(t) /\ LinkIsRight(t) /\ PopIsRight(t)
  BY DEF Inv
<1>2. /\ pc[t] \in FromHead /\ word[t].to # None /\ q # None /\ (MultiPop \/ t = Consumer)
      /\ link[t].to \in Nodes /\ (Old(t) \/ link[t] = next[word[t].to])
      /\ (Old(t) \/ tail[q].count > word[t].count) /\ (Old(t) \/ result[t] = value[link[t].to])
  BY <1>1, LockfreeQueueAssumption
  DEF FromHead, HasLink, HasWord, CallIsRight, LinkIsRight, PopIsRight, Pops, Popping
<1>3. q \in Queues /\ Exists(q) /\ word[t].count \in Nat /\ q \notin Nodes
  BY <1>2, WordFacts, LockfreeQueueAssumption
<1>4. ~Old(t)
  <2>1. CASE MultiPop
    BY <2>1, <1>3 DEF Old
  <2>2. CASE ~MultiPop
    BY <2>2, <1>1, <1>2 DEF PopIsRight
  <2>3. QED
    BY <2>1, <2>2
<1>5. /\ word[t].to = c[q][1]
      /\ word[t].count = head[q].count
      /\ next[word[t].to].count = word[t].count + 1
      /\ contents[q] = <<>> => next[word[t].to].to = q /\ Len(c[q]) = 1
      /\ contents[q] # <<>> =>
           /\ Len(c[q]) >= 2 /\ next[word[t].to].to = c[q][2]
  BY <1>2, <1>4, AtHead
<1>6. contents[q] # <<>>
  BY <1>2, <1>3, <1>4, <1>5
<1>7. link[t] \in Word
  BY <1>2 DEF TypeOK, Link, Word
<1>8. QED
  BY <1>2, <1>3, <1>4, <1>5, <1>6, <1>7

\* A pop takes the first node off its queue and keeps it to give it back.
LEMMA PopHeadKeeps ==
  ASSUME TypeOK, TypeOK', NEW c \in [Queues -> Seq(Nodes)], Inv(c), NEW t \in Threads,
         PopHead(t)
  PROVE  \E d \in [Queues -> Seq(Nodes)] : Inv(d)'
<1>1. /\ WordIsRight(c, t) /\ CallIsRight(t) /\ LinkIsRight(t) /\ PopIsRight(t) /\ Apart(c)
      /\ \A r \in Queues : QueueIs(r, c[r])
  BY DEF Inv
<1>2. pc[t] = "pop_head" /\ (head[queue[t]] = word[t] \/ ~MultiPop)
  BY DEF PopHead
<1>3. PICK q \in Queues : queue[t] = q
  BY <1>2, PopIsAtHead
<1> DEFINE s == c[q]
           k == Len(s)
<1>4. /\ ~Old(t) /\ Exists(q) /\ word[t].to = s[1] /\ word[t].count = head[q].count
      /\ k >= 2 /\ contents[q] # <<>>
      /\ link[t].to = s[2] /\ link[t].count = head[q].count + 1
      /\ tail[q].count > head[q].count
      /\ link[t] = next[s[1]]
  BY <1>2, <1>3, PopIsAtHead
<1>5. /\ head'[q] = link[t] /\ \A x \in Queues : x # q => head'[x] = head[x]
      /\ contents'[q] = Tail(contents[q])
      /\ \A x \in Queues : x # q => contents'[x] = contents[x]
      /\ current'[t] = s[1] /\ pc'[t] = "pop_free"
      /\ UNCHANGED <<tail, next, value, free, queue, word, link, result>>
      /\ \A u \in Threads : u # t => pc'[u] = pc[u] /\ current'[u] = current[u]
  BY <1>3, <1>4 DEF PopHead, Goto, TypeOK
<1>6. /\ s \in Seq(Nodes) /\ k \in Nat /\ s # <<>> /\ q \notin Nodes /\ q # None
      /\ head[q].count \in Nat /\ tail[q].count \in Nat
      /\ head'[q].to = s[2] /\ head'[q].count = head[q].count + 1
      /\ \A i \in 1 .. k : s[i] \in Nodes
  <2>1. s \in Seq(Nodes) /\ k \in Nat /\ s # <<>> /\ \A i \in 1 .. k : s[i] \in Nodes
    BY <1>4
  <2>2. q \notin Nodes /\ q # None
    BY LockfreeQueueAssumption
  <2>3. head[q].count \in Nat /\ tail[q].count \in Nat
    BY DEF TypeOK, Word
  <2>4. head'[q].to = s[2] /\ head'[q].count = head[q].count + 1
    BY <1>4, <1>5
  <2>5. QED
    BY <2>1, <2>2, <2>3, <2>4
<1>7. PICK r \in Seq(Nodes) : Len(r) = k - 1 /\ \A i \in 1 .. k - 1 : r[i] = s[i + 1]
  <2>1. /\ Tail(s) \in Seq(Nodes) /\ Len(Tail(s)) = k - 1
        /\ \A i \in 1 .. k - 1 : Tail(s)[i] = s[i + 1]
    BY <1>6, Shorter
  <2>2. QED
    BY <2>1
<1>8. PICK d \in [Queues -> Seq(Nodes)] :
        d[q] = r /\ \A x \in Queues : x # q => d[x] = c[x]
  <2>1. [c EXCEPT ![q] = r] \in [Queues -> Seq(Nodes)]
    OBVIOUS
  <2>2. QED
    BY <2>1
<1>9. QueueIs(q, r)'
  <2>1. /\ \A i \in 1 .. k :
             next[s[i]] = [to |-> IF i = k THEN q ELSE s[i + 1], count |-> head[q].count + i]
        /\ k = Len(contents[q]) + 1
        /\ \A i \in 1 .. Len(contents[q]) : contents[q][i] = value[s[i + 1]]
        /\ \E i \in 1 .. k : On(s, q, i, tail[q])
    BY <1>1, <1>4 DEF QueueIs
  <2>2. Exists(q)' /\ r # <<>> /\ head'[q].to = r[1]
    <3>1. head'[q].to # None
      BY <1>4, <1>6, LockfreeQueueAssumption
    <3>2. Exists(q)'
      BY <3>1 DEF Exists, NoWord
    <3>3. Len(r) >= 1 /\ 1 \in 1 .. k - 1 /\ r[1] = s[2]
      BY <1>4, <1>6, <1>7
    <3>4. QED
      BY <1>6, <3>2, <3>3
  <2>3. \A i \in 1 .. Len(r) :
          next'[r[i]] = [to |-> IF i = Len(r) THEN q ELSE r[i + 1], count |-> head'[q].count + i]
    <3> SUFFICES ASSUME NEW i \in 1 .. Len(r)
                 PROVE  next[r[i]] = [to |-> IF i = Len(r) THEN q ELSE r[i + 1],
                                      count |-> head'[q].count + i]
      BY <1>5
    <3>1. i \in 1 .. k - 1 /\ i + 1 \in 1 .. k /\ r[i] = s[i + 1] /\ (i = Len(r) <=> i + 1 = k)
      BY SMTT(20), <1>6, <1>7
    <3>2. next[s[i + 1]] = [to |-> IF i + 1 = k THEN q ELSE s[(i + 1) + 1],
                            count |-> head[q].count + (i + 1)]
      BY <2>1, <3>1
    <3>3. head[q].count + (i + 1) = head'[q].count + i
      <4> DEFINE a == head[q].count
                 b == head'[q].count
      <4>1. a \in Nat /\ b = a + 1 /\ i \in Int
        BY <1>6
      <4> HIDE DEF a, b
      <4>2. a + (i + 1) = b + i
        BY <4>1
      <4>3. QED
        BY <4>2 DEF a, b
    <3>4. i # Len(r) => r[i + 1] = s[(i + 1) + 1]
      BY SMTT(20), <1>6, <1>7, <3>1
    <3>5. QED
      BY <3>1, <3>2, <3>3, <3>4
  <2>4. contents[q] \in Seq(Values)
    BY DEF TypeOK
  <2>5. /\ Len(contents'[q]) = Len(contents[q]) - 1
        /\ \A i \in 1 .. Len(contents[q]) - 1 : contents'[q][i] = contents[q][i + 1]
    BY <1>4, <1>5, <2>4, Shorter
  <2>6. Len(r) = Len(contents'[q]) + 1
    BY <1>6, <1>7, <2>1, <2>4, <2>5
  <2>7. \A i \in 1 .. Len(contents'[q]) : contents'[q][i] = value'[r[i + 1]]
    <3> SUFFICES ASSUME NEW i \in 1 .. Len(contents'[q])
                 PROVE  contents'[q][i] = value[r[i + 1]]
      BY <1>5
    <3>1. /\ i \in 1 .. Len(contents[q]) - 1 /\ i + 1 \in 1 .. Len(contents[q])
          /\ i + 1 \in 1 .. k - 1
      BY <2>1, <2>4, <2>5
    <3>2. contents'[q][i] = contents[q][i + 1] /\ contents[q][i + 1] = value[s[(i + 1) + 1]]
      BY <2>1, <2>5, <3>1
    <3>3. r[i + 1] = s[(i + 1) + 1]
      BY <1>7, <3>1
    <3>4. QED
      BY <3>2, <3>3
  <2>8. (\E i \in 1 .. Len(r) : On(r, q, i, tail[q]))'
    <3>1. PICK i \in 1 .. k : tail[q].to = s[i] /\ tail[q].count = head[q].count + i - 1
      BY <2>1 DEF On
    <3>2. i # 1
      BY <1>4, <1>6, <3>1
    <3>3. i - 1 \in 1 .. Len(r) /\ r[i - 1] = s[i]
      <4>1. k \in Nat /\ Len(r) = k - 1 /\ i \in 1 .. k
        BY <1>6, <1>7
      <4> HIDE DEF k
      <4>2. i - 1 \in 1 .. k - 1 /\ (i - 1) + 1 = i
        BY <4>1, <3>2
      <4>3. QED
        BY <4>1, <4>2, <1>7
    <3>4. tail[q].count = head'[q].count + (i - 1) - 1
      <4> DEFINE a == head[q].count
                 b == head'[q].count
                 m == tail[q].count
      <4>1. a \in Nat /\ b = a + 1 /\ i \in Int /\ m = a + i - 1
        BY <1>6, <3>1
      <4> HIDE DEF a, b, m
      <4>2. m = b + (i - 1) - 1
        BY <4>1
      <4>3. QED
        BY <4>2 DEF m, b
    <3>5. QED
      BY <1>5, <3>1, <3>3, <3>4 DEF On
  <2>9. QED
    BY <2>2, <2>3, <2>6, <2>7, <2>8 DEF QueueIs
<1>10. ASSUME NEW x \in Queues PROVE QueueIs(x, d[x])'
  <2>1. CASE x = q
    BY <2>1, <1>8, <1>9
  <2>2. CASE x # q
    <3>1. QueueIs(x, c[x]) /\ c[x] \in Seq(Nodes)
      BY <1>1
    <3>2. QueueIs(x, c[x])'
      BY <3>1, <2>2, <1>5, SameQueue
    <3>3. QED
      BY <3>2, <2>2, <1>8
  <2>3. QED
    BY <2>1, <2>2
<1>11. \A x \in Queues : \A i \in 1 .. Len(d[x]) :
         \/ x = q /\ i + 1 \in 1 .. Len(c[x]) /\ d[x][i] = c[x][i + 1]
         \/ x # q /\ i \in 1 .. Len(c[x]) /\ d[x][i] = c[x][i]
  <2> SUFFICES ASSUME NEW x \in Queues, NEW i \in 1 .. Len(d[x])
               PROVE  \/ x = q /\ i + 1 \in 1 .. Len(c[x]) /\ d[x][i] = c[x][i + 1]
                      \/ x # q /\ i \in 1 .. Len(c[x]) /\ d[x][i] = c[x][i]
    OBVIOUS
  <2>1. CASE x = q
    BY <2>1, <1>6, <1>7, <1>8
  <2>2. CASE x # q
    BY <2>2, <1>8
  <2>3. QED
    BY <2>1, <2>2
<1>12. Apart(d)'
  <2>a. \A x, y \in Queues : \A i \in 1 .. Len(c[x]), j \in 1 .. Len(c[y]) :
          c[x][i] = c[y][j] => x = y /\ i = j
    BY <1>1 DEF Apart
  <2>1. \A x, y \in Queues : \A i \in 1 .. Len(d[x]), j \in 1 .. Len(d[y]) :
          d[x][i] = d[y][j] => x = y /\ i = j
    <3> SUFFICES ASSUME NEW x \in Queues, NEW y \in Queues,
                        NEW i \in 1 .. Len(d[x]), NEW j \in 1 .. Len(d[y]), d[x][i] = d[y][j]
                 PROVE  x = y /\ i = j
      OBVIOUS
    <3>1. PICK m \in 1 .. Len(c[x]) : d[x][i] = c[x][m] /\ m = IF x = q THEN i + 1 ELSE i
      BY <1>11
    <3>2. PICK l \in 1 .. Len(c[y]) : d[y][j] = c[y][l] /\ l = IF y = q THEN j + 1 ELSE j
      BY <1>11
    <3>3. x = y /\ m = l
      <4>1. c[x][m] = c[y][l]
        BY <3>1, <3>2, Zenon
      <4>2. QED
        BY <4>1, <2>a
    <3>4. i \in Int /\ j \in Int
      OBVIOUS
    <3>5. QED
      BY <3>1, <3>2, <3>3, <3>4
  <2>2. \A x \in Queues : \A i \in 1 .. Len(d[x]) :
          d[x][i] \notin free' /\ \A u \in Threads : d[x][i] # current'[u]
    <3> SUFFICES ASSUME NEW x \in Queues, NEW i \in 1 .. Len(d[x])
                 PROVE  d[x][i] \notin free' /\ \A u \in Threads : d[x][i] # current'[u]
      OBVIOUS
    <3>1. PICK m \in 1 .. Len(c[x]) : d[x][i] = c[x][m] /\ m = IF x = q THEN i + 1 ELSE i
      BY <1>11
    <3>2. c[x][m] \notin free /\ \A u \in Threads : c[x][m] # current[u]
      BY <1>1 DEF Apart
    <3>3. c[x][m] # s[1]
      <4>1. 1 \in 1 .. Len(c[q])
        BY <1>4, <1>6
      <4>2. c[x][m] = c[q][1] => x = q /\ m = 1
        BY <4>1, <2>a
      <4>3. x = q => m # 1
        BY <3>1
      <4>4. QED
        BY <4>2, <4>3
    <3>4. QED
      BY <3>1, <3>2, <3>3, <1>5
  <2>3. s[1] \notin free /\ \A u \in Threads : s[1] # current[u]
    <3>1. 1 \in 1 .. Len(c[q])
      BY <1>4, <1>6
    <3>2. QED
      BY <3>1, <1>1 DEF Apart
  <2>4. \A u \in Threads : current'[u] \notin free'
    BY <2>3, <1>1, <1>5 DEF Apart
  <2>5. \A x, u \in Threads : current'[x] = current'[u] /\ current'[x] # None => x = u
    <3> SUFFICES ASSUME NEW x \in Threads, NEW u \in Threads,
                        current'[x] = current'[u], current'[x] # None
                 PROVE  x = u
      OBVIOUS
    <3>1. CASE x = t \/ u = t
      BY <3>1, <2>3, <1>5
    <3>2. CASE x # t /\ u # t
      <4>1. current[x] = current[u] /\ current[x] # None
        BY <3>2, <1>5
      <4>2. QED
        BY <4>1, <1>1 DEF Apart
    <3>3. QED
      BY <3>1, <3>2
  <2>6. QED
    BY <2>1, <2>2, <2>4, <2>5 DEF Apart
<1>13. ASSUME NEW u \in Threads, u # t
       PROVE  WordIsRight(d, u)' /\ CallIsRight(u)' /\ LinkIsRight(u)' /\ PopIsRight(u)'
  <2>0. /\ pc'[u] = pc[u] /\ queue'[u] = queue[u] /\ current'[u] = current[u]
        /\ word'[u] = word[u] /\ link'[u] = link[u] /\ result'[u] = result[u]
        /\ next' = next /\ value' = value
        /\ WordIsRight(c, u) /\ CallIsRight(u)
    BY <1>5, <1>13 DEF Inv
  <2>1. CASE queue[u] # q
    <3>1. \A x \in Queues : queue[u] = x =>
            /\ head'[x] = head[x] /\ d[x] = c[x]
            /\ tail'[x].count >= tail[x].count
            /\ contents'[x] = contents[x]
            /\ \A i \in 1 .. Len(c[x]) :
                 next'[c[x][i]] = next[c[x][i]] /\ value'[c[x][i]] = value[c[x][i]]
            /\ \A m \in Nodes : word[u].to = m =>
                 \/ next'[m] = next[m] \/ next'[m].to # x
                 \/ next'[m].count > word[u].count + 1
      <4> TAKE x \in Queues
      <4>1. tail[x].count \in Nat
        BY DEF TypeOK, Word
      <4>2. QED
        BY <4>1, <2>1, <1>5, <1>8
    <3>2. current[u] # None =>
            next'[current[u]] = next[current[u]] /\ value'[current[u]] = value[current[u]]
      BY <2>0
    <3>3. QED
      BY <2>0, <3>1, <3>2, SameChain, ZenonT(60)
  <2>2. CASE queue[u] = q
    <3>1. Exists(q)' /\ tail'[q] = tail[q]
      BY <2>0, <2>2, <1>5, <1>6, LockfreeQueueAssumption DEF Exists, NoWord
    <3>2. ASSUME ~MultiPop, u = Consumer PROVE pc[u] \notin Popping /\ FALSE
      BY <3>2, <1>1, <1>2, <1>13 DEF CallIsRight, Pops, Popping
    <3>3. pc[u] \in Popping /\ ~MultiPop => FALSE
      BY <3>2, <2>0 DEF CallIsRight, Pops
    <3>4. \A i \in 1 .. Len(c[q]) : head[q].count + i - 1 >= head'[q].count =>
            \E j \in 1 .. Len(d[q]) : d[q][j] = c[q][i] /\ head'[q].count + j = head[q].count + i
      <4> SUFFICES ASSUME NEW i \in 1 .. k, head[q].count + i - 1 >= head'[q].count
                   PROVE  \E j \in 1 .. Len(d[q]) :
                            d[q][j] = c[q][i] /\ head'[q].count + j = head[q].count + i
        OBVIOUS
      <4>1. i - 1 \in 1 .. Len(r) /\ r[i - 1] = s[i]
        BY <1>6, <1>7
      <4>2. head'[q].count + (i - 1) = head[q].count + i
        BY <1>6
      <4>3. QED
        BY <4>1, <4>2, <1>8
    <3>5. word[u].to # None /\ word[u].count < head'[q].count /\ next'[word[u].to].to = q =>
            next'[word[u].to].count > word[u].count + 1
      <4> SUFFICES ASSUME word[u].to # None, word[u].count < head'[q].count,
                          next[word[u].to].to = q
                   PROVE  next[word[u].to].count > word[u].count + 1
        BY <2>0
      <4>1. CASE Old(u)
        BY <4>1, <2>0, <2>2 DEF WordIsRight
      <4>2. CASE ~Old(u)
        <5>1. PICK i \in 1 .. Len(s) :
                /\ On(s, q, i, word[u])
                /\ next[word[u].to].to = IF i = Len(s) THEN q ELSE s[i + 1]
          <6>1. \E i \in 1 .. Len(c[queue[u]]) :
                   /\ On(c[queue[u]], queue[u], i, word[u])
                   /\ next[word[u].to].count = word[u].count + 1
                   /\ next[word[u].to].to =
                        IF i = Len(c[queue[u]]) THEN queue[u] ELSE c[queue[u]][i + 1]
            BY <4>2, WordFacts
          <6>2. QED
            BY <6>1, <2>2
        <5>2. i = 1
          BY <5>1, <1>6 DEF On
        <5>3. next[word[u].to].to = s[2] /\ s[2] \in Nodes
          <6>1. k # 1 /\ 2 \in 1 .. k /\ s[2] \in Nodes
            BY <1>4, <1>6
          <6>2. next[word[u].to].to = IF 1 = k THEN q ELSE s[1 + 1]
            BY <5>1, <5>2
          <6>3. QED
            BY <6>1, <6>2
        <5>4. QED
          BY <5>3, <1>6
      <4>3. QED
        BY <4>1, <4>2
    <3>6. pc[u] \in Inserting => value'[current[u]] \in Values
      BY <2>0 DEF CallIsRight
    <3>7. /\ head'[q].count >= head[q].count /\ tail'[q].count >= tail[q].count
          /\ \A i \in 1 .. Len(c[q]) : i # Len(c[q]) => next'[c[q][i]] = next[c[q][i]]
          /\ \A i \in 1 .. Len(c[q]) : value'[c[q][i]] = value[c[q][i]]
          /\ pc[u] = "emplace_link" => next'[current[u]] = next[current[u]]
          /\ ~MultiPop /\ u = Consumer => head'[q].count = head[q].count
          /\ pc[u] \in Popping /\ ~MultiPop => contents'[q] # <<>>
      BY <1>6, <2>0, <3>1, <3>2, <3>3
    <3>8. QED
      BY <2>0, <2>2, <3>1, <3>4, <3>5, <3>6, <3>7, CallKeeps
  <2>3. QED
    BY <2>1, <2>2
<1>14. WordIsRight(d, t)' /\ CallIsRight(t)' /\ LinkIsRight(t)' /\ PopIsRight(t)'
  <2>1. word'[t] = word[t] /\ queue'[t] = q /\ word[t].to = s[1] /\ next' = next
    BY <1>3, <1>4, <1>5
  <2>2. Old(t)'
    BY <1>4, <1>6, <2>1 DEF Old
  <2>3. next[word[t].to].to # q
    BY <1>4, <1>6
  <2>4. WordIsRight(d, t)'
    BY <1>6, <2>1, <2>2, <2>3 DEF WordIsRight
  <2>5. Exists(q)' /\ s[1] # None
    BY <1>4, <1>6, LockfreeQueueAssumption DEF Exists, NoWord
  <2>6. CallIsRight(t)'
    BY <1>1, <1>2, <1>3, <1>5, <1>6, <2>1, <2>5
    DEF CallIsRight, Inserting, Popping, Pops, HasWord
  <2>7. LinkIsRight(t)'
    BY <1>5 DEF LinkIsRight, HasLink
  <2>8. PopIsRight(t)'
    BY <1>5 DEF PopIsRight, FromHead, Popping
  <2>9. QED
    BY <2>4, <2>6, <2>7, <2>8
<1>15. MarksAreNew'
  BY <1>5, MarksStep DEF FromTail
<1>16. ASSUME NEW u \in Threads
       PROVE  WordIsRight(d, u)' /\ CallIsRight(u)' /\ LinkIsRight(u)' /\ PopIsRight(u)'
  BY <1>13, <1>14
<1>17. Inv(d)'
  BY <1>10, <1>12, <1>15, <1>16 DEF Inv
<1>18. QED
  BY <1>17

\* The walk along the links finds the chain.
LEMMA ChainOf ==
  ASSUME TypeOK, NEW c \in [Queues -> Seq(Nodes)], Inv(c), NEW q \in Queues, Exists(q)
  PROVE  Chain(q) = c[q] /\ ChainNodes(q) = {c[q][i] : i \in 1 .. Len(c[q])}
<1>1. QueueIs(q, c[q]) /\ \A i, j \in 1 .. Len(c[q]) : c[q][i] = c[q][j] => i = j
  BY DEF Inv, Apart
<1>2. Chain(q) = c[q]
  BY <1>1, ChainIs
<1>3. DOMAIN c[q] = 1 .. Len(c[q])
  OBVIOUS
<1>4. QED
  BY <1>2, <1>3 DEF ChainNodes

\* A queue begins with a dummy node.
LEMMA ConstructKeeps ==
  ASSUME TypeOK, TypeOK', NEW c \in [Queues -> Seq(Nodes)], Inv(c),
         NEW q \in Queues, NEW n \in Nodes, Construct(q, n)
  PROVE  \E d \in [Queues -> Seq(Nodes)] : Inv(d)'
<1>1. /\ Apart(c) /\ MarksAreNew /\ \A r \in Queues : QueueIs(r, c[r])
      /\ n # None /\ q # None /\ q \notin Nodes
      /\ \A u \in Threads : CallIsRight(u) /\ current[u] # n
  BY LockfreeQueueAssumption DEF Inv, Construct, Apart
<1>2. /\ ~Exists(q) /\ n \in free /\ free' = free \ {n}
      /\ head'[q] = [to |-> n, count |-> 0] /\ tail'[q] = [to |-> n, count |-> 0]
      /\ \A x \in Queues : x # q => head'[x] = head[x] /\ tail'[x] = tail[x]
      /\ next'[n] = EndLink(q, 1) /\ \A m \in Nodes : m # n => next'[m] = next[m]
      /\ UNCHANGED <<value, contents, pc, queue, current, word, link, result>>
  BY DEF Construct, localVars, histVars, TypeOK
<1>3. PICK d \in [Queues -> Seq(Nodes)] :
        d[q] = <<n>> /\ \A x \in Queues : x # q => d[x] = c[x]
  <2>1. [c EXCEPT ![q] = <<n>>] \in [Queues -> Seq(Nodes)]
    OBVIOUS
  <2>2. QED
    BY <2>1
<1>4. \A x \in Queues : \A i \in 1 .. Len(c[x]) :
        c[x][i] \in Nodes /\ c[x][i] # n /\ next'[c[x][i]] = next[c[x][i]]
  <2> TAKE x \in Queues
  <2> TAKE i \in 1 .. Len(c[x])
  <2>1. c[x][i] \in Nodes /\ c[x][i] \notin free
    BY <1>1 DEF Apart
  <2>2. QED
    BY <1>2, <2>1
<1>5. QueueIs(q, <<n>>)'
  <2>1. contents[q] = <<>>
    BY <1>1, <1>2 DEF QueueIs
  <2>2. Exists(q)' /\ <<n>> # <<>> /\ head'[q].to = <<n>>[1] /\ head'[q].count = 0
    BY <1>1, <1>2 DEF Exists, NoWord
  <2>3. Len(<<n>>) = 1 /\ Len(contents'[q]) = 0
    BY <1>2, <2>1
  <2>4. \A i \in 1 .. Len(<<n>>) :
          next'[<<n>>[i]] = [to |-> IF i = Len(<<n>>) THEN q ELSE <<n>>[i + 1],
                             count |-> head'[q].count + i]
    <3> SUFFICES ASSUME NEW i \in 1 .. 1
                 PROVE  next'[<<n>>[i]] = [to |-> IF i = 1 THEN q ELSE <<n>>[i + 1],
                                           count |-> 0 + i]
      BY <2>2, <2>3
    <3>1. i = 1 /\ <<n>>[i] = n
      OBVIOUS
    <3>2. QED
      BY <3>1, <1>2 DEF EndLink
  <2>5. (\E i \in 1 .. Len(<<n>>) : On(<<n>>, q, i, tail[q]))'
    BY <1>2, <2>2, <2>3 DEF On
  <2>6. Len(<<n>>) = Len(contents'[q]) + 1
    BY <2>3
  <2>7. \A i \in 1 .. Len(contents'[q]) : contents'[q][i] = value'[<<n>>[i + 1]]
    BY <2>3
  <2>8. QED
    BY <2>2, <2>4, <2>5, <2>6, <2>7 DEF QueueIs
<1>6. ASSUME NEW x \in Queues PROVE QueueIs(x, d[x])'
  <2>1. CASE x = q
    BY <2>1, <1>3, <1>5
  <2>2. CASE x # q
    <3>1. QueueIs(x, c[x])'
      BY <2>2, <1>1, <1>2, <1>4, SameQueue
    <3>2. QED
      BY <3>1, <2>2, <1>3
  <2>3. QED
    BY <2>1, <2>2
<1>7. Apart(d)'
  <2>1. \A x \in Queues : \A i \in 1 .. Len(d[x]) :
          \/ x = q /\ i = 1 /\ d[x][i] = n
          \/ x # q /\ i \in 1 .. Len(c[x]) /\ d[x][i] = c[x][i]
    <3> SUFFICES ASSUME NEW x \in Queues, NEW i \in 1 .. Len(d[x])
                 PROVE  \/ x = q /\ i = 1 /\ d[x][i] = n
                        \/ x # q /\ i \in 1 .. Len(c[x]) /\ d[x][i] = c[x][i]
      OBVIOUS
    <3>1. CASE x = q
      <4>1. d[x] = <<n>>
        BY <3>1, <1>3
      <4>2. QED
        BY <3>1, <4>1
    <3>2. CASE x # q
      BY <3>2, <1>3
    <3>3. QED
      BY <3>1, <3>2
  <2>2. \A x, y \in Queues : \A i \in 1 .. Len(c[x]), j \in 1 .. Len(c[y]) :
          c[x][i] = c[y][j] => x = y /\ i = j
    BY <1>1 DEF Apart
  <2>3. \A x, y \in Queues : \A i \in 1 .. Len(d[x]), j \in 1 .. Len(d[y]) :
          d[x][i] = d[y][j] => x = y /\ i = j
    <3> SUFFICES ASSUME NEW x \in Queues, NEW y \in Queues,
                        NEW i \in 1 .. Len(d[x]), NEW j \in 1 .. Len(d[y]), d[x][i] = d[y][j]
                 PROVE  x = y /\ i = j
      OBVIOUS
    <3>1. \/ x = q /\ i = 1 /\ d[x][i] = n
          \/ x # q /\ i \in 1 .. Len(c[x]) /\ d[x][i] = c[x][i] /\ d[x][i] # n
      <4>1. CASE x = q
        BY <2>1, <4>1
      <4>2. CASE x # q
        <5>1. i \in 1 .. Len(c[x]) /\ d[x][i] = c[x][i]
          BY <2>1, <4>2
        <5>2. QED
          BY <1>4, <4>2, <5>1
      <4>3. QED
        BY <4>1, <4>2
    <3>2. \/ y = q /\ j = 1 /\ d[y][j] = n
          \/ y # q /\ j \in 1 .. Len(c[y]) /\ d[y][j] = c[y][j] /\ d[y][j] # n
      <4>1. CASE y = q
        BY <2>1, <4>1
      <4>2. CASE y # q
        <5>1. j \in 1 .. Len(c[y]) /\ d[y][j] = c[y][j]
          BY <2>1, <4>2
        <5>2. QED
          BY <1>4, <4>2, <5>1
      <4>3. QED
        BY <4>1, <4>2
    <3>3. CASE i \in 1 .. Len(c[x]) /\ j \in 1 .. Len(c[y]) /\ c[x][i] = c[y][j]
      BY <3>3, <2>2
    <3>4. QED
      BY <3>1, <3>2, <3>3
  <2>4. \A x \in Queues : \A i \in 1 .. Len(d[x]) :
          d[x][i] \notin free' /\ \A u \in Threads : d[x][i] # current'[u]
    <3> SUFFICES ASSUME NEW x \in Queues, NEW i \in 1 .. Len(d[x])
                 PROVE  d[x][i] \notin free' /\ \A u \in Threads : d[x][i] # current'[u]
      OBVIOUS
    <3>1. CASE d[x][i] = n
      BY <3>1, <1>1, <1>2
    <3>2. CASE i \in 1 .. Len(c[x]) /\ d[x][i] = c[x][i]
      BY <3>2, <1>1, <1>2 DEF Apart
    <3>3. QED
      BY <3>1, <3>2, <2>1
  <2>5. \A u \in Threads : current'[u] \notin free'
    BY <1>1, <1>2 DEF Apart
  <2>6. \A x, u \in Threads : current'[x] = current'[u] /\ current'[x] # None => x = u
    BY <1>1, <1>2 DEF Apart
  <2>7. QED
    BY <2>3, <2>4, <2>5, <2>6 DEF Apart
<1>8. ASSUME NEW u \in Threads
      PROVE  WordIsRight(d, u)' /\ CallIsRight(u)' /\ LinkIsRight(u)' /\ PopIsRight(u)'
  <2>1. queue[u] # q
    BY <1>1, <1>2 DEF CallIsRight
  <2>2. \A x \in Queues : queue[u] = x =>
          /\ head'[x] = head[x] /\ d[x] = c[x]
          /\ tail'[x].count >= tail[x].count
          /\ contents'[x] = contents[x]
          /\ \A i \in 1 .. Len(c[x]) :
               next'[c[x][i]] = next[c[x][i]] /\ value'[c[x][i]] = value[c[x][i]]
          /\ \A m \in Nodes : word[u].to = m =>
               \/ next'[m] = next[m] \/ next'[m].to # x
               \/ next'[m].count > word[u].count + 1
    <3> TAKE x \in Queues
    <3>1. tail[x].count \in Nat /\ next'[n].to = q
      BY <1>2 DEF TypeOK, Word, EndLink
    <3>2. QED
      BY <3>1, <2>1, <1>2, <1>3, <1>4
  <2>3. current[u] # None =>
          next'[current[u]] = next[current[u]] /\ value'[current[u]] = value[current[u]]
    BY <1>1, <1>2 DEF TypeOK
  <2>4. /\ pc'[u] = pc[u] /\ queue'[u] = queue[u] /\ current'[u] = current[u]
        /\ word'[u] = word[u] /\ link'[u] = link[u] /\ result'[u] = result[u]
    BY <1>2
  <2>5. QED
    BY <2>2, <2>3, <2>4, SameChain, ZenonT(60)
<1>9. MarksAreNew'
  BY <1>1, <1>2 DEF MarksAreNew
<1>10. Inv(d)'
  BY <1>6, <1>7, <1>8, <1>9 DEF Inv
<1>11. QED
  BY <1>10

\* A queue that nobody uses gives its nodes back.
LEMMA DestructKeeps ==
  ASSUME TypeOK, TypeOK', NEW c \in [Queues -> Seq(Nodes)], Inv(c),
         NEW q \in Queues, Destruct(q)
  PROVE  \E d \in [Queues -> Seq(Nodes)] : Inv(d)'
<1>1. /\ Apart(c) /\ MarksAreNew /\ \A r \in Queues : QueueIs(r, c[r])
      /\ q # None /\ q \notin Nodes /\ \A u \in Threads : CallIsRight(u)
  BY LockfreeQueueAssumption DEF Inv
<1>2. Exists(q) /\ \A u \in Threads : queue[u] # q
  BY DEF Destruct
<1>3. PICK nodes \in SUBSET Nodes : nodes = {c[q][i] : i \in 1 .. Len(c[q])}
  <2>1. {c[q][i] : i \in 1 .. Len(c[q])} \in SUBSET Nodes
    OBVIOUS
  <2>2. QED
    BY <2>1
<1>4. ChainNodes(q) = nodes
  BY <1>2, <1>3, ChainOf
<1>5. /\ free' = free \union nodes
      /\ head'[q] = NoWord /\ contents'[q] = <<>>
      /\ \A x \in Queues : x # q =>
           head'[x] = head[x] /\ tail'[x] = tail[x] /\ contents'[x] = contents[x]
      /\ \A m \in nodes : next'[m].to = None
      /\ \A m \in Nodes : m \notin nodes => next'[m] = next[m]
      /\ UNCHANGED <<value, pc, queue, current, word, link, result>>
  BY <1>4 DEF Destruct, Pooled, NoWord, localVars, TypeOK
<1>6. PICK d \in [Queues -> Seq(Nodes)] :
        d[q] = <<>> /\ \A x \in Queues : x # q => d[x] = c[x]
  <2>1. [c EXCEPT ![q] = <<>>] \in [Queues -> Seq(Nodes)]
    OBVIOUS
  <2>2. QED
    BY <2>1
<1>7. \A x \in Queues : \A i \in 1 .. Len(c[x]) :
        /\ c[x][i] \in Nodes
        /\ x # q => c[x][i] \notin nodes /\ next'[c[x][i]] = next[c[x][i]]
  <2> TAKE x \in Queues
  <2> TAKE i \in 1 .. Len(c[x])
  <2>1. c[x][i] \in Nodes
    OBVIOUS
  <2>2. x # q => c[x][i] \notin nodes
    BY <1>1, <1>3 DEF Apart
  <2>3. QED
    BY <1>5, <2>1, <2>2
<1>8. \A u \in Threads : current[u] \notin nodes
  BY <1>1, <1>3 DEF Apart
<1>9. ASSUME NEW x \in Queues PROVE QueueIs(x, d[x])'
  <2>1. CASE x = q
    BY <2>1, <1>5, <1>6 DEF QueueIs, Exists
  <2>2. CASE x # q
    <3>1. QueueIs(x, c[x])'
      BY <2>2, <1>1, <1>5, <1>7, SameQueue
    <3>2. QED
      BY <3>1, <2>2, <1>6
  <2>3. QED
    BY <2>1, <2>2
<1>10. Apart(d)'
  <2>1. \A x \in Queues : \A i \in 1 .. Len(d[x]) :
          x # q /\ i \in 1 .. Len(c[x]) /\ d[x][i] = c[x][i]
    <3> SUFFICES ASSUME NEW x \in Queues, NEW i \in 1 .. Len(d[x])
                 PROVE  x # q /\ i \in 1 .. Len(c[x]) /\ d[x][i] = c[x][i]
      OBVIOUS
    <3>1. CASE x = q
      <4>1. d[x] = <<>> /\ Len(d[x]) = 0
        BY <3>1, <1>6
      <4>2. QED
        BY <4>1
    <3>2. CASE x # q
      BY <3>2, <1>6
    <3>3. QED
      BY <3>1, <3>2
  <2>2. \A x, y \in Queues : \A i \in 1 .. Len(c[x]), j \in 1 .. Len(c[y]) :
          c[x][i] = c[y][j] => x = y /\ i = j
    BY <1>1 DEF Apart
  <2>3. \A x, y \in Queues : \A i \in 1 .. Len(d[x]), j \in 1 .. Len(d[y]) :
          d[x][i] = d[y][j] => x = y /\ i = j
    BY SMTT(20), <2>1, <2>2
  <2>4. \A x \in Queues : \A i \in 1 .. Len(d[x]) :
          d[x][i] \notin free' /\ \A u \in Threads : d[x][i] # current'[u]
    BY SMTT(20), <2>1, <1>1, <1>5, <1>7 DEF Apart
  <2>5. \A u \in Threads : current'[u] \notin free'
    BY <1>1, <1>5, <1>8 DEF Apart
  <2>6. \A x, u \in Threads : current'[x] = current'[u] /\ current'[x] # None => x = u
    BY <1>1, <1>5 DEF Apart
  <2>7. QED
    BY <2>3, <2>4, <2>5, <2>6 DEF Apart
<1>11. ASSUME NEW u \in Threads
       PROVE  WordIsRight(d, u)' /\ CallIsRight(u)' /\ LinkIsRight(u)' /\ PopIsRight(u)'
  <2>1. \A x \in Queues : queue[u] = x =>
          /\ head'[x] = head[x] /\ d[x] = c[x]
          /\ tail'[x].count >= tail[x].count
          /\ contents'[x] = contents[x]
          /\ \A i \in 1 .. Len(c[x]) :
               next'[c[x][i]] = next[c[x][i]] /\ value'[c[x][i]] = value[c[x][i]]
          /\ \A m \in Nodes : word[u].to = m =>
               \/ next'[m] = next[m] \/ next'[m].to # x
               \/ next'[m].count > word[u].count + 1
    <3> TAKE x \in Queues
    <3>1. tail[x].count \in Nat /\ x # None
      BY LockfreeQueueAssumption DEF TypeOK, Word
    <3>2. \A m \in Nodes : next'[m] = next[m] \/ next'[m].to # x
      BY <3>1, <1>5
    <3>3. ASSUME queue[u] = x PROVE x # q
      BY <3>3, <1>2
    <3>4. QED
      BY <3>1, <3>2, <3>3, <1>5, <1>6, <1>7
  <2>2. current[u] # None =>
          next'[current[u]] = next[current[u]] /\ value'[current[u]] = value[current[u]]
    BY <1>5, <1>8 DEF TypeOK
  <2>3. /\ pc'[u] = pc[u] /\ queue'[u] = queue[u] /\ current'[u] = current[u]
        /\ word'[u] = word[u] /\ link'[u] = link[u] /\ result'[u] = result[u]
    BY <1>5
  <2>4. QED
    BY <2>1, <2>2, <2>3, SameChain, ZenonT(60)
<1>12. MarksAreNew'
  BY <1>1, <1>5 DEF MarksAreNew
<1>13. Inv(d)'
  BY <1>9, <1>10, <1>11, <1>12 DEF Inv
<1>14. QED
  BY <1>13

-----------------------------------------------------------------------------
(* Every step.                                                               *)

\* What is read and stored has the type of its variable: above all, whoever follows
\* a word or a link has one that leads to a node.
LEMMA TypeStep ==
  ASSUME TypeOK, NEW c \in [Queues -> Seq(Nodes)], Inv(c), [Next]_vars
  PROVE  TypeOK'
<1> USE DEF TypeOK
<1>0. /\ NoWord \in Word /\ NoWord \in Link
      /\ \A q \in Queues : \A i \in Nat : EndLink(q, i) \in Link
  BY DEF NoWord, Word, Link, EndLink
<1>1. ASSUME NEW q \in Queues, NEW n \in Nodes, Construct(q, n) PROVE TypeOK'
  <2>1. EndLink(q, 1) \in Link /\ [to |-> n, count |-> 0] \in Word
    BY <1>0 DEF Word
  <2>2. QED
    BY <1>1, <2>1 DEF Construct, localVars, histVars
<1>2. ASSUME NEW q \in Queues, Destruct(q) PROVE TypeOK'
  <2>1. ChainNodes(q) \subseteq Nodes
    <3>1. Exists(q)
      BY <1>2 DEF Destruct
    <3>2. ChainNodes(q) = {c[q][i] : i \in 1 .. Len(c[q])}
      BY <3>1, ChainOf
    <3>3. \A i \in 1 .. Len(c[q]) : c[q][i] \in Nodes
      OBVIOUS
    <3>4. QED
      BY <3>2, <3>3
  <2>2. Pooled(ChainNodes(q)) \in [Nodes -> Link]
    BY <1>0 DEF Pooled
  <2>3. <<>> \in Seq(Values)
    OBVIOUS
  <2>4. QED
    BY <1>0, <1>2, <2>1, <2>2, <2>3 DEF Destruct, localVars
<1>3. ASSUME NEW t \in Threads, NEW q \in Queues, NEW n \in Nodes, NEW v \in Values,
             EmplaceAllocate(t, q, n, v)
      PROVE  TypeOK'
  <2>1. emplaced' \in [Queues -> 0 .. EmplaceLimit]
    <3>1. emplaced[q] + 1 \in 0 .. EmplaceLimit
      BY <1>3, LockfreeQueueAssumption DEF EmplaceAllocate
    <3>2. QED
      BY <1>3, <3>1 DEF EmplaceAllocate
  <2>2. QED
    BY <1>3, <2>1 DEF EmplaceAllocate, Goto, PCs, Inserting
<1>4. ASSUME NEW t \in Threads, NEW q \in Queues, MultiPopCall(t, q) \/ EmptyCall(t, q)
      PROVE  TypeOK'
  <2>1. CASE MultiPopCall(t, q)
    BY <2>1 DEF MultiPopCall, Goto, sharedVars, histVars, PCs, Popping
  <2>2. CASE EmptyCall(t, q)
    BY <2>2 DEF EmptyCall, Goto, sharedVars, histVars, PCs
  <2>3. QED
    BY <1>4, <2>1, <2>2
<1>5. ASSUME NEW t \in Threads, Step(t) PROVE TypeOK'
  <2>0. /\ CallIsRight(t) /\ LinkIsRight(t) /\ word[t] \in Word /\ link[t] \in Link
        /\ word[t].count \in Nat /\ word[t].to \in Nodes \union {None}
    BY DEF Inv, Word
  <2>1. /\ pc[t] # "idle" => queue[t] \in Queues
        /\ pc[t] \in HasWord => word[t].to \in Nodes
        /\ pc[t] \in HasLink => link[t].to \in Nodes /\ link[t] \in Word
        /\ pc[t] \in Inserting \union {"pop_free"} => current[t] \in Nodes
    BY <2>0 DEF CallIsRight, LinkIsRight, Link, Word
  <2>2. ASSUME NEW m \in PCs, Goto(t, m) PROVE pc' \in [Threads -> PCs]
    BY <2>2 DEF Goto
  <2>3. ASSUME Return(t)
        PROVE  /\ pc' \in [Threads -> PCs] /\ queue' \in [Threads -> Queues \union {None}]
               /\ current' \in [Threads -> Nodes \union {None}]
               /\ word' \in [Threads -> Word] /\ link' \in [Threads -> Link]
               /\ result' \in [Threads -> Values \union {None}]
    BY <2>3, <1>0 DEF Return, Goto, PCs
  <2>4. CASE EmplaceLoad(t)
    <3>1. tail[queue[t]] \in Word
      BY <2>1, <2>4 DEF EmplaceLoad
    <3>2. QED
      BY <2>4, <3>1 DEF EmplaceLoad, Goto, sharedVars, histVars, PCs, Inserting
  <2>5. CASE EmplaceNext(t)
    <3>1. next[word[t].to] \in Link
      BY <2>1, <2>5 DEF EmplaceNext, HasWord
    <3>2. pc' \in [Threads -> PCs]
      BY <2>5 DEF EmplaceNext, Goto, PCs, Inserting
    <3>3. QED
      BY <2>5, <3>1, <3>2 DEF EmplaceNext, sharedVars, histVars
  <2>6. CASE EmplaceHelp(t)
    <3>1. tail[queue[t]] \in Word /\ link[t] \in Word
      BY <2>1, <2>6 DEF EmplaceHelp, HasLink
    <3>2. QED
      BY <2>6, <3>1 DEF EmplaceHelp, Goto, histVars, PCs, Inserting
  <2>7. CASE EmplaceMark(t)
    <3>1. EndLink(queue[t], word[t].count + 2) \in Link
      BY <1>0, <2>0, <2>1, <2>7 DEF EmplaceMark
    <3>2. QED
      BY <2>7, <3>1 DEF EmplaceMark, Goto, histVars, PCs, Inserting
  <2>8. CASE EmplaceLink(t)
    <3>1. value[current[t]] \in Values /\ queue[t] \in Queues /\ current[t] \in Nodes
      BY <2>0, <2>1, <2>8 DEF EmplaceLink, CallIsRight, Inserting
    <3>2. /\ Append(contents[queue[t]], value[current[t]]) \in Seq(Values)
          /\ [to |-> current[t], count |-> word[t].count + 1] \in Link
      BY <2>0, <3>1 DEF Link
    <3>3. CASE next[word[t].to] = link[t]
      BY <2>3, <2>8, <3>2, <3>3 DEF EmplaceLink
    <3>4. CASE next[word[t].to] # link[t]
      BY <2>8, <3>4 DEF EmplaceLink, Goto, PCs, Inserting
    <3>5. QED
      BY <3>3, <3>4
  <2>9. CASE EmptyLoad(t)
    <3>1. head[queue[t]] \in Word
      BY <2>1, <2>9 DEF EmptyLoad
    <3>2. QED
      BY <2>9, <3>1 DEF EmptyLoad, Goto, sharedVars, histVars, PCs
  <2>10. CASE EmptyNext(t)
    <3>1. CASE Return(t)
      BY <2>3, <2>10, <3>1 DEF EmptyNext, sharedVars, histVars
    <3>2. CASE ~Return(t)
      BY <2>10, <3>2, <1>0 DEF EmptyNext, Goto, sharedVars, histVars, PCs, Popping
    <3>3. QED
      BY <3>1, <3>2
  <2>11. CASE PopLoad(t)
    <3>1. head[queue[t]] \in Word
      BY <2>1, <2>11 DEF PopLoad
    <3>2. QED
      BY <2>11, <3>1 DEF PopLoad, Goto, sharedVars, histVars, PCs, Popping
  <2>12. CASE PopNext(t)
    <3>1. next[word[t].to] \in Link
      BY <2>1, <2>12 DEF PopNext, HasWord
    <3>2. CASE Return(t)
      BY <2>3, <2>12, <3>2 DEF PopNext, sharedVars, histVars
    <3>3. CASE ~Return(t)
      <4>1. pc' \in [Threads -> PCs]
        <5>1. PICK label \in {"pop_tail", "broken", "pop_load"} : pc' = [pc EXCEPT ![t] = label]
          BY ZenonT(60), <2>12, <3>3 DEF PopNext, Goto
        <5>2. QED
          BY <5>1 DEF PCs, Popping
      <4>2. QED
        BY <2>12, <3>1, <3>3, <4>1 DEF PopNext, sharedVars, histVars
    <3>4. QED
      BY <3>2, <3>3
  <2>13. CASE PopTail(t)
    BY <2>13 DEF PopTail, Goto, sharedVars, histVars, PCs, Popping
  <2>14. CASE PopHelp(t)
    <3>1. link[t] \in Word
      BY <2>1, <2>14 DEF PopHelp, HasLink
    <3>2. QED
      BY <2>14, <3>1 DEF PopHelp, Goto, histVars, PCs, Popping
  <2>15. CASE PopValue(t)
    <3>1. value[link[t].to] \in Values \union {None}
      BY <2>1, <2>15 DEF PopValue, HasLink
    <3>2. QED
      BY <2>15, <3>1 DEF PopValue, Goto, sharedVars, histVars, PCs, Popping
  <2>16. CASE PopHead(t)
    <3>1. link[t] \in Word /\ contents[queue[t]] # <<>> /\ contents[queue[t]] \in Seq(Values)
      BY <2>1, <2>16, PopIsAtHead DEF PopHead
    <3>2. Tail(contents[queue[t]]) \in Seq(Values)
      BY <3>1
    <3>3. QED
      BY <2>0, <2>16, <3>1, <3>2 DEF PopHead, Goto, PCs
  <2>17. CASE PopRetry(t)
    <3>1. head[queue[t]] \in Word
      BY <2>1, <2>17 DEF PopRetry
    <3>2. QED
      BY <2>17, <3>1 DEF PopRetry, Goto, sharedVars, histVars, PCs, Popping
  <2>18. CASE PopFree(t)
    <3>1. current[t] \in Nodes
      BY <2>1, <2>18 DEF PopFree
    <3>2. Pooled({current[t]}) \in [Nodes -> Link]
      BY <1>0 DEF Pooled
    <3>3. QED
      BY <2>3, <2>18, <3>1, <3>2 DEF PopFree, histVars
  <2>19. QED
    BY <1>5, <2>4, <2>5, <2>6, <2>7, <2>8, <2>9, <2>10, <2>11, <2>12, <2>13, <2>14, <2>15,
       <2>16, <2>17, <2>18 DEF Step, Emplace, Empty, Pop
<1>6. CASE UNCHANGED vars
  BY <1>6 DEF vars, sharedVars, localVars, histVars
<1>7. QED
  BY <1>1, <1>2, <1>3, <1>4, <1>5, <1>6 DEF Next

IInv == TypeOK /\ \E c \in [Queues -> Seq(Nodes)] : Inv(c)

\* At first no queue exists, and every thread is outside of a call.
LEMMA InitHolds == ASSUME Init PROVE IInv
<1>1. <<>> \in Seq(Values) /\ <<>> \in Seq(Nodes) /\ NoWord \in Word /\ NoWord \in Link
      /\ NoWord.to = None /\ EmplaceLimit \in Nat
  BY LockfreeQueueAssumption DEF NoWord, Word, Link
<1>2. TypeOK
  BY <1>1 DEF Init, TypeOK, PCs
<1>3. PICK c \in [Queues -> Seq(Nodes)] : \A q \in Queues : c[q] = <<>>
  <2>1. [q \in Queues |-> <<>>] \in [Queues -> Seq(Nodes)]
    BY <1>1
  <2>2. QED
    BY <2>1
<1>4. \A q \in Queues : QueueIs(q, c[q])
  BY <1>3 DEF Init, QueueIs, Exists
<1>5. \A q \in Queues : Len(c[q]) = 0
  BY <1>3
<1>6. \A t \in Threads : /\ pc[t] = "idle" /\ queue[t] = None /\ current[t] = None
                         /\ word[t].to = None
  BY <1>1 DEF Init
<1>7. Apart(c)
  <2>1. \A t \in Threads : current[t] \notin free
    BY <1>6, LockfreeQueueAssumption DEF Init
  <2>2. QED
    BY <1>5, <1>6, <2>1 DEF Apart
<1>8. ASSUME NEW t \in Threads
      PROVE  WordIsRight(c, t) /\ CallIsRight(t) /\ LinkIsRight(t) /\ PopIsRight(t)
  <2>1. WordIsRight(c, t) /\ LinkIsRight(t)
    BY <1>6 DEF WordIsRight, LinkIsRight, HasLink
  <2>2. CallIsRight(t)
    BY <1>6 DEF CallIsRight, Inserting, Popping, Pops, HasWord
  <2>3. PopIsRight(t)
    BY <1>6 DEF PopIsRight, Popping, FromHead
  <2>4. QED
    BY <2>1, <2>2, <2>3
<1>9. MarksAreNew
  BY <1>6 DEF MarksAreNew, FromTail
<1>10. Inv(c)
  BY <1>4, <1>7, <1>8, <1>9 DEF Inv
<1>11. QED
  BY <1>2, <1>10 DEF IInv

\* Every step keeps the chains.
LEMMA Inductive == ASSUME IInv, [Next]_vars PROVE IInv'
<1>1. PICK c \in [Queues -> Seq(Nodes)] : Inv(c)
  BY DEF IInv
<1>2. TypeOK
  BY DEF IInv
<1>3. TypeOK'
  BY <1>1, <1>2, TypeStep
<1>4. \E d \in [Queues -> Seq(Nodes)] : Inv(d)'
  <2>1. CASE UNCHANGED vars
    <3> USE <1>1, <2>1 DEF vars, sharedVars, localVars, histVars, Inv
    <3>1. \A q \in Queues : QueueIs(q, c[q])'
      BY DEF QueueIs, Exists, On
    <3>2. Apart(c)'
      BY DEF Apart
    <3>3. \A t \in Threads : WordIsRight(c, t)'
      BY DEF WordIsRight, Old, On
    <3>4. \A t \in Threads : CallIsRight(t)' /\ LinkIsRight(t)' /\ PopIsRight(t)'
      BY DEF CallIsRight, LinkIsRight, PopIsRight, Exists, Old
    <3>5. MarksAreNew'
      BY DEF MarksAreNew
    <3>6. Inv(c)'
      BY <3>1, <3>2, <3>3, <3>4, <3>5
    <3>7. QED
      BY <3>6
  <2>2. ASSUME NEW q \in Queues, Destruct(q) PROVE \E d \in [Queues -> Seq(Nodes)] : Inv(d)'
    BY <1>1, <1>2, <1>3, <2>2, DestructKeeps
  <2>3. ASSUME NEW q \in Queues, NEW n \in Nodes, Construct(q, n)
        PROVE  \E d \in [Queues -> Seq(Nodes)] : Inv(d)'
    BY <1>1, <1>2, <1>3, <2>3, ConstructKeeps
  <2>4. ASSUME NEW t \in Threads, NEW q \in Queues, NEW n \in Nodes, NEW v \in Values,
               EmplaceAllocate(t, q, n, v)
        PROVE  \E d \in [Queues -> Seq(Nodes)] : Inv(d)'
    BY <1>1, <1>2, <1>3, <2>4, EmplaceAllocateKeeps
  <2>5. ASSUME NEW t \in Threads, NEW q \in Queues, MultiPopCall(t, q) \/ EmptyCall(t, q)
        PROVE  \E d \in [Queues -> Seq(Nodes)] : Inv(d)'
    BY <1>1, <1>2, <1>3, <2>5, PopCallKeeps
  <2>6. ASSUME NEW t \in Threads, Emplace(t) PROVE \E d \in [Queues -> Seq(Nodes)] : Inv(d)'
    BY <1>1, <1>2, <1>3, <2>6, EmplaceLoadKeeps, EmplaceNextKeeps, EmplaceHelpKeeps,
       EmplaceMarkKeeps, EmplaceLinkKeeps DEF Emplace
  <2>7. ASSUME NEW t \in Threads, Empty(t) PROVE \E d \in [Queues -> Seq(Nodes)] : Inv(d)'
    BY <1>1, <1>2, <1>3, <2>7, EmptyLoadKeeps, EmptyNextKeeps DEF Empty
  <2>8. ASSUME NEW t \in Threads, Pop(t) PROVE \E d \in [Queues -> Seq(Nodes)] : Inv(d)'
    BY <1>1, <1>2, <1>3, <2>8, PopLoadKeeps, PopNextKeeps, PopTailKeeps, PopHelpKeeps,
       PopValueKeeps, PopHeadKeeps, PopRetryKeeps, PopFreeKeeps DEF Pop
  <2>9. QED
    BY <2>1, <2>2, <2>3, <2>4, <2>5, <2>6, <2>7, <2>8 DEF Next, Step
<1>5. QED
  BY <1>3, <1>4 DEF IInv

\* The memory of the queues is a chain for each of them in every state.
THEOREM Invariance == Spec => []IInv
<1>1. Init => IInv
  BY InitHolds
<1>2. IInv /\ [Next]_vars => IInv'
  BY Inductive
<1>3. QED
  BY <1>1, <1>2, PTL DEF Spec, Safety

-----------------------------------------------------------------------------
(* What the runs check.                                                      *)

\* A sequence is a function from its places.
LEMMA AsFunction ==
  ASSUME NEW S, NEW s \in Seq(S)
  PROVE  s = [i \in 1 .. Len(s) |-> s[i]]
OBVIOUS

\* WordsAreTheQueue for any number of queues, nodes and threads: the links from the
\* head are the values inserted and not yet popped, in order, and the tail is one of
\* those nodes (queue.h:473, :496).
THEOREM WordsCorrect == Spec => []WordsAreTheQueue
<1>1. ASSUME IInv PROVE WordsAreTheQueue
  <2>1. TypeOK
    BY <1>1 DEF IInv
  <2>2. PICK c \in [Queues -> Seq(Nodes)] : Inv(c)
    BY <1>1 DEF IInv
  <2>3. ASSUME NEW q \in Queues, Exists(q)
        PROVE  /\ [i \in 1 .. Len(Chain(q)) - 1 |-> value[Chain(q)[i + 1]]] = contents[q]
               /\ \A i \in 1 .. Len(Chain(q)) : next[Chain(q)[i]].count = head[q].count + i
               /\ next[Chain(q)[Len(Chain(q))]].to = q
               /\ \E i \in DOMAIN Chain(q) :
                    tail[q] = [to |-> Chain(q)[i], count |-> head[q].count + i - 1]
    <3> DEFINE s == c[q]
    <3>1. Chain(q) = s
      BY <2>1, <2>2, <2>3, ChainOf
    <3>2. QueueIs(q, s) /\ s \in Seq(Nodes)
      BY <2>2 DEF Inv
    <3>3. /\ Len(s) \in Nat /\ Len(s) >= 1 /\ head[q].count \in Nat
          /\ \A i \in 1 .. Len(s) :
               /\ next[s[i]].count = head[q].count + i
               /\ next[s[i]].to = IF i = Len(s) THEN q ELSE s[i + 1]
          /\ Len(s) = Len(contents[q]) + 1
          /\ \A i \in 1 .. Len(contents[q]) : contents[q][i] = value[s[i + 1]]
          /\ \E i \in 1 .. Len(s) : On(s, q, i, tail[q])
      BY <2>1, <2>3, <3>2, ChainFacts
    <3>4. contents[q] \in Seq(Values) /\ tail[q] \in Word
      BY <2>1 DEF TypeOK
    <3>5. Len(s) - 1 = Len(contents[q])
      BY <3>3, <3>4
    <3>6. contents[q] = [i \in 1 .. Len(contents[q]) |-> contents[q][i]]
      BY <3>4, AsFunction
    <3>7. [i \in 1 .. Len(s) - 1 |-> value[s[i + 1]]] = contents[q]
      BY <3>3, <3>5, <3>6
    <3>8. Len(s) \in 1 .. Len(s)
      BY <3>3
    <3>9. PICK i \in 1 .. Len(s) : tail[q].to = s[i] /\ tail[q].count = head[q].count + i - 1
      BY <3>3 DEF On
    <3>10. tail[q] = [to |-> s[i], count |-> head[q].count + i - 1]
      <4>1. tail[q] = [to |-> tail[q].to, count |-> tail[q].count]
        BY <3>4 DEF Word
      <4>2. QED
        BY <4>1, <3>9
    <3>11. i \in DOMAIN s
      BY <3>2
    <3>12. QED
      BY <3>1, <3>3, <3>7, <3>8, <3>10, <3>11
  <2>4. ChainIsContents
    BY <2>1, <2>3 DEF ChainIsContents
  <2>5. TailInChain
    BY <2>3 DEF TailInChain
  <2>6. QED
    BY <2>4, <2>5 DEF WordsAreTheQueue
<1>2. QED
  BY <1>1, Invariance, PTL

\* OneOwner for any number of threads: a node is in one queue, in one thread's hands
\* or in the pool, though threads still look at nodes that were popped.
THEOREM OwnersCorrect == Spec => []OneOwner
<1>1. ASSUME IInv PROVE OneOwner
  <2>1. TypeOK
    BY <1>1 DEF IInv
  <2>2. PICK c \in [Queues -> Seq(Nodes)] : Inv(c)
    BY <1>1 DEF IInv
  <2>3. Apart(c)
    BY <2>2 DEF Inv
  <2>4. ASSUME NEW q \in Queues, Exists(q)
        PROVE  ChainNodes(q) = {c[q][i] : i \in 1 .. Len(c[q])}
    BY <2>1, <2>2, <2>4, ChainOf
  <2>5. ASSUME NEW q \in Queues, Exists(q)
        PROVE  /\ ChainNodes(q) \intersect free = {}
               /\ \A t \in Threads : ChainNodes(q) \intersect Held(t) = {}
    BY <2>3, <2>4, <2>5 DEF Apart, Held
  <2>6. ASSUME NEW q \in Queues, Exists(q), NEW r \in Queues \ {q}, Exists(r)
        PROVE  ChainNodes(q) \intersect ChainNodes(r) = {}
    <3>1. /\ ChainNodes(q) = {c[q][i] : i \in 1 .. Len(c[q])}
          /\ ChainNodes(r) = {c[r][i] : i \in 1 .. Len(c[r])}
      BY <2>4, <2>6
    <3>2. \A i \in 1 .. Len(c[q]), j \in 1 .. Len(c[r]) : c[q][i] # c[r][j]
      BY <2>3 DEF Apart
    <3>3. QED
      BY <3>1, <3>2
  <2>7. ASSUME NEW t \in Threads
        PROVE  /\ Held(t) \intersect free = {}
               /\ \A u \in Threads \ {t} : Held(t) \intersect Held(u) = {}
    BY <2>3 DEF Apart, Held
  <2>8. QED
    BY <2>5, <2>6, <2>7 DEF OneOwner
<1>2. QED
  BY <1>1, Invariance, PTL

\* PopIsFirst for any number of consumers: a pop whose exchange succeeds returns the
\* first value, though it read the value before.
THEOREM PopCorrect == Spec => []PopIsFirst
<1>1. ASSUME IInv PROVE PopIsFirst
  <2>1. TypeOK
    BY <1>1 DEF IInv
  <2>2. PICK c \in [Queues -> Seq(Nodes)] : Inv(c)
    BY <1>1 DEF IInv
  <2> SUFFICES ASSUME NEW t \in Threads, pc[t] = "pop_head", head[queue[t]] = word[t] \/ ~MultiPop
               PROVE  /\ contents[queue[t]] # <<>>
                      /\ result[t] = Head(contents[queue[t]])
                      /\ link[t] = next[word[t].to]
    BY DEF PopIsFirst
  <2> DEFINE q == queue[t]
             s == c[q]
  <2>3. /\ q \in Queues /\ Exists(q) /\ contents[q] # <<>> /\ link[t] = next[word[t].to]
        /\ link[t].to = s[2] /\ result[t] = value[link[t].to]
    BY <2>1, <2>2, PopIsAtHead
  <2>4. contents[q] \in Seq(Values) /\ QueueIs(q, s) /\ s \in Seq(Nodes)
    BY <2>1, <2>2, <2>3 DEF TypeOK, Inv
  <2>5. 1 \in 1 .. Len(contents[q]) /\ Head(contents[q]) = contents[q][1]
    BY <2>3, <2>4
  <2>6. \A i \in 1 .. Len(contents[q]) : contents[q][i] = value[s[i + 1]]
    BY <2>1, <2>3, <2>4, ChainFacts
  <2>7. contents[q][1] = value[s[2]]
    BY <2>5, <2>6
  <2>8. QED
    BY <2>3, <2>5, <2>7
<1>2. QED
  BY <1>1, Invariance, PTL

\* CallsActOnTheirQueue for any number of threads: an insertion links behind the last
\* node of its own queue, and the one consumer, told that there is a value, pops one
\* (queue.h:473, :523).
THEOREM CallsCorrect == Spec => []CallsActOnTheirQueue
<1>1. ASSUME IInv PROVE CallsActOnTheirQueue
  <2>1. TypeOK
    BY <1>1 DEF IInv
  <2>2. PICK c \in [Queues -> Seq(Nodes)] : Inv(c)
    BY <1>1 DEF IInv
  <2>3. NeverBroken
    BY <2>2 DEF Inv, CallIsRight, NeverBroken
  <2>4. ASSUME NEW t \in Threads, pc[t] = "emplace_link", next[word[t].to] = link[t]
        PROVE  Exists(queue[t]) /\ word[t].to = Chain(queue[t])[Len(Chain(queue[t]))]
    <3>1. /\ queue[t] \in Queues /\ Exists(queue[t])
          /\ word[t].to = c[queue[t]][Len(c[queue[t]])]
      BY <2>1, <2>2, <2>4, LinkIsAtLast
    <3>2. Chain(queue[t]) = c[queue[t]]
      BY <2>1, <2>2, <3>1, ChainOf
    <3>3. QED
      BY <3>1, <3>2
  <2>5. LinkIsLast
    BY <2>4 DEF LinkIsLast
  <2>6. QED
    BY <2>3, <2>5 DEF CallsActOnTheirQueue
<1>2. QED
  BY <1>1, Invariance, PTL

\* Only a thread's own steps move it.
LEMMA OwnSteps ==
  ASSUME TypeOK, [Next]_vars, NEW t \in Threads, pc[t] \in {"pop_next", "empty_next"},
         pc'[t] # pc[t]
  PROVE  PopNext(t) \/ EmptyNext(t)
<1> USE DEF TypeOK, Goto, Return
<1>1. CASE UNCHANGED vars
  BY <1>1 DEF vars, localVars
<1>2. ASSUME NEW q \in Queues, Destruct(q) PROVE FALSE
  BY <1>2 DEF Destruct, localVars
<1>3. ASSUME NEW q \in Queues, NEW n \in Nodes, Construct(q, n) PROVE FALSE
  BY <1>3 DEF Construct, localVars
<1>4. ASSUME NEW u \in Threads, NEW q \in Queues, NEW n \in Nodes, NEW v \in Values,
             EmplaceAllocate(u, q, n, v)
      PROVE  FALSE
  BY <1>4 DEF EmplaceAllocate
<1>5. ASSUME NEW u \in Threads, NEW q \in Queues, MultiPopCall(u, q) \/ EmptyCall(u, q)
      PROVE  FALSE
  BY <1>5 DEF MultiPopCall, EmptyCall
<1>6. ASSUME NEW u \in Threads, Step(u)
      PROVE  u = t /\ (PopNext(t) \/ EmptyNext(t))
  <2>1. pc' = [pc EXCEPT ![u] = pc'[u]]
    BY <1>6 DEF Step, Emplace, Empty, Pop, EmplaceLoad, EmplaceNext, EmplaceHelp, EmplaceMark,
      EmplaceLink, EmptyLoad, EmptyNext, PopLoad, PopNext, PopTail, PopHelp, PopValue, PopHead,
      PopRetry, PopFree
  <2>2. u = t
    BY <2>1
  <2>3. PopNext(t) \/ EmptyNext(t)
    BY <1>6, <2>2 DEF Step, Emplace, Empty, Pop, EmplaceLoad, EmplaceNext, EmplaceHelp,
      EmplaceMark, EmplaceLink, EmptyLoad, PopLoad, PopTail, PopHelp, PopValue, PopHead,
      PopRetry, PopFree
  <2>4. QED
    BY <2>2, <2>3
<1>7. QED
  BY <1>1, <1>2, <1>3, <1>4, <1>5, <1>6 DEF Next

\* EmptyIsRight for any number of threads: pop says that there is nothing, and empty()
\* says so to the one consumer, only in a moment in which the queue is empty
\* (queue.h:489, :533).
THEOREM EmptyCorrect == Spec => EmptyIsRight
<1>1. ASSUME IInv, [Next]_vars, NEW t \in Threads, pc'[t] = "idle",
             pc[t] = "pop_next" \/ (pc[t] = "empty_next" /\ t = Consumer /\ ~MultiPop)
      PROVE  contents[queue[t]] = <<>>
  <2>1. TypeOK
    BY <1>1 DEF IInv
  <2>2. PICK c \in [Queues -> Seq(Nodes)] : Inv(c)
    BY <1>1 DEF IInv
  <2>3. /\ CallIsRight(t) /\ WordIsRight(c, t) /\ PopIsRight(t)
    BY <2>2 DEF Inv
  <2>4. /\ pc[t] \in FromHead /\ word[t].to # None /\ queue[t] # None /\ queue[t] \notin Nodes
    BY <1>1, <2>1, <2>3, LockfreeQueueAssumption
    DEF FromHead, CallIsRight, HasWord, TypeOK
  <2>5. /\ next[word[t].to].to = queue[t]
        /\ MultiPop => next[word[t].to].count = word[t].count + 1
        /\ MultiPop \/ t = Consumer
    <3>1. CASE PopNext(t)
      <4>1. PICK m \in {"idle", "pop_tail", "broken", "pop_load"} : pc'[t] = m
        BY <1>1
      <4>2. MultiPop /\ next[word[t].to].count = word[t].count + 1 /\ next[word[t].to].to = queue[t]
        BY <1>1, <2>1, <3>1 DEF PopNext, Goto, TypeOK
      <4>3. QED
        BY <4>2
    <3>2. CASE EmptyNext(t)
      <4>1. pc[t] = "empty_next" /\ t = Consumer /\ ~MultiPop
        BY <1>1, <3>2 DEF EmptyNext
      <4>2. next[word[t].to].to = queue[t]
        BY <1>1, <2>1, <3>2, <4>1 DEF EmptyNext, Goto, TypeOK
      <4>3. QED
        BY <4>1, <4>2
    <3>3. QED
      BY <1>1, <2>1, <3>1, <3>2, OwnSteps
  <2>6. word[t].count \in Nat
    BY <2>1 DEF TypeOK, Word
  <2>7. ~Old(t)
    <3>1. CASE MultiPop
      BY <3>1, <2>3, <2>4, <2>5, <2>6 DEF WordIsRight
    <3>2. CASE ~MultiPop
      BY <3>2, <2>3, <2>4, <2>5 DEF PopIsRight
    <3>3. QED
      BY <3>1, <3>2
  <2>8. contents[queue[t]] # <<>> => next[word[t].to].to \in Nodes
    BY <2>1, <2>2, <2>4, <2>7, AtHead
  <2>9. QED
    BY <2>4, <2>5, <2>8
<1>2. IInv /\ [Next]_vars =>
        [\A t \in Threads :
           /\ pc'[t] = "idle"
           /\ pc[t] = "pop_next" \/ (pc[t] = "empty_next" /\ t = Consumer /\ ~MultiPop)
           => contents[queue[t]] = <<>>]_vars
  BY <1>1
<1>3. QED
  BY <1>2, Invariance, PTL DEF EmptyIsRight, Spec, Safety

-----------------------------------------------------------------------------
(* The queue in an array that it goes round (module CircleQueue, as Circle): *)
(* there is a sequence that the array holds, and each call does to it what   *)
(* the abstract queue does.                                                  *)

\* The cell j behind f, in an array of n cells.
Cell(n, f, j) == IF f + j < n THEN f + j ELSE f + j - n

\* The array a of n cells holds the sequence c from f to r, and nothing else.
Holds(n, f, r, a, c) ==
  /\ n \in Nat \ {0} /\ f \in 0 .. n - 1
  /\ c \in Seq(Values) /\ Len(c) < n /\ r = Cell(n, f, Len(c))
  /\ a \in [0 .. n - 1 -> Values \union {Raw}]
  /\ \A j \in 0 .. n - 1 : a[Cell(n, f, j)] = IF j < Len(c) THEN c[j + 1] ELSE Raw

CircleHolds(c) == Holds(capacity, front, rear, array, c)

LEMMA Around ==
  ASSUME NEW n \in Nat \ {0}, NEW x \in 0 .. 2 * n - 1
  PROVE  x % n = IF x < n THEN x ELSE x - n
<1>1. PICK q, r : q = x \div n /\ r = x % n
  OBVIOUS
<1>2. q \in Int /\ r \in 0 .. n - 1 /\ x = n * q + r
  BY <1>1
<1>3. CASE q <= -1
  <2>1. n * q <= -n
    BY <1>2, <1>3
  <2>2. QED
    BY <1>2, <2>1
<1>4. CASE q >= 2
  <2>1. n * q >= 2 * n
    BY <1>2, <1>4
  <2>2. QED
    BY <1>2, <2>1
<1>5. CASE q = 0
  BY <1>1, <1>2, <1>5
<1>6. CASE q = 1
  <2>1. x = n + r
    BY <1>2, <1>6
  <2>2. QED
    BY <1>1, <1>2, <2>1
<1>7. QED
  BY <1>2, <1>3, <1>4, <1>5, <1>6

\* Every cell is one behind f, and different distances are different cells.
LEMMA CellFacts ==
  ASSUME NEW n \in Nat \ {0}, NEW f \in 0 .. n - 1
  PROVE  /\ \A j \in 0 .. n - 1 : Cell(n, f, j) \in 0 .. n - 1 /\ (f + j) % n = Cell(n, f, j)
         /\ \A i, j \in 0 .. n - 1 : Cell(n, f, i) = Cell(n, f, j) => i = j
         /\ \A k \in 0 .. n - 1 : \E j \in 0 .. n - 1 : k = Cell(n, f, j)
         /\ Cell(n, f, 0) = f
<1>1. ASSUME NEW j \in 0 .. n - 1
      PROVE  Cell(n, f, j) \in 0 .. n - 1 /\ (f + j) % n = Cell(n, f, j)
  <2>1. f + j \in 0 .. 2 * n - 1
    OBVIOUS
  <2>2. (f + j) % n = IF f + j < n THEN f + j ELSE (f + j) - n
    BY <2>1, Around
  <2>3. QED
    BY <2>2 DEF Cell
<1>2. ASSUME NEW k \in 0 .. n - 1
      PROVE  \E j \in 0 .. n - 1 : k = Cell(n, f, j)
  <2>1. CASE k >= f
    <3>1. k - f \in 0 .. n - 1 /\ k = Cell(n, f, k - f)
      BY <2>1 DEF Cell
    <3>2. QED
      BY <3>1
  <2>2. CASE k < f
    <3>1. k + n - f \in 0 .. n - 1 /\ k = Cell(n, f, k + n - f)
      BY <2>2 DEF Cell
    <3>2. QED
      BY <3>1
  <2>3. QED
    BY <2>1, <2>2
<1>3. \A i, j \in 0 .. n - 1 : Cell(n, f, i) = Cell(n, f, j) => i = j
  BY DEF Cell
<1>4. Cell(n, f, 0) = f
  BY DEF Cell
<1>5. QED
  BY <1>1, <1>2, <1>3, <1>4

\* What size, remain, empty and full say.
LEMMA CountFacts ==
  ASSUME NEW n, NEW f, NEW r, NEW a, NEW c, Holds(n, f, r, a, c)
  PROVE  /\ Len(c) \in 0 .. n - 1
         /\ r \in 0 .. n - 1
         /\ (r + n - f) % n = Len(c)
         /\ (f + n - (r + 1)) % n = n - 1 - Len(c)
         /\ f = r <=> Len(c) = 0
         /\ (r + 1) % n = f <=> Len(c) = n - 1
<1>1. n \in Nat \ {0} /\ f \in 0 .. n - 1 /\ c \in Seq(Values) /\ Len(c) < n /\ r = Cell(n, f, Len(c))
  BY DEF Holds
<1>2. PICK s \in Nat : s = Len(c)
  BY <1>1
<1>3. n \in Nat \ {0} /\ f \in 0 .. n - 1 /\ s \in 0 .. n - 1 /\ r = IF f + s < n THEN f + s ELSE f + s - n
  BY <1>1, <1>2 DEF Cell
<1>4. (r + n - f) % n = s
  <2>1. r + n - f \in 0 .. 2 * n - 1
    BY <1>3
  <2>2. (r + n - f) % n = IF r + n - f < n THEN r + n - f ELSE (r + n - f) - n
    BY <1>3, <2>1, Around
  <2>3. QED
    BY <1>3, <2>2
<1>5. (f + n - (r + 1)) % n = n - 1 - s
  <2>1. f + n - (r + 1) \in 0 .. 2 * n - 1
    BY <1>3
  <2>2. (f + n - (r + 1)) % n = IF f + n - (r + 1) < n THEN f + n - (r + 1) ELSE (f + n - (r + 1)) - n
    BY <1>3, <2>1, Around
  <2>3. QED
    BY <1>3, <2>2
<1>6. f = r <=> s = 0
  BY <1>3
<1>7. (r + 1) % n = f <=> s = n - 1
  <2>1. r + 1 \in 0 .. 2 * n - 1
    BY <1>3
  <2>2. (r + 1) % n = IF r + 1 < n THEN r + 1 ELSE (r + 1) - n
    BY <1>3, <2>1, Around
  <2>3. QED
    BY <1>3, <2>2
<1>8. r \in 0 .. n - 1
  BY <1>3
<1>9. QED
  BY <1>2, <1>3, <1>4, <1>5, <1>6, <1>7, <1>8

\* The elements in order are the sequence.
LEMMA ReadFacts ==
  ASSUME NEW n, NEW f, NEW r, NEW a, NEW c, Holds(n, f, r, a, c)
  PROVE  [j \in 1 .. (r + n - f) % n |-> a[(f + j - 1) % n]] = c
<1>1. /\ n \in Nat \ {0} /\ f \in 0 .. n - 1 /\ c \in Seq(Values)
      /\ \A j \in 0 .. n - 1 : a[Cell(n, f, j)] = IF j < Len(c) THEN c[j + 1] ELSE Raw
  BY DEF Holds
<1>2. PICK s \in Nat : s = Len(c)
  BY <1>1
<1>3. s \in 0 .. n - 1 /\ (r + n - f) % n = s
  BY <1>2, CountFacts
<1>4. ASSUME NEW j \in 1 .. s
      PROVE  a[(f + j - 1) % n] = c[j]
  <2>1. j - 1 \in 0 .. n - 1 /\ j - 1 < s /\ (j - 1) + 1 = j /\ f + j - 1 = f + (j - 1)
    BY <1>1, <1>3
  <2>2. (f + (j - 1)) % n = Cell(n, f, j - 1)
    BY <1>1, <2>1, CellFacts
  <2>3. a[Cell(n, f, j - 1)] = c[(j - 1) + 1]
    BY <1>1, <1>2, <2>1
  <2>4. QED
    BY <2>1, <2>2, <2>3
<1>5. c = [j \in 1 .. s |-> c[j]]
  BY <1>1, <1>2
<1>6. QED
  BY <1>3, <1>4, <1>5

\* A value more behind the last one.
LEMMA PutHolds ==
  ASSUME NEW n, NEW f, NEW r, NEW a, NEW c, Holds(n, f, r, a, c),
         Len(c) < n - 1, NEW v \in Values
  PROVE  Holds(n, f, (r + 1) % n, [a EXCEPT ![r] = v], Append(c, v))
<1>1. /\ n \in Nat \ {0} /\ f \in 0 .. n - 1 /\ c \in Seq(Values) /\ r = Cell(n, f, Len(c))
      /\ a \in [0 .. n - 1 -> Values \union {Raw}]
      /\ \A j \in 0 .. n - 1 : a[Cell(n, f, j)] = IF j < Len(c) THEN c[j + 1] ELSE Raw
  BY DEF Holds
<1>2. PICK s \in Nat : s = Len(c)
  BY <1>1
<1>3. s \in 0 .. n - 2 /\ s \in 0 .. n - 1 /\ r \in 0 .. n - 1
  <2>1. Len(c) \in 0 .. n - 1 /\ r \in 0 .. n - 1
    BY CountFacts
  <2>2. QED
    BY <1>1, <1>2, <2>1
<1>4. PICK d : d = Append(c, v)
  OBVIOUS
<1>5. /\ d \in Seq(Values) /\ Len(d) = s + 1 /\ d[s + 1] = v
      /\ \A j \in 1 .. s : d[j] = c[j]
  BY <1>1, <1>2, <1>4
<1>6. (r + 1) % n = Cell(n, f, s + 1)
  <2>1. r + 1 \in 0 .. 2 * n - 1
    BY <1>1, <1>3
  <2>2. (r + 1) % n = IF r + 1 < n THEN r + 1 ELSE (r + 1) - n
    BY <1>1, <2>1, Around
  <2>3. r = IF f + s < n THEN f + s ELSE f + s - n
    BY <1>1, <1>2 DEF Cell
  <2>4. (r + 1) % n = IF f + (s + 1) < n THEN f + (s + 1) ELSE f + (s + 1) - n
    BY <1>1, <1>3, <2>2, <2>3
  <2>5. QED
    BY <2>4 DEF Cell
<1>7. PICK b : b = [a EXCEPT ![r] = v]
  OBVIOUS
<1>8. b \in [0 .. n - 1 -> Values \union {Raw}]
  BY <1>1, <1>7
<1>9. ASSUME NEW j \in 0 .. n - 1
      PROVE  b[Cell(n, f, j)] = IF j < s + 1 THEN d[j + 1] ELSE Raw
  <2>1. Cell(n, f, j) \in 0 .. n - 1
    BY <1>1, CellFacts
  <2>2. CASE j = s
    BY <1>1, <1>2, <1>3, <1>5, <1>7, <2>2
  <2>3. CASE j # s
    <3>1. Cell(n, f, j) # r
      <4>1. r = Cell(n, f, s)
        BY <1>1, <1>2
      <4>2. \A i, k \in 0 .. n - 1 : Cell(n, f, i) = Cell(n, f, k) => i = k
        BY <1>1, CellFacts
      <4>3. QED
        BY <1>3, <2>3, <4>1, <4>2
    <3>2. b[Cell(n, f, j)] = a[Cell(n, f, j)]
      BY <1>1, <1>7, <2>1, <3>1
    <3>3. a[Cell(n, f, j)] = IF j < s THEN c[j + 1] ELSE Raw
      BY <1>1, <1>2
    <3>4. j < s => j + 1 \in 1 .. s
      OBVIOUS
    <3>5. j < s + 1 <=> j < s
      BY <2>3
    <3>6. QED
      BY <1>5, <3>2, <3>3, <3>4, <3>5
  <2>4. QED
    BY <2>2, <2>3
<1>10. s + 1 < n
  BY <1>1, <1>3
<1>11. Holds(n, f, (r + 1) % n, b, d)
  BY <1>1, <1>5, <1>6, <1>8, <1>9, <1>10 DEF Holds
<1>12. QED
  BY <1>4, <1>7, <1>11

\* The first value less.
LEMMA TakeHolds ==
  ASSUME NEW n, NEW f, NEW r, NEW a, NEW c, Holds(n, f, r, a, c), c # <<>>
  PROVE  Holds(n, (f + 1) % n, r, [a EXCEPT ![f] = Raw], Tail(c))
<1>1. /\ n \in Nat \ {0} /\ f \in 0 .. n - 1 /\ c \in Seq(Values) /\ r = Cell(n, f, Len(c))
      /\ a \in [0 .. n - 1 -> Values \union {Raw}]
      /\ \A j \in 0 .. n - 1 : a[Cell(n, f, j)] = IF j < Len(c) THEN c[j + 1] ELSE Raw
  BY DEF Holds
<1>2. PICK s \in Nat : s = Len(c)
  BY <1>1
<1>3. s \in 1 .. n - 1
  <2>1. Len(c) \in 0 .. n - 1
    BY CountFacts
  <2>2. Len(c) # 0
    BY <1>1
  <2>3. QED
    BY <1>1, <1>2, <2>1, <2>2
<1>4. PICK d : d = Tail(c)
  OBVIOUS
<1>5. /\ d \in Seq(Values) /\ Len(d) = s - 1
      /\ \A j \in 1 .. s - 1 : d[j] = c[j + 1]
  BY <1>1, <1>2, <1>3, <1>4
<1>6. PICK g : g = (f + 1) % n
  OBVIOUS
<1>7. g = IF f + 1 < n THEN f + 1 ELSE (f + 1) - n
  <2>1. f + 1 \in 0 .. 2 * n - 1
    BY <1>1
  <2>2. QED
    BY <1>1, <1>6, <2>1, Around
<1>8. /\ g \in 0 .. n - 1
      /\ \A j \in 0 .. n - 2 : Cell(n, g, j) = Cell(n, f, j + 1)
      /\ Cell(n, g, n - 1) = f
  BY <1>1, <1>7 DEF Cell
<1>9. r = Cell(n, g, s - 1)
  BY <1>1, <1>2, <1>3, <1>8
<1>10. PICK b : b = [a EXCEPT ![f] = Raw]
  OBVIOUS
<1>11. b \in [0 .. n - 1 -> Values \union {Raw}]
  BY <1>1, <1>10
<1>12. ASSUME NEW j \in 0 .. n - 1
       PROVE  b[Cell(n, g, j)] = IF j < s - 1 THEN d[j + 1] ELSE Raw
  <2>1. CASE j = n - 1
    <3>1. b[f] = Raw
      BY <1>1, <1>10
    <3>2. ~(j < s - 1)
      BY <1>3, <2>1
    <3>3. QED
      BY <1>8, <2>1, <3>1, <3>2
  <2>2. CASE j # n - 1
    <3>1. j \in 0 .. n - 2 /\ j + 1 \in 0 .. n - 1 /\ 0 \in 0 .. n - 1 /\ j + 1 # 0
      BY <1>1, <2>2
    <3>2. Cell(n, g, j) = Cell(n, f, j + 1)
      BY <1>8, <3>1
    <3>3. Cell(n, f, j + 1) # Cell(n, f, 0) /\ Cell(n, f, 0) = f /\ Cell(n, f, j + 1) \in 0 .. n - 1
      <4>1. \A i, k \in 0 .. n - 1 : Cell(n, f, i) = Cell(n, f, k) => i = k
        BY <1>1, CellFacts
      <4>2. Cell(n, f, 0) = f /\ \A i \in 0 .. n - 1 : Cell(n, f, i) \in 0 .. n - 1
        BY <1>1, CellFacts
      <4>3. QED
        BY <3>1, <4>1, <4>2
    <3>4. b[Cell(n, f, j + 1)] = a[Cell(n, f, j + 1)]
      BY <1>1, <1>10, <3>3
    <3>5. a[Cell(n, f, j + 1)] = IF j + 1 < s THEN c[j + 2] ELSE Raw
      BY <1>1, <1>2, <3>1
    <3>6. j + 1 < s => j + 1 \in 1 .. s - 1 /\ d[j + 1] = c[j + 2]
      BY <1>3, <1>5, <3>1
    <3>7. QED
      BY <1>3, <3>2, <3>4, <3>5, <3>6
  <2>3. QED
    BY <2>1, <2>2
<1>13. s - 1 < n
  BY <1>3, <1>1
<1>14. Holds(n, g, r, b, d)
  BY <1>1, <1>5, <1>8, <1>9, <1>11, <1>12, <1>13 DEF Holds
<1>15. QED
  BY <1>4, <1>6, <1>10, <1>14

\* No value any more.
LEMMA DropHolds ==
  ASSUME NEW n, NEW f, NEW r, NEW a, NEW c, Holds(n, f, r, a, c)
  PROVE  Holds(n, r, r, [k \in DOMAIN a |-> Raw], <<>>)
<1>1. n \in Nat \ {0} /\ DOMAIN a = 0 .. n - 1 /\ r \in 0 .. n - 1
  BY CountFacts DEF Holds
<1>2. PICK b : b = [k \in DOMAIN a |-> Raw]
  OBVIOUS
<1>3. \A j \in 0 .. n - 1 : b[Cell(n, r, j)] = Raw
  BY <1>1, <1>2, CellFacts
<1>4. <<>> \in Seq(Values) /\ Len(<<>>) = 0 /\ r = Cell(n, r, 0)
  BY <1>1, CellFacts
<1>5. b \in [0 .. n - 1 -> Values \union {Raw}]
  BY <1>1, <1>2
<1>6. \A j \in 0 .. n - 1 : ~(j < 0)
  OBVIOUS
<1>7. Holds(n, r, r, b, <<>>)
  BY <1>1, <1>3, <1>4, <1>5, <1>6 DEF Holds
<1>8. QED
  BY <1>2, <1>7

\* The larger of two numbers.
LEMMA LargerOfTwo ==
  ASSUME NEW x \in Nat, NEW y \in Nat
  PROVE  Circle!Max({x, y}) \in Nat /\ Circle!Max({x, y}) >= x /\ Circle!Max({x, y}) >= y
<1>1. \E m \in {x, y} : \A k \in {x, y} : m >= k
  OBVIOUS
<1>2. PICK m : m = Circle!Max({x, y})
  OBVIOUS
<1>3. m \in {x, y} /\ \A k \in {x, y} : m >= k
  BY <1>1, <1>2 DEF Circle!Max
<1>4. QED
  BY <1>2, <1>3

\* The longer array holds what the array held, from its first cell on.
LEMMA MovedHolds ==
  ASSUME NEW c, CircleHolds(c), NEW longer \in Nat, capacity < longer
  PROVE  Holds(longer, 0, Len(c), Circle!Moved(longer), c)
<1>1. PICK n, f, r, a : n = capacity /\ f = front /\ r = rear /\ a = array
  OBVIOUS
<1>2. Holds(n, f, r, a, c)
  BY <1>1 DEF CircleHolds
<1>3. /\ n \in Nat \ {0} /\ f \in 0 .. n - 1 /\ c \in Seq(Values)
      /\ a \in [0 .. n - 1 -> Values \union {Raw}]
      /\ \A j \in 0 .. n - 1 : a[Cell(n, f, j)] = IF j < Len(c) THEN c[j + 1] ELSE Raw
  BY <1>2 DEF Holds
<1>4. PICK s \in Nat : s = Len(c)
  BY <1>3
<1>5. s \in 0 .. n - 1 /\ Circle!Size = s
  BY <1>1, <1>2, <1>4, CountFacts DEF Circle!Size
<1>6. PICK b : b = Circle!Moved(longer)
  OBVIOUS
<1>7. b = [k \in 0 .. longer - 1 |->
             CASE k < s /\ k < n - f -> a[f + k]
               [] k < s /\ k >= n - f -> a[k - (n - f)]
               [] OTHER -> Raw]
  BY <1>1, <1>5, <1>6 DEF Circle!Moved
<1>8. ASSUME NEW j \in 0 .. longer - 1
      PROVE  b[j] = IF j < s THEN c[j + 1] ELSE Raw
  <2>1. CASE j < s
    <3>1. j \in 0 .. n - 1 /\ Cell(n, f, j) = IF j < n - f THEN f + j ELSE j - (n - f)
      BY <1>3, <1>5, <2>1 DEF Cell
    <3>2. a[Cell(n, f, j)] = c[j + 1]
      BY <1>3, <1>4, <2>1, <3>1
    <3>3. CASE j < n - f
      <4>1. ~(j >= n - f)
        BY <1>3, <3>3
      <4>2. b[j] = a[f + j]
        BY <1>7, <2>1, <3>3, <4>1
      <4>3. QED
        BY <2>1, <3>1, <3>2, <3>3, <4>2
    <3>4. CASE ~(j < n - f)
      <4>1. j >= n - f
        BY <1>3, <3>4
      <4>2. b[j] = a[j - (n - f)]
        BY <1>7, <2>1, <3>4, <4>1
      <4>3. QED
        BY <2>1, <3>1, <3>2, <3>4, <4>2
    <3>5. QED
      BY <3>3, <3>4
  <2>2. CASE ~(j < s)
    BY <1>7, <2>2
  <2>3. QED
    BY <2>1, <2>2
<1>9. ASSUME NEW j \in 0 .. longer - 1
      PROVE  b[j] \in Values \union {Raw}
  <2>1. j < s => c[j + 1] \in Values
    BY <1>3, <1>4
  <2>2. QED
    BY <1>8, <2>1
<1>10. b \in [0 .. longer - 1 -> Values \union {Raw}]
  BY <1>7, <1>9
<1>11. \A j \in 0 .. longer - 1 : Cell(longer, 0, j) = j
  BY DEF Cell
<1>12. longer \in Nat \ {0} /\ 0 \in 0 .. longer - 1 /\ s \in 0 .. longer - 1 /\ s < longer
  BY <1>1, <1>3, <1>5
<1>13. s = Cell(longer, 0, s)
  BY <1>11, <1>12
<1>14. \A j \in 0 .. longer - 1 : b[Cell(longer, 0, j)] = IF j < s THEN c[j + 1] ELSE Raw
  BY <1>8, <1>11
<1>15. Holds(longer, 0, s, b, c)
  BY <1>3, <1>4, <1>10, <1>12, <1>13, <1>14 DEF Holds
<1>16. QED
  BY <1>4, <1>6, <1>15

LEMMA EmplacePuts ==
  ASSUME NEW c, CircleHolds(c), NEW v \in Values, Circle!Emplace(v)
  PROVE  CircleHolds(Append(c, v))'
<1>1. PICK n, f, r, a, s : n = capacity /\ f = front /\ r = rear /\ a = array /\ s = Len(c)
  OBVIOUS
<1>2. Holds(n, f, r, a, c)
  BY <1>1 DEF CircleHolds
<1>3. n \in Nat \ {0} /\ s \in 0 .. n - 1 /\ r \in 0 .. n - 1
  <2>1. n \in Nat \ {0}
    BY <1>2 DEF Holds
  <2>2. Len(c) \in 0 .. n - 1 /\ r \in 0 .. n - 1
    BY <1>2, CountFacts
  <2>3. QED
    BY <1>1, <2>1, <2>2
<1>4. Circle!Size = s /\ (Circle!Full <=> s = n - 1)
  BY <1>1, <1>2, CountFacts DEF Circle!Size, Circle!Full
<1>5. CASE s = n - 1
  <2>1. PICK longer : longer = Circle!Wanted
    OBVIOUS
  <2>2. longer \in Nat /\ longer >= s + 2 /\ longer > n
    <3>1. (n * 3) \div 2 \in Nat /\ s + 2 \in Nat
      BY <1>3
    <3>2. longer = Circle!Max({(n * 3) \div 2, s + 2})
      BY <1>1, <1>4, <2>1 DEF Circle!Wanted
    <3>3. longer \in Nat /\ longer >= s + 2
      BY <3>1, <3>2, LargerOfTwo
    <3>4. QED
      BY <1>3, <1>5, <3>3
  <2>3. PICK b : b = Circle!Moved(longer)
    OBVIOUS
  <2>4. /\ capacity' = longer /\ front' = 0 /\ array' = [b EXCEPT ![s] = v]
        /\ rear' = (s + 1) % longer
    BY <1>1, <1>4, <1>5, <2>1, <2>2, <2>3 DEF Circle!Emplace
  <2>5. Holds(longer, 0, s, b, c)
    BY <1>1, <2>2, <2>3, MovedHolds
  <2>6. Len(c) < longer - 1
    BY <1>1, <1>3, <2>2
  <2>7. Holds(longer, 0, (s + 1) % longer, [b EXCEPT ![s] = v], Append(c, v))
    BY <2>5, <2>6, PutHolds
  <2>8. QED
    BY <2>4, <2>7 DEF CircleHolds
<1>6. CASE s # n - 1
  <2>1. /\ capacity' = n /\ front' = f /\ array' = [a EXCEPT ![r] = v]
        /\ rear' = (r + 1) % n
    BY <1>1, <1>3, <1>4, <1>6 DEF Circle!Emplace
  <2>2. Len(c) < n - 1
    BY <1>1, <1>3, <1>6
  <2>3. Holds(n, f, (r + 1) % n, [a EXCEPT ![r] = v], Append(c, v))
    BY <1>2, <2>2, PutHolds
  <2>4. QED
    BY <2>1, <2>3 DEF CircleHolds
<1>7. QED
  BY <1>5, <1>6

LEMMA PopTakes ==
  ASSUME NEW c, CircleHolds(c), Circle!Pop
  PROVE  c # <<>> /\ CircleHolds(Tail(c))'
<1>1. PICK n, f, r, a : n = capacity /\ f = front /\ r = rear /\ a = array
  OBVIOUS
<1>2. Holds(n, f, r, a, c)
  BY <1>1 DEF CircleHolds
<1>3. Len(c) # 0
  BY <1>1, <1>2, CountFacts DEF Circle!Pop, Circle!Empty
<1>4. c # <<>>
  BY <1>3
<1>5. Holds(n, (f + 1) % n, r, [a EXCEPT ![f] = Raw], Tail(c))
  BY <1>2, <1>4, TakeHolds
<1>6. capacity' = n /\ front' = (f + 1) % n /\ rear' = r /\ array' = [a EXCEPT ![f] = Raw]
  BY <1>1 DEF Circle!Pop
<1>7. QED
  BY <1>4, <1>5, <1>6 DEF CircleHolds

LEMMA ClearDrops ==
  ASSUME NEW c, CircleHolds(c), Circle!Clear
  PROVE  CircleHolds(<<>>)'
<1>1. PICK n, f, r, a : n = capacity /\ f = front /\ r = rear /\ a = array
  OBVIOUS
<1>2. Holds(n, f, r, a, c)
  BY <1>1 DEF CircleHolds
<1>3. Holds(n, r, r, [k \in DOMAIN a |-> Raw], <<>>)
  BY <1>2, DropHolds
<1>4. capacity' = n /\ front' = r /\ rear' = r /\ array' = [k \in DOMAIN a |-> Raw]
  BY <1>1 DEF Circle!Clear
<1>5. QED
  BY <1>3, <1>4 DEF CircleHolds

LEMMA ReserveKeeps ==
  ASSUME NEW c, CircleHolds(c), NEW longer \in Nat, Circle!Reserve(longer)
  PROVE  CircleHolds(c)'
<1>1. Circle!Size = Len(c)
  BY CountFacts DEF CircleHolds, Circle!Size
<1>2. PICK b, s : b = Circle!Moved(longer) /\ s = Len(c)
  OBVIOUS
<1>3. capacity < longer /\ capacity' = longer /\ front' = 0 /\ rear' = s /\ array' = b
  BY <1>1, <1>2 DEF Circle!Reserve
<1>4. Holds(longer, 0, s, b, c)
  BY <1>2, <1>3, MovedHolds
<1>5. QED
  BY <1>3, <1>4 DEF CircleHolds

\* An empty array.
LEMMA CircleStarts ==
  ASSUME Circle!Init
  PROVE  CircleHolds(<<>>)
<1>1. capacity = 1 /\ front = 0 /\ rear = 0 /\ array = [k \in {0} |-> Raw]
  BY DEF Circle!Init
<1>2. 0 .. 1 - 1 = {0} /\ <<>> \in Seq(Values) /\ Len(<<>>) = 0
  OBVIOUS
<1>3. Cell(1, 0, 0) = 0
  BY DEF Cell
<1>4. array \in [0 .. 1 - 1 -> Values \union {Raw}]
  BY <1>1, <1>2
<1>5. \A j \in 0 .. 1 - 1 : array[Cell(1, 0, j)] = Raw /\ ~(j < 0)
  BY <1>1, <1>2, <1>3
<1>6. 1 \in Nat \ {0} /\ 0 \in 0 .. 1 - 1 /\ 0 < 1
  OBVIOUS
<1>7. Holds(1, 0, 0, array, <<>>)
  BY <1>2, <1>3, <1>4, <1>5, <1>6 DEF Holds
<1>8. QED
  BY <1>1, <1>7 DEF CircleHolds

\* What the array holds is what the queue promises to hold.
Shown == [j \in 1 .. Circle!Size |-> array[(front + j - 1) % capacity]]

LEMMA CircleShows ==
  ASSUME NEW c, CircleHolds(c)
  PROVE  Shown = c
BY ReadFacts DEF CircleHolds, Shown, Circle!Size

LEMMA CircleShowsNext ==
  ASSUME NEW c, CircleHolds(c)'
  PROVE  Shown' = c
BY ReadFacts DEF CircleHolds, Shown, Circle!Size

LEMMA HeldIsWindow ==
  ASSUME NEW c, CircleHolds(c)
  PROVE  Circle!CellsAreWindow
<1>1. PICK n, f, r, a, s : n = capacity /\ f = front /\ r = rear /\ a = array /\ s = Len(c)
  OBVIOUS
<1>2. Holds(n, f, r, a, c)
  BY <1>1 DEF CircleHolds
<1>3. /\ n \in Nat \ {0} /\ f \in 0 .. n - 1 /\ c \in Seq(Values)
      /\ a \in [0 .. n - 1 -> Values \union {Raw}]
      /\ \A j \in 0 .. n - 1 : a[Cell(n, f, j)] = IF j < s THEN c[j + 1] ELSE Raw
  BY <1>1, <1>2 DEF Holds
<1>4. /\ s \in 0 .. n - 1 /\ r \in 0 .. n - 1 /\ (r + n - f) % n = s
      /\ (f + n - (r + 1)) % n = n - 1 - s
      /\ f = r <=> s = 0
      /\ (r + 1) % n = f <=> s = n - 1
  BY <1>1, <1>2, CountFacts
<1>5. \A j \in 0 .. n - 1 : (f + j) % n = Cell(n, f, j) /\ Cell(n, f, j) \in 0 .. n - 1
  BY <1>3, CellFacts
<1>6. ASSUME NEW k \in 0 .. n - 1
      PROVE  a[k] # Raw <=> \E j \in 0 .. s - 1 : k = (f + j) % n
  <2>1. PICK j \in 0 .. n - 1 : k = Cell(n, f, j)
    BY <1>3, CellFacts
  <2>2. CASE j < s
    <3>1. a[k] = c[j + 1] /\ j + 1 \in 1 .. s /\ j \in 0 .. s - 1
      BY <1>3, <1>4, <2>1, <2>2
    <3>2. c[j + 1] \in Values
      BY <1>1, <1>3, <3>1
    <3>3. a[k] # Raw
      BY <3>1, <3>2, CircleAssumed DEF Circle!CircleQueueAssumption
    <3>4. QED
      BY <1>5, <2>1, <3>1, <3>3
  <2>3. CASE ~(j < s)
    <3>1. a[k] = Raw
      BY <1>3, <2>1, <2>3
    <3>2. ASSUME NEW i \in 0 .. s - 1, k = (f + i) % n
          PROVE  FALSE
      <4>1. i \in 0 .. n - 1 /\ i # j
        BY <1>3, <1>4, <2>1, <2>3
      <4>2. Cell(n, f, i) = Cell(n, f, j)
        BY <1>5, <2>1, <3>2, <4>1
      <4>3. QED
        BY <1>3, <4>1, <4>2, CellFacts
    <3>3. QED
      BY <3>1, <3>2
  <2>4. QED
    BY <2>2, <2>3
<1>7. {k \in DOMAIN a : a[k] # Raw} = {(f + j) % n : j \in 0 .. s - 1}
  <2>1. DOMAIN a = 0 .. n - 1
    BY <1>3
  <2>2. ASSUME NEW j \in 0 .. s - 1
        PROVE  (f + j) % n \in 0 .. n - 1
    <3>1. j \in 0 .. n - 1
      BY <1>3, <1>4
    <3>2. QED
      BY <1>5, <3>1
  <2>3. QED
    BY <1>6, <2>1, <2>2
<1>8. Circle!Size = s /\ Circle!Remain = n - 1 - s
  BY <1>1, <1>4 DEF Circle!Size, Circle!Remain
<1>9. s + (n - 1 - s) = n - 1 /\ (n - 1 - s = 0 <=> s = n - 1)
  BY <1>3, <1>4
<1>10. (Circle!Empty <=> s = 0) /\ (Circle!Full <=> s = n - 1)
  BY <1>1, <1>4 DEF Circle!Empty, Circle!Full
<1>11. Circle!Window = {(f + j) % n : j \in 0 .. s - 1}
  BY <1>1, <1>8 DEF Circle!Window
<1>12. QED
  BY <1>1, <1>3, <1>4, <1>7, <1>8, <1>9, <1>10, <1>11 DEF Circle!CellsAreWindow

CircleIsKept == \E c : CircleHolds(c)

\* One call of the queue is one step of the abstract queue, or none.
LEMMA CircleStep ==
  ASSUME CircleIsKept, [Circle!Next]_Circle!vars
  PROVE  CircleIsKept' /\ [Circle!Promise!FNext]_Circle!Promise!fvars
<1>1. PICK c : CircleHolds(c)
  BY DEF CircleIsKept
<1>2. Shown = c
  BY <1>1, CircleShows
<1>3. ASSUME NEW v \in Values, Circle!Emplace(v)
      PROVE  CircleIsKept' /\ Shown' = Append(Shown, v)
  <2>1. CircleHolds(Append(c, v))'
    BY <1>1, <1>3, EmplacePuts
  <2>2. PICK d : d = Append(c, v)
    OBVIOUS
  <2>3. CircleHolds(d)'
    BY <2>1, <2>2
  <2>4. QED
    BY <1>2, <2>2, <2>3, CircleShowsNext DEF CircleIsKept
<1>4. ASSUME Circle!Pop
      PROVE  CircleIsKept' /\ Shown # <<>> /\ Shown' = Tail(Shown)
  <2>1. c # <<>> /\ CircleHolds(Tail(c))'
    BY <1>1, <1>4, PopTakes
  <2>2. PICK d : d = Tail(c)
    OBVIOUS
  <2>3. CircleHolds(d)'
    BY <2>1, <2>2
  <2>4. QED
    BY <1>2, <2>1, <2>2, <2>3, CircleShowsNext DEF CircleIsKept
<1>5. ASSUME Circle!Clear
      PROVE  CircleIsKept' /\ Shown' = <<>>
  <2>1. PICK d : d = <<>>
    OBVIOUS
  <2>2. CircleHolds(d)'
    BY <1>1, <1>5, <2>1, ClearDrops
  <2>3. QED
    BY <2>1, <2>2, CircleShowsNext DEF CircleIsKept
<1>6. ASSUME NEW longer \in ReserveCounts, Circle!Reserve(longer)
      PROVE  CircleIsKept' /\ Shown' = Shown
  <2>1. longer \in Nat
    BY CircleAssumed DEF Circle!CircleQueueAssumption
  <2>2. CircleHolds(c)'
    BY <1>1, <1>6, <2>1, ReserveKeeps
  <2>3. QED
    BY <1>2, <2>2, CircleShowsNext DEF CircleIsKept
<1>7. ASSUME UNCHANGED Circle!vars
      PROVE  CircleIsKept' /\ Shown' = Shown
  <2>1. capacity' = capacity /\ front' = front /\ rear' = rear /\ array' = array
    BY <1>7 DEF Circle!vars
  <2>2. CircleHolds(c)'
    BY <1>1, <2>1 DEF CircleHolds
  <2>3. QED
    BY <1>2, <2>2, CircleShowsNext DEF CircleIsKept
<1>8. /\ CircleIsKept'
      /\ \/ Shown # <<>> /\ Shown' = Tail(Shown)
         \/ Shown' = <<>>
         \/ \E v \in Values : Shown' = Append(Shown, v)
         \/ Shown' = Shown
  BY <1>3, <1>4, <1>5, <1>6, <1>7 DEF Circle!Next, Circle!Common
<1>9. QED
  BY <1>8 DEF Shown, Circle!Promise!FNext, Circle!Promise!Take, Circle!Promise!Drop, Circle!Promise!Put,
              Circle!Promise!fvars

\* The circle queue is first in, first out through every growth and reserve,
\* and its elements are the cells from front to rear (queue.h:313, :350, :369).
THEOREM CircleCorrect == Circle!Spec => CircleImplementsFifo
<1>1. Circle!Init => CircleIsKept /\ Circle!Promise!FInit
  <2>1. SUFFICES ASSUME Circle!Init
                 PROVE  CircleIsKept /\ Circle!Promise!FInit
    OBVIOUS
  <2>2. PICK d : d = <<>>
    OBVIOUS
  <2>3. CircleHolds(d)
    BY <2>1, <2>2, CircleStarts
  <2>4. Shown = d
    BY <2>3, CircleShows
  <2>5. QED
    BY <2>2, <2>3, <2>4 DEF CircleIsKept, Shown, Circle!Promise!FInit
<1>2. CircleIsKept /\ [Circle!Next]_Circle!vars => CircleIsKept' /\ [Circle!Promise!FNext]_Circle!Promise!fvars
  BY CircleStep
<1>3. CircleIsKept => Circle!CellsAreWindow
  BY HeldIsWindow DEF CircleIsKept
<1>4. QED
  BY <1>1, <1>2, <1>3, PTL DEF Circle!Spec, CircleImplementsFifo, Circle!ImplementsFifo, Circle!Promise!FSpec
=============================================================================
