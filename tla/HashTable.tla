----------------------------- MODULE HashTable -----------------------------
(***************************************************************************)
(* detail::hash_table (library/hash_table.h) over library::list (list.h).   *)
(* All elements hang in one doubly linked ring that starts and ends at a    *)
(* sentinel; the vector holds for every bucket the first and the last of    *)
(* its elements, or twice the sentinel.  unorder_set, the table in which    *)
(* echo-dummy keeps the handles of its dummies, is the one without          *)
(* duplicates and unorder_multimap the one with.                            *)
(*                                                                          *)
(* The table is used by one thread at a time: a call is a step.             *)
(***************************************************************************)
EXTENDS Integers, FiniteSets, FiniteSetsExt, SequencesExt, TLC

CONSTANTS
  Nodes,         \* memory for elements
  Sentinel,          \* the sentinel of the list, and what end() points to
  Keys,
  Hash,          \* hash of a key
  FirstCount,    \* 8: what the constructor passes to rehash
  Growth,        \* 8: factor by which a small table grows
  SmallCount,    \* 512: fewest buckets of a table that is not small
  RehashCounts   \* counts that the caller of the public rehash asks for

ASSUME HashTableAssumption ==
  /\ IsFiniteSet(Nodes) /\ Sentinel \notin Nodes
  /\ Hash \in [Keys -> Nat]
  /\ {FirstCount, Growth, SmallCount} \subseteq Nat \ {0}
  /\ RehashCounts \subseteq Nat \ {0}

VARIABLES
  duplicate,   \* the template parameter
  next, prev,  \* the ring, over the sentinel and the nodes in use
  size,        \* list._size
  key,         \* of the nodes in use
  first, last  \* the vector: of every bucket

vars == <<duplicate, next, prev, size, key, first, last>>
ring == <<next, prev, size>>

Used == DOMAIN key
Buckets == Cardinality(DOMAIN first)

-----------------------------------------------------------------------------
(* The list.  A list is a record of its links.                             *)

Linked(l, before, n) ==
  LET p == l.prev[before]
  IN [next |-> (n :> before) @@ [l.next EXCEPT ![p] = n],
      prev |-> (n :> p) @@ [l.prev EXCEPT ![before] = n]]

Unlinked(l, n) ==
  LET p == l.prev[n]
      q == l.next[n]
      rest == DOMAIN l.next \ {n}
  IN [next |-> Restrict([l.next EXCEPT ![p] = q], rest),
      prev |-> Restrict([l.prev EXCEPT ![q] = p], rest)]

\* Moves the nodes from f up to the one before e to the place before b.
Spliced(l, b, f, e) ==
  LET fp == l.prev[f]
      ep == l.prev[e]
      bp == l.prev[b]
  IN [next |-> [l.next EXCEPT ![fp] = e, ![ep] = b, ![bp] = f],
      prev |-> [l.prev EXCEPT ![b] = ep, ![e] = fp, ![f] = bp]]

\* The node j steps of an iterator behind n.
Ahead(l, n, j) ==
  LET step[i \in 0 .. j] == IF i = 0 THEN n ELSE l.next[step[i - 1]]
  IN step[j]

\* The nodes from n up to the one before stop, in order.
Walk(l, n, stop) ==
  LET steps == {j \in 0 .. Cardinality(Nodes) : Ahead(l, n, j) = stop}
  IN [i \in 1 .. (IF steps = {} THEN Cardinality(Nodes) ELSE Min(steps)) |-> Ahead(l, n, i - 1)]

Now == [next |-> next, prev |-> prev]
Contents(l) == Walk(l, l.next[Sentinel], Sentinel)

-----------------------------------------------------------------------------
(* The buckets.                                                            *)

Bucket(k, count) == Hash[k] % count

\* bit_scan_reverse and the shift: the power of two that rehash rounds to.
ScanReverse(x) == CHOOSE b \in 0 .. 31 : 2^b <= x /\ x < 2^(b + 1)
BitOrOne(x) == IF x % 2 = 0 THEN x + 1 ELSE x
Rounded(count) == 2^(1 + ScanReverse(BitOrOne(count - 1)))

FindBetweenOpen(k, f, la) ==
  LET hits == IF f = Sentinel THEN <<>>
              ELSE SelectSeq(Walk(Now, f, la), LAMBDA n : n # Sentinel /\ key[n] = k)
  IN IF hits = <<>> THEN Sentinel ELSE hits[1]

\* Finds the first element with key k among those from f to la.
FindBetween(k, f, la) ==
  LET hits == IF f = Sentinel THEN <<>>
              ELSE SelectSeq(Walk(Now, f, next[la]), LAMBDA n : n # Sentinel /\ key[n] = k)
  IN IF hits = <<>> THEN Sentinel ELSE hits[1]

Find(k) ==
  LET i == Bucket(k, Buckets) IN FindBetween(k, first[i], last[i])

\* What a comparison reads of a node.  The sentinel was allocated without a
\* value: it reads as a key that happens to stand behind its links, or as none.
KeyRead(n, behind) == IF n = Sentinel THEN behind ELSE key[n]
Behind == Keys \union {Sentinel}

\* equal_range, of a table with duplicates, as the set of nodes that lie in the
\* range.  The walk does not look for the end of the list: it starts at the
\* sentinel when the key is absent, and goes on past it, or for ever round the
\* ring, when what stands behind the sentinel compares equal.
EqualRange(k, behind) ==
  LET node == [j \in 0 .. size + 1 |-> Ahead(Now, Find(k), j)]
      stops == {j \in 1 .. size + 1 : KeyRead(node[j], behind) # k}
  IN {node[j] : j \in 0 .. (IF stops = {} THEN size ELSE Min(stops) - 1)}

\* begin and end of a bucket.
BucketBegin(i) == first[i]
BucketEnd(i) == IF last[i] = Sentinel THEN Sentinel ELSE next[last[i]]

\* rehash, of the list l whose nodes have the keys ks: every element moves
\* to the front of its bucket, the first of a bucket stays where it is.
RehashMove(t, n, ks, count) ==
  LET i == Bucket(ks[n], count)
      f == t.first[i]
  IN IF f = Sentinel
     THEN [t EXCEPT !.first[i] = n, !.last[i] = n]
     ELSE [t EXCEPT !.first[i] = n, !.list = Spliced(t.list, f, n, t.list.next[n])]

Rehash(l, ks, asked) ==
  LET count == Rounded(asked)
      empty == [i \in 0 .. count - 1 |-> Sentinel]
      t == FoldLeft(LAMBDA s, n : RehashMove(s, n, ks, count),
                    [list |-> l, first |-> empty, last |-> empty], Contents(l))
  IN /\ next' = t.list.next /\ prev' = t.list.prev
     /\ first' = t.first /\ last' = t.last

-----------------------------------------------------------------------------

Init ==
  /\ duplicate \in BOOLEAN
  /\ next = (Sentinel :> Sentinel) /\ prev = (Sentinel :> Sentinel)
  /\ size = 0
  /\ key = [n \in {} |-> Sentinel]
  /\ first = [i \in 0 .. Rounded(FirstCount) - 1 |-> Sentinel]
  /\ last = first

\* Where emplace links a node with key k: before an equal key, or else
\* before the bucket, or else at the end of the list.
Place(k) ==
  IF Find(k) # Sentinel THEN Find(k) ELSE first[Bucket(k, Buckets)]

\* The nodes that are free are alike.
AnyNode == CHOOSE n \in Nodes : n \notin Used

Grown(count) == IF count < SmallCount THEN count * Growth ELSE count + 1

\* emplace of a key that is there already, in a table without duplicates,
\* returns the iterator that find returned.
EmplaceFound(k) ==
  /\ ~duplicate
  /\ Find(k) # Sentinel
  /\ UNCHANGED vars

Emplace(n, k) ==
  LET i == Bucket(k, Buckets)
      insert == Place(k)
      l == Linked(Now, insert, n)
      ks == (n :> k) @@ key
  IN /\ n \in Nodes \ Used
     /\ duplicate \/ Find(k) = Sentinel
     /\ key' = ks
     /\ size' = size + 1
     /\ UNCHANGED duplicate
     /\ IF size + 1 >= Buckets
        THEN Rehash(l, ks, Grown(Buckets))
        ELSE /\ next' = l.next /\ prev' = l.prev
             /\ first' = IF first[i] = insert THEN [first EXCEPT ![i] = n] ELSE first
             /\ last' = IF insert = Sentinel THEN [last EXCEPT ![i] = n] ELSE last

ShrunkBucketInFront(n, f, la) ==
  IF f = la THEN <<Sentinel, Sentinel>>
  ELSE IF f = n THEN <<next[f], la>> ELSE <<f, la>>

\* What erase leaves of the bucket <<f, la>> of the node n.
ShrunkBucket(n, f, la) ==
  CASE f = la -> <<Sentinel, Sentinel>>
    [] f # la /\ f = n -> <<next[f], la>>
    [] f # la /\ f # n /\ la = n -> <<f, prev[la]>>
    [] OTHER -> <<f, la>>

\* erase(iterator).  list::erase asserts that it is not end().
EraseAt(n) ==
  LET i == Bucket(key[n], Buckets)
      b == ShrunkBucket(n, first[i], last[i])
      l == Unlinked(Now, n)
  IN /\ n \in Used
     /\ first' = [first EXCEPT ![i] = b[1]]
     /\ last' = [last EXCEPT ![i] = b[2]]
     /\ next' = l.next /\ prev' = l.prev
     /\ size' = size - 1
     /\ key' = Restrict(key, Used \ {n})
     /\ UNCHANGED duplicate

\* erase(key) erases what find returns; of a key that is absent the same
\* assertion stops it.
EraseKey(k) ==
  /\ size > 0
  /\ Find(k) # Sentinel
  /\ EraseAt(Find(k))

RehashAsked(count) ==
  /\ Rehash(Now, key, count)
  /\ UNCHANGED <<duplicate, size, key>>

Clear ==
  /\ first' = [i \in DOMAIN first |-> Sentinel]
  /\ last' = [i \in DOMAIN last |-> Sentinel]
  /\ next' = (Sentinel :> Sentinel) /\ prev' = (Sentinel :> Sentinel)
  /\ size' = 0
  /\ key' = [n \in {} |-> Sentinel]
  /\ UNCHANGED duplicate

Next ==
  \/ \E k \in Keys : EmplaceFound(k) \/ EraseKey(k)
  \/ \E k \in Keys : Nodes # Used /\ Emplace(AnyNode, k)
  \/ \E n \in Used : EraseAt(n)
  \/ \E count \in RehashCounts : RehashAsked(count)
  \/ Clear

Spec == Init /\ [][Next]_vars

-----------------------------------------------------------------------------
(* Properties.                                                             *)

TypeOK ==
  /\ duplicate \in BOOLEAN
  /\ key \in [Used -> Keys] /\ Used \subseteq Nodes
  /\ next \in [Used \union {Sentinel} -> Used \union {Sentinel}]
  /\ prev \in [Used \union {Sentinel} -> Used \union {Sentinel}]
  /\ size = Cardinality(Used)
  /\ first \in [0 .. Buckets - 1 -> Used \union {Sentinel}]
  /\ last \in [0 .. Buckets - 1 -> Used \union {Sentinel}]

\* The buckets partition the ring into runs: the elements of a bucket stand
\* side by side between its first and its last, backwards as forwards, in
\* whatever order elements came, went and were rehashed (hash_table.h:104,
\* :171, :216).
BucketsAreRuns ==
  /\ TypeOK
  /\ \A n \in DOMAIN next : prev[next[n]] = n
  /\ \A i \in DOMAIN first :
       LET members == {n \in Used : Bucket(key[n], Buckets) = i}
       IN IF members = {} THEN first[i] = Sentinel /\ last[i] = Sentinel
          ELSE /\ {first[i], last[i]} \subseteq members
               /\ LET run == Walk(Now, BucketBegin(i), BucketEnd(i))
                  IN ToSet(run) = members /\ Len(run) = Cardinality(members)

\* find finds every key that is in the table and no other; and when elements
\* with other keys stand behind those with the key, or what is read behind the
\* sentinel differs from it, equal_range walks along the elements with the key
\* and no others (hash_table.h:96, :178, :191).  Of a key that is absent, or
\* that ends the list before a sentinel that reads like it, nothing is said.
LookupIsRight ==
  \A k \in Keys :
    LET equal == {n \in Used : key[n] = k}
    IN IF equal = {} THEN Find(k) = Sentinel
       ELSE /\ Find(k) \in equal
            /\ ~duplicate => equal = {Find(k)}
            /\ duplicate => \A behind \in Behind :
                 prev[Sentinel] \notin equal \/ behind # k => EqualRange(k, behind) = equal

\* Seen through its iterators the table is a set of elements with keys: no
\* call loses, repeats or moves to another node an element it was not asked
\* to (hash_table.h:71, :113, :155, :194).
Promise == INSTANCE Elements
  WITH elements <- [n \in ToSet(Contents(Now)) \ {Sentinel} |-> key[n]]
ImplementsElements == Promise!ESpec

=============================================================================
