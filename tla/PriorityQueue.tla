---------------------------- MODULE PriorityQueue ----------------------------
(***************************************************************************)
(* library::priority_queue<type, predicate, nullptr_t> (library/queue.h): a *)
(* binary heap in a vector.  The predicate is <.  Indices begin at 0, as in *)
(* the code; the vector is the sequence of its elements (module Vector).    *)
(***************************************************************************)
EXTENDS Integers, Sequences, SequencesExt, FiniteSetsExt

CONSTANTS
  Priorities,   \* what is compared
  HeapLimit     \* elements in a run

VARIABLES
  heap,     \* _vector
  waiting   \* how often each priority was put in and not yet taken (history)

heapVars == <<heap, waiting>>

Init ==
  /\ heap = <<>>
  /\ waiting = [p \in Priorities |-> 0]

Predicate(left, right) == left < right

\* The cell of an index: sequences begin at 1.
At(cells, index) == cells[index + 1]

\* The elements along a path of indices move one place towards its start until
\* one stays; the leaf goes into the place that is free then.
Sifted(cells, path, leaf, staying) ==
  LET moved == Min({k \in DOMAIN path : k + 1 \in DOMAIN path => At(cells, path[k + 1]) \in staying})
  IN [c \in DOMAIN cells |->
       IF \E k \in 1 .. moved - 1 : path[k] + 1 = c
       THEN At(cells, path[1 + CHOOSE k \in 1 .. moved - 1 : path[k] + 1 = c])
       ELSE IF path[moved] + 1 = c THEN leaf ELSE cells[c]]

\* From an index to the root.
Ancestors(index) ==
  LET up[i \in 0 .. index] == IF i = 0 THEN <<0>> ELSE <<i>> \o up[(i - 1) \div 2]
  IN up[index]

\* From the root to a leaf, always to the child that comes first, among the
\* first size cells.
FirstChildren(cells, size) ==
  LET child(i) ==
        IF size > 2 * i + 2 /\ Predicate(At(cells, 2 * i + 2), At(cells, 2 * i + 1))
        THEN 2 * i + 2 ELSE 2 * i + 1
      down[i \in 0 .. size] == IF size <= 2 * i + 1 THEN <<i>> ELSE <<i>> \o down[child(i)]
  IN down[0]

Emplace(p) ==
  LET added == Append(heap, p)
  IN /\ Len(heap) < HeapLimit
     /\ heap' = Sifted(added, Ancestors(Len(heap)), p, {q \in Priorities : Predicate(q, p)})
     /\ waiting' = [waiting EXCEPT ![p] = @ + 1]

\* The last element fills the gap that the first leaves.
Pop ==
  LET leaf == Last(heap)
      size == Len(heap) - 1
      path == FirstChildren(heap, size)
  IN /\ heap # <<>>
     /\ heap' = Front(Sifted(heap, path, leaf, {q \in Priorities : Predicate(leaf, q)}))
     /\ waiting' = [waiting EXCEPT ![Head(heap)] = @ - 1]

ClearHeap ==
  /\ heap' = <<>>
  /\ waiting' = [p \in Priorities |-> 0]

Next == Pop \/ ClearHeap \/ \E p \in Priorities : Emplace(p)

-----------------------------------------------------------------------------

\* top is the first of all that wait, and the heap holds each of them as often
\* as it was put in: nothing is lost or doubled on the way up or down.
TopIsFirst ==
  /\ \A p \in Priorities : waiting[p] = Cardinality({i \in DOMAIN heap : heap[i] = p})
  /\ \A i \in DOMAIN heap : ~Predicate(heap[i], heap[1])

=============================================================================
