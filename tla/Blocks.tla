------------------------------- MODULE Blocks -------------------------------
(***************************************************************************)
(* The two owners of heap memory under the containers: library::array of a  *)
(* size given at run time (library/array.h) and library::pool, the free     *)
(* list of one thread (library/pool.h).                                     *)
(***************************************************************************)
EXTENDS Naturals, Sequences, SequencesExt, FiniteSets

CONSTANTS
  Arrays, FreeLists,   \* variables of the two types
  HeapMemory,          \* blocks of the heap
  Items,               \* values of elements
  ArraySizes,
  NoMemory,            \* nullptr
  Gone                 \* the variable does not exist

BlocksAssumption ==
  /\ NoMemory \notin HeapMemory
  /\ ArraySizes \subseteq Nat
  /\ Gone \notin [size : Nat, block : HeapMemory \union {NoMemory}] \union Seq(HeapMemory)

VARIABLES
  array,    \* _size and _array of every array
  cell,     \* the elements of every block, <<>> when it is not an array's
  items,    \* what every array should hold (history)
  list,     \* the nodes from _head on, of every pool
  busy,     \* nodes that were allocated from a pool and are in use (history)
  taken     \* blocks that are taken from the heap

blockVars == <<array, cell, items, list, busy, taken>>
arrayVars == <<array, cell, items>>
poolVars  == <<list, busy>>

Init ==
  /\ array = [a \in Arrays |-> Gone]
  /\ cell = [b \in HeapMemory |-> <<>>]
  /\ items = [a \in Arrays |-> <<>>]
  /\ list = [p \in FreeLists |-> Gone]
  /\ busy = {}
  /\ taken = {}

-----------------------------------------------------------------------------

NoArray == [size |-> 0, block |-> NoMemory]
ArrayExists(a) == array[a] # Gone

\* The constructor builds every element from the same arguments.
ConstructArray(a, n, x) ==
  /\ ~ArrayExists(a)
  /\ \E b \in HeapMemory \ taken :
       /\ array' = [array EXCEPT ![a] = [size |-> n, block |-> b]]
       /\ cell' = [cell EXCEPT ![b] = [i \in 1 .. n |-> x]]
       /\ taken' = taken \union {b}
  /\ items' = [items EXCEPT ![a] = [i \in 1 .. n |-> x]]
  /\ UNCHANGED poolVars

CellsOf(a) == IF array[a].block = NoMemory THEN <<>> ELSE cell[array[a].block]

CopyArray(a, from) ==
  /\ ~ArrayExists(a) /\ ArrayExists(from)
  /\ \E b \in HeapMemory \ taken :
       /\ array' = [array EXCEPT ![a] = [size |-> array[from].size, block |-> b]]
       /\ cell' = [cell EXCEPT ![b] = CellsOf(from)]
       /\ taken' = taken \union {b}
  /\ items' = [items EXCEPT ![a] = items[from]]
  /\ UNCHANGED poolVars

MoveArray(a, from) ==
  /\ ~ArrayExists(a) /\ ArrayExists(from)
  /\ array' = [array EXCEPT ![a] = array[from], ![from] = NoArray]
  /\ items' = [items EXCEPT ![a] = items[from], ![from] = <<>>]
  /\ UNCHANGED <<cell, taken>> /\ UNCHANGED poolVars

\* Both assignments assert another array, and destroy what was there first.
Remains(a) == taken \ {array[a].block}
Destructed(a) == [b \in HeapMemory |-> IF b = array[a].block THEN <<>> ELSE cell[b]]

AssignArray(a, from) ==
  /\ ArrayExists(a) /\ ArrayExists(from) /\ a # from
  /\ \E b \in HeapMemory \ Remains(a) :
       /\ array' = [array EXCEPT ![a] = [size |-> array[from].size, block |-> b]]
       /\ cell' = [Destructed(a) EXCEPT ![b] = CellsOf(from)]
       /\ taken' = Remains(a) \union {b}
  /\ items' = [items EXCEPT ![a] = items[from]]
  /\ UNCHANGED poolVars

MoveAssignArray(a, from) ==
  /\ ArrayExists(a) /\ ArrayExists(from) /\ a # from
  /\ array' = [array EXCEPT ![a] = array[from], ![from] = NoArray]
  /\ cell' = Destructed(a)
  /\ taken' = Remains(a)
  /\ items' = [items EXCEPT ![a] = items[from], ![from] = <<>>]
  /\ UNCHANGED poolVars

DestroyArray(a) ==
  /\ ArrayExists(a)
  /\ array' = [array EXCEPT ![a] = Gone]
  /\ cell' = Destructed(a)
  /\ taken' = Remains(a)
  /\ items' = [items EXCEPT ![a] = <<>>]
  /\ UNCHANGED poolVars

\* operator[] yields an element that may be written.
SetItem(a, i, x) ==
  /\ ArrayExists(a) /\ i \in 1 .. array[a].size
  /\ cell' = [cell EXCEPT ![array[a].block][i] = x]
  /\ items' = [items EXCEPT ![a][i] = x]
  /\ UNCHANGED <<array, taken>> /\ UNCHANGED poolVars

SwapArrays(a, with) ==
  /\ ArrayExists(a) /\ ArrayExists(with)
  /\ array' = [array EXCEPT ![a] = array[with], ![with] = array[a]]
  /\ items' = [items EXCEPT ![a] = items[with], ![with] = items[a]]
  /\ UNCHANGED <<cell, taken>> /\ UNCHANGED poolVars

-----------------------------------------------------------------------------

PoolExists(p) == list[p] # Gone

ConstructPool(p) ==
  /\ ~PoolExists(p)
  /\ list' = [list EXCEPT ![p] = <<>>]
  /\ UNCHANGED <<busy, taken>> /\ UNCHANGED arrayVars

MovePool(p, from) ==
  /\ ~PoolExists(p) /\ PoolExists(from)
  /\ list' = [list EXCEPT ![p] = list[from], ![from] = <<>>]
  /\ UNCHANGED <<busy, taken>> /\ UNCHANGED arrayVars

\* The free nodes go back to the heap; the nodes in use stay with their users.
DestroyPool(p) ==
  /\ PoolExists(p)
  /\ list' = [list EXCEPT ![p] = Gone]
  /\ taken' = taken \ ToSet(list[p])
  /\ UNCHANGED busy /\ UNCHANGED arrayVars

MoveAssignPool(p, from) ==
  /\ PoolExists(p) /\ PoolExists(from)
  /\ list' = [list EXCEPT ![from] = <<>>, ![p] = IF p = from THEN <<>> ELSE list[from]]
  /\ taken' = taken \ ToSet(list[p])
  /\ UNCHANGED busy /\ UNCHANGED arrayVars

AllocateNode(p) ==
  /\ PoolExists(p)
  /\ IF list[p] = <<>>
     THEN \E b \in HeapMemory \ taken :
            taken' = taken \union {b} /\ busy' = busy \union {b} /\ UNCHANGED list
     ELSE /\ busy' = busy \union {Head(list[p])}
          /\ list' = [list EXCEPT ![p] = Tail(@)]
          /\ UNCHANGED taken
  /\ UNCHANGED arrayVars

\* The pool takes any node that is in use, its own or not.
DeallocateNode(p, b) ==
  /\ PoolExists(p) /\ b \in busy
  /\ busy' = busy \ {b}
  /\ list' = [list EXCEPT ![p] = <<b>> \o @]
  /\ UNCHANGED taken /\ UNCHANGED arrayVars

Next ==
  \/ \E a \in Arrays :
       \/ DestroyArray(a)
       \/ \E x \in Items :
            \/ \E n \in ArraySizes : ConstructArray(a, n, x) \/ SetItem(a, n, x)
       \/ \E from \in Arrays :
            \/ CopyArray(a, from) \/ MoveArray(a, from) \/ AssignArray(a, from)
            \/ MoveAssignArray(a, from) \/ SwapArrays(a, from)
  \/ \E p \in FreeLists :
       \/ ConstructPool(p) \/ DestroyPool(p) \/ AllocateNode(p)
       \/ \E b \in HeapMemory : DeallocateNode(p, b)
       \/ \E from \in FreeLists : MovePool(p, from) \/ MoveAssignPool(p, from)

-----------------------------------------------------------------------------

\* A block that is taken from the heap has one owner, an array, a place in one
\* free list or a user, and an array holds what was put in: nothing is freed
\* twice, used after it was freed, or forgotten.
BlocksHaveOneOwner ==
  LET inArray(a) == IF ArrayExists(a) THEN {array[a].block} \ {NoMemory} ELSE {}
      inList(p)  == IF PoolExists(p) THEN ToSet(list[p]) ELSE {}
      owned      == (UNION {inArray(a) : a \in Arrays}) \union (UNION {inList(p) : p \in FreeLists})
  IN  /\ owned \union busy = taken
      /\ owned \intersect busy = {}
      /\ \A a, c \in Arrays : a # c => inArray(a) \intersect inArray(c) = {}
      /\ \A p, q \in FreeLists : p # q => inList(p) \intersect inList(q) = {}
      /\ \A a \in Arrays, p \in FreeLists : inArray(a) \intersect inList(p) = {}
      /\ \A p \in FreeLists : PoolExists(p) => IsInjective(list[p])
      /\ \A a \in Arrays : ArrayExists(a) => Len(items[a]) = array[a].size /\ CellsOf(a) = items[a]

=============================================================================
