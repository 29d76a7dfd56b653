------------------------------- MODULE Vector -------------------------------
(***************************************************************************)
(* library::vector (library/vector.h), over elements that memmove may move. *)
(* A cell that was never constructed, or whose element was destroyed or     *)
(* moved away, is Raw.                                                      *)
(***************************************************************************)
EXTENDS Naturals, Sequences, SequencesExt, FiniteSetsExt

CONSTANTS
  Vectors,        \* the vectors of a program
  Elements,       \* values of the elements
  RawCell,        \* memory without an element
  LengthLimit,    \* elements of a vector in a run
  ReserveCounts   \* arguments of reserve and resize in a run

VARIABLES
  vector,    \* _size, _capacity and the cells of _array
  content    \* the elements each vector should hold, in order (history)

vectorVars == <<vector, content>>

EmptyVector == [size |-> 0, capacity |-> 0, array |-> <<>>]

Init ==
  /\ vector = [v \in Vectors |-> EmptyVector]
  /\ content = [v \in Vectors |-> <<>>]

Reserved(r, capacity) ==
  IF r.capacity >= capacity THEN r
  ELSE [r EXCEPT !.capacity = capacity,
          !.array = [i \in 1 .. capacity |-> IF i <= r.size THEN r.array[i] ELSE RawCell]]

\* A vector that is full grows by half, from nothing to one element.
Grown(r) ==
  IF r.size >= r.capacity THEN Reserved(r, Max({(r.capacity * 3) \div 2, r.size + 1})) ELSE r

Inserted(r, at, e) ==
  LET g == Grown(r)
  IN [g EXCEPT !.size = @ + 1,
        !.array = [i \in DOMAIN g.array \union {at} |->
          IF i = at THEN e ELSE IF i \in at + 1 .. r.size + 1 THEN g.array[i - 1] ELSE g.array[i]]]

Appended(r, e) == Inserted(r, r.size + 1, e)

Removed(r, at) ==
  [r EXCEPT !.size = @ - 1,
     !.array = [i \in DOMAIN r.array |->
       IF i \in at .. r.size - 1 THEN r.array[i + 1] ELSE IF i = r.size THEN RawCell ELSE r.array[i]]]

Emplace(v, at, e) ==
  /\ Len(content[v]) < LengthLimit /\ at <= Len(content[v]) + 1
  /\ vector' = [vector EXCEPT ![v] = Inserted(@, at, e)]
  /\ content' = [content EXCEPT ![v] = InsertAt(@, at, e)]

Erase(v, at) ==
  /\ at \in DOMAIN content[v]
  /\ vector' = [vector EXCEPT ![v] = Removed(@, at)]
  /\ content' = [content EXCEPT ![v] = RemoveAt(@, at)]

Reserve(v, n) ==
  /\ vector' = [vector EXCEPT ![v] = Reserved(@, n)]
  /\ UNCHANGED content

\* Elements are added or removed at the end, one by one, until the size fits.
Resized(r, n, e) ==
  LET room == Reserved(r, n)
  IN IF n >= r.size THEN FoldLeft(LAMBDA x, i : Appended(x, e), room, [i \in 1 .. n - r.size |-> i])
     ELSE FoldLeft(LAMBDA x, i : Removed(x, x.size), room, [i \in 1 .. r.size - n |-> i])

Resize(v, n, e) ==
  /\ vector' = [vector EXCEPT ![v] = Resized(@, n, e)]
  /\ content' = [content EXCEPT ![v] = [i \in 1 .. n |-> IF i <= Len(@) THEN @[i] ELSE e]]

Cleared(r) == Resized(r, 0, RawCell)

Clear(v) ==
  /\ vector' = [vector EXCEPT ![v] = Cleared(@)]
  /\ content' = [content EXCEPT ![v] = <<>>]

Assign(v, n, e) ==
  /\ vector' = [vector EXCEPT ![v] = Resized(Cleared(@), n, e)]
  /\ content' = [content EXCEPT ![v] = [i \in 1 .. n |-> e]]

Swap(v, w) ==
  /\ vector' = [vector EXCEPT ![v] = vector[w], ![w] = vector[v]]
  /\ content' = [content EXCEPT ![v] = content[w], ![w] = content[v]]

\* The copy is made from the elements, into memory for just so many.
Copied(r) ==
  LET room == Reserved(EmptyVector, r.size)
  IN [room EXCEPT !.size = r.size, !.array = SubSeq(r.array, 1, r.size)]

\* Both assignments build a vector from the other, swap, and let what was
\* there go with it; both assert that the other is another.
CopyAssign(v, w) ==
  /\ v # w
  /\ vector' = [vector EXCEPT ![v] = Copied(vector[w])]
  /\ content' = [content EXCEPT ![v] = content[w]]

MoveAssign(v, w) ==
  /\ v # w
  /\ vector' = [vector EXCEPT ![v] = vector[w], ![w] = EmptyVector]
  /\ content' = [content EXCEPT ![v] = content[w], ![w] = <<>>]

\* find with a predicate that looks for one value; past the end is not found.
Find(r, e) ==
  LET hits == {i \in 1 .. r.size : r.array[i] = e}
  IN IF hits = {} THEN r.size + 1 ELSE Min(hits)

Next ==
  \E v \in Vectors :
    \/ \E at \in 1 .. LengthLimit : Erase(v, at) \/ \E e \in Elements : Emplace(v, at, e)
    \/ \E n \in ReserveCounts :
         Reserve(v, n) \/ \E e \in Elements : Resize(v, n, e) \/ Assign(v, n, e)
    \/ \E w \in Vectors : Swap(v, w) \/ CopyAssign(v, w) \/ MoveAssign(v, w)
    \/ Clear(v)

-----------------------------------------------------------------------------

\* The cells in use hold the elements that were put in, in their order, and
\* they fit the memory there is, however the vector grew, moved or shrank.
VectorHoldsContent ==
  \A v \in Vectors :
    LET r == vector[v] IN
      /\ r.size <= r.capacity /\ DOMAIN r.array = 1 .. r.capacity
      /\ SubSeq(r.array, 1, r.size) = content[v]
      /\ \A i \in r.size + 1 .. r.capacity : r.array[i] = RawCell
      /\ \A e \in Elements : e \in ToSet(content[v]) <=> Find(r, e) <= r.size

=============================================================================
