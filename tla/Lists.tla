------------------------------- MODULE Lists -------------------------------
(***************************************************************************)
(* library::list: nodes in a ring that starts and ends at a head without a  *)
(* value.  Copies and moves go through a temporary list that is swapped in  *)
(* and destroyed, so nodes and heads change owners all the time.            *)
(***************************************************************************)
EXTENDS Naturals, Sequences, SequencesExt, FiniteSets

CONSTANTS
  Lists,        \* variables of type list
  Temporary,    \* the list that an assignment builds
  ListNodes,    \* memory of nodes
  Heads,        \* memory of heads, one more than there are lists
  ListItems,    \* values of elements
  NoList        \* the variable does not exist

VARIABLES
  lists,    \* _head and _size of every list
  links,    \* _prev, _next and the element of every node and head in use
  elements  \* the elements each list should hold, in order (history)

listVars == <<lists, links, elements>>

Memory == [lists |-> lists, links |-> links]

Exists(m, l) == m.lists[l] # NoList

NodesOf(m, l) ==
  LET walk[i \in 0 .. m.lists[l].size] ==
        IF i = 0 THEN m.lists[l].head ELSE m.links[walk[i - 1]].next
  IN [i \in 1 .. m.lists[l].size |-> walk[i]]

FreeOf(m, memory) == CHOOSE n \in memory : n \notin DOMAIN m.links

Without(f, S) == [n \in DOMAIN f \ S |-> f[n]]

Init ==
  /\ lists = [l \in Lists \union {Temporary} |-> NoList]
  /\ links = [n \in {} |-> NoList]
  /\ elements = [l \in Lists |-> <<>>]

-----------------------------------------------------------------------------

NewList(m, l) ==
  LET h == FreeOf(m, Heads)
  IN [lists |-> [m.lists EXCEPT ![l] = [head |-> h, size |-> 0]],
      links |-> [n \in DOMAIN m.links \union {h} |->
                   IF n = h THEN [prev |-> h, next |-> h, item |-> NoList] ELSE m.links[n]]]

\* The new node n goes between at and the node before it.
Link(m, l, at, n, x) ==
  LET before == m.links[at].prev
      linked == [k \in DOMAIN m.links \union {n} |->
                   IF k = n THEN [prev |-> before, next |-> at, item |-> x] ELSE m.links[k]]
  IN [lists |-> [m.lists EXCEPT ![l].size = @ + 1],
      links |-> [linked EXCEPT ![before].next = n, ![at].prev = n]]

EmplaceBack(m, l, x) == Link(m, l, m.lists[l].head, FreeOf(m, ListNodes), x)

Copied(m, l, from) ==
  FoldLeft(LAMBDA made, n : EmplaceBack(made, l, m.links[n].item), NewList(m, l), NodesOf(m, from))

Swapped(m, l, k) == [m EXCEPT !.lists = [@ EXCEPT ![l] = m.lists[k], ![k] = m.lists[l]]]

\* A list that was moved from has a new head.
Moved(m, l, from) == Swapped(NewList(m, l), l, from)

Cleared(m, l) ==
  LET h == m.lists[l].head
  IN [lists |-> [m.lists EXCEPT ![l].size = 0],
      links |-> [Without(m.links, Range(NodesOf(m, l))) EXCEPT ![h].prev = h, ![h].next = h]]

Destroyed(m, l) ==
  [lists |-> [m.lists EXCEPT ![l] = NoList],
   links |-> Without(Cleared(m, l).links, {m.lists[l].head})]

\* list(rhs).swap(*this)
SwappedIn(m, l) == Destroyed(Swapped(m, l, Temporary), Temporary)

Becomes(m) == lists' = m.lists /\ links' = m.links

-----------------------------------------------------------------------------

Construct(l) ==
  /\ ~Exists(Memory, l)
  /\ Becomes(NewList(Memory, l))
  /\ elements' = [elements EXCEPT ![l] = <<>>]

CopyConstruct(l, from) ==
  /\ ~Exists(Memory, l) /\ Exists(Memory, from)
  /\ lists[from].size <= Cardinality(ListNodes \ DOMAIN links)
  /\ Becomes(Copied(Memory, l, from))
  /\ elements' = [elements EXCEPT ![l] = elements[from]]

MoveConstruct(l, from) ==
  /\ ~Exists(Memory, l) /\ Exists(Memory, from)
  /\ Becomes(Moved(Memory, l, from))
  /\ elements' = [elements EXCEPT ![l] = elements[from], ![from] = <<>>]

CopyAssign(l, from) ==
  /\ l # from /\ Exists(Memory, l) /\ Exists(Memory, from)
  /\ lists[from].size <= Cardinality(ListNodes \ DOMAIN links)
  /\ Becomes(SwappedIn(Copied(Memory, Temporary, from), l))
  /\ elements' = [elements EXCEPT ![l] = elements[from]]

MoveAssign(l, from) ==
  /\ l # from /\ Exists(Memory, l) /\ Exists(Memory, from)
  /\ Becomes(SwappedIn(Moved(Memory, Temporary, from), l))
  /\ elements' = [elements EXCEPT ![l] = elements[from], ![from] = <<>>]

Destroy(l) ==
  /\ Exists(Memory, l)
  /\ Becomes(Destroyed(Memory, l))
  /\ elements' = [elements EXCEPT ![l] = <<>>]

Swap(l, k) ==
  /\ Exists(Memory, l) /\ Exists(Memory, k)
  /\ Becomes(Swapped(Memory, l, k))
  /\ elements' = [elements EXCEPT ![l] = elements[k], ![k] = elements[l]]

Clear(l) ==
  /\ Exists(Memory, l)
  /\ Becomes(Cleared(Memory, l))
  /\ elements' = [elements EXCEPT ![l] = <<>>]

\* Before the i-th element, or at the end.
Emplace(l, i, x) ==
  /\ Exists(Memory, l) /\ i <= lists[l].size + 1 /\ ~ ListNodes \subseteq DOMAIN links
  /\ LET at == Append(NodesOf(Memory, l), lists[l].head)[i]
     IN Becomes(Link(Memory, l, at, FreeOf(Memory, ListNodes), x))
  /\ elements' = [elements EXCEPT ![l] = InsertAt(@, i, x)]

\* pop_front erases begin(), pop_back --end().
Erase(l, i) ==
  /\ Exists(Memory, l) /\ i <= lists[l].size
  /\ LET n == NodesOf(Memory, l)[i]
     IN /\ lists' = [lists EXCEPT ![l].size = @ - 1]
        /\ links' = Without([links EXCEPT ![links[n].prev].next = links[n].next,
                                          ![links[n].next].prev = links[n].prev], {n})
  /\ elements' = [elements EXCEPT ![l] = RemoveAt(@, i)]

Next ==
  \E l \in Lists :
    \/ Construct(l) \/ Destroy(l) \/ Clear(l)
    \/ \E from \in Lists :
         \/ CopyConstruct(l, from) \/ MoveConstruct(l, from)
         \/ CopyAssign(l, from) \/ MoveAssign(l, from) \/ Swap(l, from)
    \/ \E i \in 1 .. Cardinality(ListNodes) + 1 :
         \/ Erase(l, i) \/ \E x \in ListItems : Emplace(l, i, x)

-----------------------------------------------------------------------------

\* The nodes of a list hold its elements in order, forwards by _next and
\* backwards by _prev, and end at its head; every node and head in use belongs
\* to one list, so that nothing is shared, lost or used after it was freed.
ListsAreRings ==
  LET alive == {l \in DOMAIN lists : Exists(Memory, l)}
  IN /\ lists[Temporary] = NoList
     /\ \A l \in alive :
          LET ring == <<lists[l].head>> \o NodesOf(Memory, l) \o <<lists[l].head>>
          IN /\ \A i \in 1 .. Len(ring) - 1 :
                  links[ring[i]].next = ring[i + 1] /\ links[ring[i + 1]].prev = ring[i]
             /\ [i \in 1 .. lists[l].size |-> links[ring[i + 1]].item] = elements[l]
     /\ Cardinality(DOMAIN links)
          = FoldLeft(LAMBDA sum, l : sum + 1 + lists[l].size, 0, SetToSeq(alive))

=============================================================================
