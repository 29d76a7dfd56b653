------------------------------ MODULE Elements ------------------------------
(***************************************************************************)
(* What a detail::hash_table promises: elements with a key each, no two of  *)
(* which have the same key unless the table allows duplicates.  An element  *)
(* that stays keeps its node, so that iterators to it stay valid, whatever  *)
(* else is inserted, erased or rehashed.  Module HashTable is checked to    *)
(* implement this.                                                          *)
(***************************************************************************)
EXTENDS Naturals

CONSTANTS Nodes, Keys

VARIABLES
  duplicate,
  elements    \* the key of every element, by its node

evars == <<duplicate, elements>>

Without(n) == [m \in DOMAIN elements \ {n} |-> elements[m]]

EInit ==
  /\ duplicate \in BOOLEAN
  /\ elements = [n \in {} |-> CHOOSE k \in Keys : TRUE]

Insert(n, k) ==
  /\ n \notin DOMAIN elements
  /\ duplicate \/ \A m \in DOMAIN elements : elements[m] # k
  /\ elements' = [m \in DOMAIN elements \union {n} |-> IF m = n THEN k ELSE elements[m]]
  /\ UNCHANGED duplicate

Remove(n) ==
  /\ n \in DOMAIN elements
  /\ elements' = Without(n)
  /\ UNCHANGED duplicate

RemoveAll ==
  /\ elements' = [n \in {} |-> CHOOSE k \in Keys : TRUE]
  /\ UNCHANGED duplicate

ENext ==
  \/ \E n \in Nodes \ DOMAIN elements, k \in Keys : Insert(n, k)
  \/ \E n \in DOMAIN elements : Remove(n)
  \/ RemoveAll

ESpec == EInit /\ [][ENext]_evars

=============================================================================
