------------------------------ MODULE Pointers ------------------------------
(***************************************************************************)
(* Every operation of library::share_pointer and library::weak_pointer      *)
(* (library/pointer.h) on the variables of one thread: which reference each *)
(* variable names, which part of the object it points at, and what the two  *)
(* counts of the reference do.  SharePointer interleaves the counts among   *)
(* threads.                                                                 *)
(***************************************************************************)
EXTENDS Naturals, FiniteSets

CONSTANTS
  ShareVars, WeakVars,   \* variables of the two types
  References,            \* memory for a detail::reference and its object
  Nobody,                \* no reference
  NoPointer              \* the variable does not exist

PointersAssumption ==
  /\ IsFiniteSet(ShareVars) /\ IsFiniteSet(WeakVars)
  /\ ShareVars \intersect WeakVars = {}
  /\ Nobody \notin References
  /\ NoPointer \notin [to : {"null", "whole", "part"}, of : References \union {Nobody}]

VARIABLES
  pointers,   \* _pointer and _reference of every variable
  counts      \* _use, _weak of every reference, its object and its memory

pointerVars == <<pointers, counts>>

NullPointer == [to |-> "null", of |-> Nobody]
Fresh == [use |-> 0, weak |-> 0, object |-> "none", memory |-> FALSE]

Init ==
  /\ pointers = [v \in ShareVars \union WeakVars |-> NoPointer]
  /\ counts = [r \in References |-> Fresh]

Exists(v) == pointers[v] # NoPointer

\* What a constructor or a destructor does to the counts, if there are any.
Used(c, r) == IF r = Nobody THEN c ELSE [c EXCEPT ![r].use = @ + 1]
Watched(c, r) == IF r = Nobody THEN c ELSE [c EXCEPT ![r].weak = @ + 1]

Unwatched(c, r) ==
  IF r = Nobody THEN c
  ELSE [c EXCEPT ![r].weak = @ - 1, ![r].memory = c[r].weak # 1]

\* destroy_object of either reference; the weak count of all users follows it.
Destroyed(c, r) == Unwatched([c EXCEPT ![r].object = "destroyed"], r)

Unused(c, r) ==
  IF r = Nobody THEN c
  ELSE LET less == [c EXCEPT ![r].use = @ - 1]
       IN IF less[r].use = 0 THEN Destroyed(less, r) ELSE less

Retained(c, v, r) == IF v \in ShareVars THEN Used(c, r) ELSE Watched(c, r)
Released(c, v, r) == IF v \in ShareVars THEN Unused(c, r) ELSE Unwatched(c, r)

Null(v) ==
  /\ ~Exists(v)
  /\ pointers' = [pointers EXCEPT ![v] = NullPointer]
  /\ UNCHANGED counts

Started == [use |-> 1, weak |-> 1, object |-> "alive", memory |-> TRUE]

\* A constructor takes an object; allocate_share makes it beside its counts.
Construct(s) ==
  /\ ~Exists(s)
  /\ \E r \in References :
       /\ ~counts[r].memory
       /\ counts' = [counts EXCEPT ![r] = Started]
       /\ pointers' = [pointers EXCEPT ![s] = [to |-> "whole", of |-> r]]

AllocateShare(s) == Construct(s)

CopyConstruct(v, w) ==
  /\ ~Exists(v) /\ Exists(w)
  /\ pointers' = [pointers EXCEPT ![v] = pointers[w]]
  /\ counts' = Retained(counts, v, pointers[w].of)

MoveConstruct(v, w) ==
  /\ ~Exists(v) /\ Exists(w)
  /\ pointers' = [pointers EXCEPT ![v] = pointers[w], ![w] = NullPointer]
  /\ UNCHANGED counts

\* A pointer to a part of the object, or what a dynamic cast made of it,
\* shares the reference even when it points at nothing.
AliasCopy(v, w, to) ==
  /\ ~Exists(v) /\ Exists(w)
  /\ pointers' = [pointers EXCEPT ![v] = [to |-> to, of |-> pointers[w].of]]
  /\ counts' = Used(counts, pointers[w].of)

AliasMove(v, w, to) ==
  /\ ~Exists(v) /\ Exists(w)
  /\ pointers' = [pointers EXCEPT ![v] = [to |-> to, of |-> pointers[w].of], ![w] = NullPointer]
  /\ UNCHANGED counts

CastShare(v, w) == \E to \in {"null", "whole"} : AliasCopy(v, w, to)

\* The new pointer is made before the old one is let go, so a variable may be
\* assigned to itself.
CopyAssign(v, w) ==
  /\ Exists(v) /\ Exists(w)
  /\ pointers' = [pointers EXCEPT ![v] = pointers[w]]
  /\ counts' = Released(Retained(counts, v, pointers[w].of), v, pointers[v].of)

MoveAssign(v, w) ==
  /\ Exists(v) /\ Exists(w)
  /\ pointers' = [pointers EXCEPT ![w] = NullPointer, ![v] = pointers[w]]
  /\ counts' = IF v = w THEN counts ELSE Released(counts, v, pointers[v].of)

\* The forms that convert the type differ in nothing else.
Convert(v, w) ==
  CopyConstruct(v, w) \/ MoveConstruct(v, w) \/ CopyAssign(v, w) \/ MoveAssign(v, w)

Destroy(v) ==
  /\ Exists(v)
  /\ pointers' = [pointers EXCEPT ![v] = NoPointer]
  /\ counts' = Released(counts, v, pointers[v].of)

Swap(v, w) ==
  /\ Exists(v) /\ Exists(w)
  /\ pointers' = [pointers EXCEPT ![v] = pointers[w], ![w] = pointers[v]]
  /\ UNCHANGED counts

Watch(w, s) == CopyConstruct(w, s)

UseCount(v) == IF pointers[v].of = Nobody THEN 0 ELSE counts[pointers[v].of].use
Expired(w) == UseCount(w) = 0

\* What lock returns shares the object unless it is gone, also through a weak
\* pointer to a part of it.
Lock(s, w) ==
  /\ ~Exists(s) /\ Exists(w)
  /\ pointers' = [pointers EXCEPT ![s] = IF Expired(w) THEN NullPointer ELSE pointers[w]]
  /\ counts' = IF Expired(w) THEN counts ELSE Used(counts, pointers[w].of)

Next ==
  \/ \E kind \in {ShareVars, WeakVars} : \E v, w \in kind :
       \/ Null(v) \/ Destroy(v) \/ Swap(v, w) \/ Convert(v, w)
  \/ \E s, t \in ShareVars :
       \/ Construct(s) \/ AllocateShare(s) \/ CastShare(s, t)
       \/ AliasCopy(s, t, "part") \/ AliasMove(s, t, "part")
  \/ \E s \in ShareVars, w \in WeakVars : Watch(w, s) \/ Lock(s, w)

-----------------------------------------------------------------------------

HoldersOf(r, kind) == {v \in kind : Exists(v) /\ pointers[v].of = r}

\* The counts of a reference are the variables that name it: the object lives
\* as long as a share pointer, one to a part of it or to nothing included, the
\* counts as long as a pointer of either kind, and nothing longer; a weak
\* pointer has expired exactly when its object is gone.
CountsAreHolders ==
  /\ \A r \in References :
       LET users == Cardinality(HoldersOf(r, ShareVars))
           watchers == Cardinality(HoldersOf(r, WeakVars))
       IN /\ counts[r].use = users
          /\ counts[r].weak = watchers + (IF users > 0 THEN 1 ELSE 0)
          /\ counts[r].object = "alive" <=> users > 0
          /\ counts[r].memory <=> users + watchers > 0
  /\ \A w \in WeakVars :
       Exists(w) => (Expired(w) <=> \A r \in References : pointers[w].of = r => counts[r].object # "alive")

=============================================================================
