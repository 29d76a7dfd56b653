------------------------------- MODULE Hooks -------------------------------
(***************************************************************************)
(* library::intrusive (library/pointer.h): the counts are in the object, a  *)
(* pointer_hook, and the object goes back to where it came from when the    *)
(* last pointer of either kind is gone.  A pointer may leave its variable   *)
(* by reset, while an operation of the system carries the object, and come  *)
(* back by set: neither counts.  An object can ask for a pointer to itself  *)
(* at any time, also while it is destructed: nothing in the code looks.     *)
(***************************************************************************)
EXTENDS Naturals, FiniteSets

CONSTANTS
  HookShares, HookWeaks,   \* variables of the two types
  Hooks,                   \* objects
  Nil,                     \* nullptr
  NoHook,                  \* the variable does not exist
  CarryLimit,              \* pointers to one object that are out of any variable
  RaiseLimit               \* times a count rises from zero in one life

HooksAssumption ==
  /\ IsFiniteSet(HookShares) /\ IsFiniteSet(HookWeaks)
  /\ HookShares \intersect HookWeaks = {}
  /\ Nil \notin Hooks
  /\ NoHook \notin Hooks \union {Nil}
  /\ CarryLimit \in Nat
  /\ RaiseLimit \in Nat

VARIABLES
  held,      \* _pointer of every variable
  hook,      \* _use, _weak of every object
  life,      \* phase, "out" when the memory is not in use, "alive" or "destructed",
             \* calls of destruct that are running, and how often in this life
             \* the count of users was raised from zero (history)
  carried    \* pointers that were taken out by reset (history)

hookVars == <<held, hook, life, carried>>

Init ==
  /\ held = [v \in HookShares \union HookWeaks |-> NoHook]
  /\ hook = [h \in Hooks |-> [use |-> 0, weak |-> 0]]
  /\ life = [h \in Hooks |-> [phase |-> "out", destructs |-> 0, raised |-> 0]]
  /\ carried = [h \in Hooks |-> 0]

Exists(v) == held[v] # NoHook

\* The pair <<hook, life>> after a pointer to h came or went.
More(h, field) ==
  IF h = Nil THEN <<hook, life>> ELSE <<[hook EXCEPT ![h][field] = @ + 1], life>>

LessWeak(pair, h) ==
  IF h = Nil THEN pair
  ELSE <<[pair[1] EXCEPT ![h].weak = @ - 1],
         IF pair[1][h].weak = 1 THEN [pair[2] EXCEPT ![h].phase = "out"] ELSE pair[2]>>

\* The last user calls destruct; EndDestruct is what it does when that returns.
LessUse(pair, h) ==
  IF h = Nil THEN pair
  ELSE LET less == [pair[1] EXCEPT ![h].use = @ - 1]
       IN <<less, IF less[h].use > 0 THEN pair[2]
                  ELSE [pair[2] EXCEPT ![h].phase = "destructed", ![h].destructs = @ + 1]>>

SetCounts(pair) == hook' = pair[1] /\ life' = pair[2]

Null(v) ==
  /\ ~Exists(v)
  /\ held' = [held EXCEPT ![v] = Nil]
  /\ UNCHANGED <<hook, life, carried>>

\* The constructor that takes an object sets both counts to one, whatever they
\* were: it is for an object that no pointer knows.
Construct(s) ==
  /\ ~Exists(s)
  /\ \E h \in Hooks :
       /\ life[h].phase = "out"
       /\ held' = [held EXCEPT ![s] = h]
       /\ hook' = [hook EXCEPT ![h] = [use |-> 1, weak |-> 1]]
       /\ life' = [life EXCEPT ![h] = [phase |-> "alive", destructs |-> 0, raised |-> 0]]
  /\ UNCHANGED carried

\* Copies, moves and assignments of a share pointer.
Copy(s, t) ==
  /\ ~Exists(s) /\ Exists(t)
  /\ held' = [held EXCEPT ![s] = held[t]]
  /\ SetCounts(More(held[t], "use"))
  /\ UNCHANGED carried

Move(s, t) ==
  /\ ~Exists(s) /\ Exists(t)
  /\ held' = [held EXCEPT ![s] = held[t], ![t] = Nil]
  /\ UNCHANGED <<hook, life, carried>>

CopyAssign(s, t) ==
  /\ Exists(s) /\ Exists(t)
  /\ held' = [held EXCEPT ![s] = held[t]]
  /\ SetCounts(LessUse(More(held[t], "use"), held[s]))
  /\ UNCHANGED carried

MoveAssign(s, t) ==
  /\ Exists(s) /\ Exists(t)
  /\ held' = [held EXCEPT ![t] = Nil, ![s] = held[t]]
  /\ SetCounts(IF s = t THEN <<hook, life>> ELSE LessUse(<<hook, life>>, held[s]))
  /\ UNCHANGED carried

Convert(s, t) == Copy(s, t) \/ Move(s, t) \/ CopyAssign(s, t) \/ MoveAssign(s, t)

Drop(s) ==
  /\ Exists(s)
  /\ held' = [held EXCEPT ![s] = NoHook]
  /\ SetCounts(LessUse(<<hook, life>>, held[s]))
  /\ UNCHANGED carried

Swap(v, w) ==
  /\ Exists(v) /\ Exists(w)
  /\ held' = [held EXCEPT ![v] = held[w], ![w] = held[v]]
  /\ UNCHANGED <<hook, life, carried>>

\* reset forgets the object, which stays counted; set takes over such a count
\* without looking at what the variable held.
Reset(s) ==
  /\ Exists(s) /\ held[s] # Nil
  /\ carried[held[s]] < CarryLimit
  /\ carried' = [carried EXCEPT ![held[s]] = @ + 1]
  /\ held' = [held EXCEPT ![s] = Nil]
  /\ UNCHANGED <<hook, life>>

Set(s) ==
  /\ held[s] = Nil
  /\ \E h \in Hooks :
       /\ carried[h] > 0
       /\ held' = [held EXCEPT ![s] = h]
       /\ carried' = [carried EXCEPT ![h] = @ - 1]
  /\ UNCHANGED <<hook, life>>

\* The object is destructed, and its last user gives up the weak count that
\* stands for all users.
EndDestruct(h) ==
  /\ life[h].destructs > 0
  /\ SetCounts(LessWeak(<<hook, [life EXCEPT ![h].destructs = @ - 1]>>, h))
  /\ UNCHANGED <<held, carried>>

\* A pointer to itself.  The count of users is raised whatever it was: from
\* zero, in destruct and later, the weak count of the users is not.
SharePointerThis(s) ==
  /\ ~Exists(s)
  /\ \E h \in Hooks :
       LET raise == IF hook[h].use = 0 THEN 1 ELSE 0
       IN /\ life[h].phase # "out"
          /\ life[h].raised + raise <= RaiseLimit
          /\ held' = [held EXCEPT ![s] = h]
          /\ hook' = [hook EXCEPT ![h].use = @ + 1]
          /\ life' = [life EXCEPT ![h].raised = @ + raise]
  /\ UNCHANGED carried

Watch(w, v) ==
  /\ ~Exists(w) /\ Exists(v)
  /\ held' = [held EXCEPT ![w] = held[v]]
  /\ SetCounts(More(held[v], "weak"))
  /\ UNCHANGED carried

WeakCopy(w, v) == w # v /\ Watch(w, v)

WeakMove(w, v) == Move(w, v)

WeakAssign(w, v) ==
  /\ Exists(w) /\ Exists(v)
  /\ held' = [held EXCEPT ![w] = held[v]]
  /\ SetCounts(LessWeak(More(held[v], "weak"), held[w]))
  /\ UNCHANGED carried

WeakMoveAssign(w, v) ==
  /\ Exists(w) /\ Exists(v)
  /\ held' = [held EXCEPT ![v] = Nil, ![w] = held[v]]
  /\ SetCounts(IF w = v THEN <<hook, life>> ELSE LessWeak(<<hook, life>>, held[w]))
  /\ UNCHANGED carried

WeakDrop(w) ==
  /\ Exists(w)
  /\ held' = [held EXCEPT ![w] = NoHook]
  /\ SetCounts(LessWeak(<<hook, life>>, held[w]))
  /\ UNCHANGED carried

\* expire tells that the object is there, not that it is gone.
Expire(w) == held[w] # Nil /\ hook[held[w]].use # 0

LockBlind(s, w) ==
  /\ ~Exists(s) /\ Exists(w)
  /\ held' = [held EXCEPT ![s] = held[w]]
  /\ SetCounts(More(held[w], "use"))
  /\ UNCHANGED carried

Lock(s, w) ==
  /\ ~Exists(s) /\ Exists(w)
  /\ held' = [held EXCEPT ![s] = IF Expire(w) THEN held[w] ELSE Nil]
  /\ SetCounts(More(IF Expire(w) THEN held[w] ELSE Nil, "use"))
  /\ UNCHANGED carried

\* The memory of an object is not in use: no pointer names it and nobody
\* destructs it.  When that breaks, whatever follows is undefined, and the run
\* ends.
Sound ==
  \A h \in Hooks : life[h].phase = "out" =>
    /\ \A v \in HookShares \union HookWeaks : held[v] # h
    /\ carried[h] = 0
    /\ life[h].destructs = 0

Next ==
  /\ Sound
  /\ \/ \E s \in HookShares :
          \/ Null(s) \/ Construct(s) \/ Drop(s) \/ Reset(s) \/ Set(s) \/ SharePointerThis(s)
          \/ \E t \in HookShares : Convert(s, t) \/ Swap(s, t)
     \/ \E w \in HookWeaks :
          \/ Null(w) \/ WeakDrop(w)
          \/ \E v \in HookWeaks :
               WeakCopy(w, v) \/ WeakMove(w, v) \/ WeakAssign(w, v) \/ WeakMoveAssign(w, v) \/ Swap(w, v)
          \/ \E s \in HookShares : Watch(w, s) \/ Lock(s, w)
     \/ \E h \in Hooks : EndDestruct(h)

-----------------------------------------------------------------------------

\* The count of users is the number of share pointers, those that reset took
\* out of their variable included.  The weak count is that of the weak
\* pointers, of the users together and of the calls of destruct that run, less
\* one for every time share_pointer_this raised the other count from zero: an
\* object that does that gives its memory back too early.  One that does not is
\* destructed once, with the last user, and given back with the last pointer,
\* so that a pointer never names an object that is out, and a share pointer
\* never one that is destructed.
HooksAreCounted ==
  \A h \in Hooks :
    LET users == Cardinality({s \in HookShares : held[s] = h}) + carried[h]
        watchers == Cardinality({w \in HookWeaks : held[w] = h}) + life[h].destructs
    IN /\ life[h].phase # "out" =>
            /\ hook[h].use = users
            /\ hook[h].weak + life[h].raised = watchers + (IF users > 0 THEN 1 ELSE 0)
       /\ life[h].raised = 0 =>
            /\ life[h].destructs <= (IF users > 0 THEN 0 ELSE 1)
            /\ life[h].phase = IF users > 0 THEN "alive" ELSE IF watchers > 0 THEN "destructed" ELSE "out"

=============================================================================
