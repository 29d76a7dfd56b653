---------------------------- MODULE CircleQueue ----------------------------
(***************************************************************************)
(* library::circle_queue (library/queue.h): a queue in an array that it     *)
(* goes round.  One cell stays free, so that an empty queue can be told     *)
(* from a full one.  Spec is the class that grows (resize), FixedSpec the   *)
(* one that does not and asserts instead.                                   *)
(***************************************************************************)
EXTENDS Integers, Sequences, FiniteSetsExt

CONSTANTS
  Values,
  Raw,             \* a cell in which no element is constructed
  ReserveCounts,   \* capacities that the caller of reserve asks for
  CapacityLimit    \* bound on the capacity

CircleQueueAssumption ==
  /\ Raw \notin Values
  /\ ReserveCounts \subseteq Nat
  /\ CapacityLimit \in Nat \ {0}

VARIABLES
  capacity,
  front, rear,
  array,
  aborted   \* an assertion of a debug build has failed

vars == <<capacity, front, rear, array, aborted>>

-----------------------------------------------------------------------------

Size == (rear + capacity - front) % capacity
Remain == (front + capacity - (rear + 1)) % capacity
Empty == front = rear
Full == (rear + 1) % capacity = front

Init ==
  /\ capacity = 1
  /\ front = 0 /\ rear = 0
  /\ array = [c \in {0} |-> Raw]
  /\ aborted = FALSE

\* The two pieces of the old array the wrong way round.
MovedSwapped(longer) ==
  LET first == IF front <= rear THEN 0 ELSE rear
  IN [c \in 0 .. longer - 1 |->
        CASE c < first -> array[c]
          [] c >= first /\ c < Size -> array[front + c - first]
          [] OTHER -> Raw]

\* The cells of the longer array: the elements in two pieces, up to the end
\* of the old array and from its start, or in one.
Moved(longer) ==
  LET once == capacity - front
  IN [c \in 0 .. longer - 1 |->
        CASE c < Size /\ c < once -> array[front + c]
          [] c < Size /\ c >= once -> array[c - once]
          [] OTHER -> Raw]

Wanted == Max({(capacity * 3) \div 2, Size + 2})

\* emplace, which grows first when it has to.
Emplace(v) ==
  LET longer == IF Full THEN Wanted ELSE capacity
      cells == IF longer > capacity THEN Moved(longer) ELSE array
      at == IF longer > capacity THEN Size ELSE rear
  IN /\ longer <= CapacityLimit
     /\ capacity' = longer
     /\ front' = IF longer > capacity THEN 0 ELSE front
     /\ array' = [cells EXCEPT ![at] = v]
     /\ rear' = (at + 1) % longer
     /\ UNCHANGED aborted

\* emplace of the class of fixed size: what the assertion lets through.
EmplaceFixed(v) ==
  /\ ~aborted
  /\ aborted' = ~Full
  /\ IF Full
     THEN /\ array' = [array EXCEPT ![rear] = v]
          /\ rear' = (rear + 1) % capacity
     ELSE UNCHANGED <<array, rear>>
  /\ UNCHANGED <<capacity, front>>

Pop ==
  /\ ~aborted
  /\ ~Empty
  /\ array' = [array EXCEPT ![front] = Raw]
  /\ front' = (front + 1) % capacity
  /\ UNCHANGED <<capacity, rear, aborted>>

\* clear pops until the queue is empty.
Clear ==
  /\ ~aborted
  /\ array' = [c \in DOMAIN array |-> Raw]
  /\ front' = rear
  /\ UNCHANGED <<capacity, rear, aborted>>

Reserve(longer) ==
  /\ ~aborted
  /\ capacity < longer
  /\ array' = Moved(longer)
  /\ capacity' = longer
  /\ front' = 0
  /\ rear' = Size
  /\ UNCHANGED aborted

Common ==
  \/ Pop
  \/ Clear
  \/ \E longer \in ReserveCounts : Reserve(longer)

Next == Common \/ \E v \in Values : Emplace(v)

FixedNext == Common \/ \E v \in Values : EmplaceFixed(v)

Spec == Init /\ [][Next]_vars
FixedSpec == Init /\ [][FixedNext]_vars

-----------------------------------------------------------------------------
(* Properties.                                                             *)

Window == {(front + j) % capacity : j \in 0 .. Size - 1}

\* Elements are constructed in the cells from front to rear and in no
\* others, so that none is constructed over another or never destroyed, and
\* size, remain, empty and full say so (queue.h:369 to 383).
CellsAreWindow ==
  /\ front \in 0 .. capacity - 1 /\ rear \in 0 .. capacity - 1
  /\ array \in [0 .. capacity - 1 -> Values \union {Raw}]
  /\ {c \in DOMAIN array : array[c] # Raw} = Window
  /\ Size + Remain = capacity - 1
  /\ Empty <=> Size = 0
  /\ Full <=> Remain = 0

\* Whatever the array does, the queue is first in, first out (queue.h:314,
\* :350).
Promise == INSTANCE Fifo
  WITH contents <- [j \in 1 .. Size |-> array[(front + j - 1) % capacity]]
ImplementsFifo == Promise!FSpec

\* The assertion in emplace of the fixed class fails only when what it says
\* is the case, "called on full" (queue.h:320).
AssertionSaysFull == aborted => Full

=============================================================================
