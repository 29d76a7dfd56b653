----------------------------- MODULE Serialize -----------------------------
(***************************************************************************)
(* library::serialize_buffer (library/serialize.h): a window between _front *)
(* and _rear over bytes that the buffer holds itself (Fixed) or keeps in a  *)
(* block of the heap (Growing).  One byte stands for a value of any type.   *)
(*                                                                          *)
(* The assertions for room and data end a debug build; the growing buffer   *)
(* asserts no room, so its caller reserves first: every guard on the window *)
(* is such an assertion or that duty of the caller.                         *)
(***************************************************************************)
EXTENDS Naturals, Sequences, FiniteSets

CONSTANTS
  Fixed, Growing,    \* the buffers of the two kinds
  BufferBytes,       \* the capacity of the fixed ones, and the most asked for
  HeapBlocks,
  Octets,            \* values of a byte
  Garbage,           \* a byte that nobody has written
  NoBlock,           \* nullptr
  NoBuffer           \* the buffer does not exist

Byte == Octets \union {Garbage}
View == [front : Nat, rear : Nat, capacity : Nat,
         array : [1 .. BufferBytes -> Byte] \union HeapBlocks \union {NoBlock}]

SerializeAssumption ==
  /\ BufferBytes \in Nat
  /\ Fixed \intersect Growing = {}
  /\ NoBlock \notin HeapBlocks
  /\ NoBuffer \notin View

VARIABLES
  buffer,   \* _front, _rear, _capacity and what _array points to
  block,    \* the bytes of every block of the heap that is allocated, <<>> of others
  pending   \* the bytes written to a buffer and not yet read from it (history)

bufferVars == <<buffer, block, pending>>

Empty(o) ==
  IF o \in Fixed THEN [front |-> 0, rear |-> 0, capacity |-> BufferBytes, array |-> [i \in 1 .. BufferBytes |-> Garbage]]
  ELSE [front |-> 0, rear |-> 0, capacity |-> 0, array |-> NoBlock]

Init ==
  /\ buffer = [o \in Fixed \union Growing |-> NoBuffer]
  /\ block = [b \in HeapBlocks |-> [allocated |-> FALSE, bytes |-> <<>>]]
  /\ pending = [o \in Fixed \union Growing |-> <<>>]

Exists(o) == buffer[o] # NoBuffer
FreeBlocks == {b \in HeapBlocks : ~block[b].allocated}
Allocated(bytes) == [allocated |-> TRUE, bytes |-> bytes]
Deallocated == [allocated |-> FALSE, bytes |-> <<>>]

\* Bytes first + 1 .. last of one array, at the same place in an array of so many.
Carried(bytes, first, last, capacity) ==
  [i \in 1 .. capacity |-> IF i \in first + 1 .. last THEN bytes[i] ELSE Garbage]

Cells(o) == IF o \in Fixed THEN buffer[o].array
            ELSE IF buffer[o].array = NoBlock THEN <<>> ELSE block[buffer[o].array].bytes

Construct(o) ==
  /\ ~Exists(o)
  /\ buffer' = [buffer EXCEPT ![o] = Empty(o)]
  /\ pending' = [pending EXCEPT ![o] = <<>>]
  /\ UNCHANGED block

\* Copies, moves and assignments of a fixed buffer are all of its members.
CopyFixed(o, p) ==
  /\ Exists(p)
  /\ buffer' = [buffer EXCEPT ![o] = buffer[p]]
  /\ pending' = [pending EXCEPT ![o] = pending[p]]
  /\ UNCHANGED block

\* A growing buffer copies its window into a block of its own, of the same
\* capacity and at the same place.
CopyGrowing(o, p) ==
  /\ ~Exists(o) /\ Exists(p)
  /\ \E b \in FreeBlocks :
       /\ buffer' = [buffer EXCEPT ![o] = [buffer[p] EXCEPT !.array = b]]
       /\ block' = [block EXCEPT ![b] =
            Allocated(Carried(Cells(p), buffer[p].front, buffer[p].rear, buffer[p].capacity))]
  /\ pending' = [pending EXCEPT ![o] = pending[p]]

MoveGrowing(o, p) ==
  /\ ~Exists(o) /\ Exists(p)
  /\ buffer' = [buffer EXCEPT ![o] = buffer[p], ![p] = Empty(p)]
  /\ pending' = [pending EXCEPT ![o] = pending[p], ![p] = <<>>]
  /\ UNCHANGED block

Destroy(o) ==
  /\ Exists(o)
  /\ block' = [b \in HeapBlocks |->
       IF o \in Growing /\ b = buffer[o].array THEN Deallocated ELSE block[b]]
  /\ buffer' = [buffer EXCEPT ![o] = NoBuffer]
  /\ pending' = [pending EXCEPT ![o] = <<>>]

\* realloc keeps the bytes, in the same block or in another.
Reserve(o, capacity) ==
  /\ Exists(o) /\ buffer[o].capacity < capacity
  /\ \E b \in FreeBlocks \union ({buffer[o].array} \ {NoBlock}) :
       /\ buffer' = [buffer EXCEPT ![o].array = b, ![o].capacity = capacity]
       /\ block' = [c \in HeapBlocks |->
            IF c = b THEN Allocated(Carried(Cells(o), 0, buffer[o].capacity, capacity))
            ELSE IF c = buffer[o].array THEN Deallocated ELSE block[c]]
  /\ UNCHANGED pending

Written(o, byte) ==
  /\ Exists(o) /\ buffer[o].rear < buffer[o].capacity
  /\ IF o \in Fixed
     THEN /\ buffer' = [buffer EXCEPT ![o].rear = @ + 1, ![o].array[buffer[o].rear + 1] = byte]
          /\ UNCHANGED block
     ELSE /\ buffer' = [buffer EXCEPT ![o].rear = @ + 1]
          /\ block' = [block EXCEPT ![buffer[o].array].bytes[buffer[o].rear + 1] = byte]
  /\ pending' = [pending EXCEPT ![o] = Append(@, byte)]

\* <<, or push of some bytes, on a fixed and on a growing buffer; or bytes that
\* an operation of the system wrote behind the rear, which move_rear takes in.
PushFixed(o, byte)   == o \in Fixed /\ Written(o, byte)
PushGrowing(o, byte) == o \in Growing /\ Written(o, byte)

\* What >> and peek read.
Peeked(o) == Cells(o)[buffer[o].front + 1]

\* >>, pop and move_front.
Pop(o) ==
  /\ Exists(o) /\ buffer[o].front < buffer[o].rear
  /\ buffer' = [buffer EXCEPT ![o].front = @ + 1]
  /\ pending' = [pending EXCEPT ![o] = Tail(@)]
  /\ UNCHANGED block

Clear(o) ==
  /\ Exists(o)
  /\ buffer' = [buffer EXCEPT ![o].front = 0, ![o].rear = 0]
  /\ pending' = [pending EXCEPT ![o] = <<>>]
  /\ UNCHANGED block

Size(o) == buffer[o].rear - buffer[o].front

Next ==
  \/ \E o \in Fixed \union Growing :
       \/ Construct(o) \/ Destroy(o) \/ Pop(o) \/ Clear(o)
       \/ \E byte \in Octets : PushFixed(o, byte) \/ PushGrowing(o, byte)
  \/ \E o, p \in Fixed : CopyFixed(o, p)
  \/ \E o, p \in Growing : CopyGrowing(o, p) \/ MoveGrowing(o, p)
  \/ \E o \in Growing, capacity \in 1 .. BufferBytes : Reserve(o, capacity)

-----------------------------------------------------------------------------

\* The window of a buffer holds the bytes that were written and not yet read,
\* in their order, whatever copies, moves and growth came between; a block
\* belongs to one buffer and is freed with it.
BuffersKeepBytes ==
  /\ \A o \in Fixed \union Growing : Exists(o) =>
       /\ Size(o) = Len(pending[o])
       /\ SubSeq(Cells(o), buffer[o].front + 1, buffer[o].rear) = pending[o]
       /\ Size(o) > 0 => Peeked(o) = Head(pending[o])
  /\ \A b \in HeapBlocks :
       Cardinality({o \in Growing : Exists(o) /\ buffer[o].array = b}) = (IF block[b].allocated THEN 1 ELSE 0)

=============================================================================
