------------------------------ MODULE Messages ------------------------------
(***************************************************************************)
(* iocp::message and iocp::message_pool (library/iocp/message.h) over       *)
(* library::serialize_view (library/serialize.h): a thread cuts its         *)
(* messages from one buffer until it is used up; every message counts its   *)
(* buffer, which goes back to its pool with the last of them.               *)
(*                                                                          *)
(* A message is written while it is alone with its bytes: copies are made   *)
(* of what is complete.                                                     *)
(***************************************************************************)
EXTENDS Naturals, Sequences, FiniteSets

CONSTANTS
  Messages,       \* variables of type message
  ByteBuffers,    \* memory of the pool of buffers
  BufferSize,     \* 1024 bytes
  Sizes,          \* what allocate is called with, at most BufferSize
  Data,           \* values of a byte
  NoBytes,        \* nullptr
  NoMessage       \* the variable does not exist

View == [front : Nat, rear : Nat, capacity : Nat, array : Nat, of : ByteBuffers \union {NoBytes}]

MessagesAssumption ==
  /\ BufferSize \in Nat /\ Sizes \subseteq 0 .. BufferSize
  /\ ByteBuffers # {} /\ NoBytes \notin ByteBuffers
  /\ Data # {}
  /\ IsFiniteSet(Messages) /\ NoMessage \notin View

VARIABLES
  message,   \* the view and the pointer of every message
  pool,      \* _message of the pool
  users,     \* _use of every buffer
  bytes,     \* the array of every buffer
  unread     \* what was written to a message and not read (history)

messageVars == <<message, pool, users, bytes, unread>>

NullView == [front |-> 0, rear |-> 0, capacity |-> 0, array |-> 0, of |-> NoBytes]

FirstBuffer == CHOOSE b \in ByteBuffers : TRUE

\* The pool of a thread begins with a buffer.
Init ==
  /\ message = [v \in Messages |-> NoMessage]
  /\ pool = [NullView EXCEPT !.capacity = BufferSize, !.of = FirstBuffer]
  /\ users = [b \in ByteBuffers |-> IF b = FirstBuffer THEN 1 ELSE 0]
  /\ bytes = [b \in ByteBuffers |-> [i \in 1 .. BufferSize |-> CHOOSE d \in Data : TRUE]]
  /\ unread = [v \in Messages |-> <<>>]

Exists(v) == message[v] # NoMessage
Counted(count, b) == IF b = NoBytes THEN count ELSE [count EXCEPT ![b] = @ + 1]
Uncounted(count, b) == IF b = NoBytes THEN count ELSE [count EXCEPT ![b] = @ - 1]
Remain(view) == view.capacity - view.rear

Slice(from, size) ==
  [front |-> 0, rear |-> 0, capacity |-> size, array |-> from.array + from.rear, of |-> from.of]

\* allocate: a thread that has too few bytes left starts another buffer, and
\* lets its count of the old one go.
Supplied(size) ==
  IF Remain(pool) >= size THEN {<<pool, users>>}
  ELSE {<<[NullView EXCEPT !.capacity = BufferSize, !.of = b],
          Uncounted([users EXCEPT ![b] = 1], pool.of)>> : b \in {c \in ByteBuffers : users[c] = 0}}

Allocate(v, size) ==
  /\ ~Exists(v)
  /\ \E supply \in Supplied(size) :
       /\ message' = [message EXCEPT ![v] = Slice(supply[1], size)]
       /\ pool' = [supply[1] EXCEPT !.rear = @ + size]
       /\ users' = Counted(supply[2], supply[1].of)
  /\ unread' = [unread EXCEPT ![v] = <<>>]
  /\ UNCHANGED bytes

\* Copies and moves of the view go with those of the pointer.
Copy(v, w) ==
  /\ ~Exists(v) /\ Exists(w)
  /\ message' = [message EXCEPT ![v] = message[w]]
  /\ users' = Counted(users, message[w].of)
  /\ unread' = [unread EXCEPT ![v] = unread[w]]
  /\ UNCHANGED <<pool, bytes>>

Move(v, w) ==
  /\ ~Exists(v) /\ Exists(w)
  /\ message' = [message EXCEPT ![v] = message[w], ![w] = NullView]
  /\ unread' = [unread EXCEPT ![v] = unread[w], ![w] = <<>>]
  /\ UNCHANGED <<pool, users, bytes>>

CopyAssign(v, w) ==
  /\ Exists(v) /\ Exists(w)
  /\ message' = [message EXCEPT ![v] = message[w]]
  /\ users' = Uncounted(Counted(users, message[w].of), message[v].of)
  /\ unread' = [unread EXCEPT ![v] = unread[w]]
  /\ UNCHANGED <<pool, bytes>>

MoveAssign(v, w) ==
  /\ Exists(v) /\ Exists(w) /\ v # w
  /\ message' = [message EXCEPT ![v] = message[w], ![w] = NullView]
  /\ users' = Uncounted(users, message[v].of)
  /\ unread' = [unread EXCEPT ![v] = unread[w], ![w] = <<>>]
  /\ UNCHANGED <<pool, bytes>>

Drop(v) ==
  /\ Exists(v)
  /\ message' = [message EXCEPT ![v] = NoMessage]
  /\ users' = Uncounted(users, message[v].of)
  /\ unread' = [unread EXCEPT ![v] = <<>>]
  /\ UNCHANGED <<pool, bytes>>

Alone(v) ==
  \A w \in Messages \ {v} :
    Exists(w) => message[w].of # message[v].of \/ message[w].array # message[v].array

\* << and push, or move_rear behind bytes that were received.
Push(v, byte) ==
  /\ Exists(v) /\ Alone(v)
  /\ message[v].rear < message[v].capacity
  /\ message' = [message EXCEPT ![v].rear = @ + 1]
  /\ bytes' = [bytes EXCEPT ![message[v].of][message[v].array + message[v].rear + 1] = byte]
  /\ unread' = [unread EXCEPT ![v] = Append(@, byte)]
  /\ UNCHANGED <<pool, users>>

\* >>, pop and move_front.
Pop(v) ==
  /\ Exists(v) /\ message[v].front < message[v].rear
  /\ message' = [message EXCEPT ![v].front = @ + 1]
  /\ unread' = [unread EXCEPT ![v] = Tail(@)]
  /\ UNCHANGED <<pool, users, bytes>>

Clear(v) ==
  /\ Exists(v)
  /\ message' = [message EXCEPT ![v].front = 0, ![v].rear = 0]
  /\ unread' = [unread EXCEPT ![v] = <<>>]
  /\ UNCHANGED <<pool, users, bytes>>

\* What >> or peek would read, from the front to the rear.
Window(v) ==
  LET view == message[v]
  IN [i \in 1 .. view.rear - view.front |-> bytes[view.of][view.array + view.front + i]]

Next ==
  \/ \E v \in Messages :
       \/ Drop(v) \/ Pop(v) \/ Clear(v)
       \/ \E size \in Sizes : Allocate(v, size)
       \/ \E byte \in Data : Push(v, byte)
  \/ \E v, w \in Messages : Copy(v, w) \/ Move(v, w) \/ CopyAssign(v, w) \/ MoveAssign(v, w)

-----------------------------------------------------------------------------

\* Nobody's bytes change but by its own writes: the slices that a thread cuts
\* do not overlap, they end inside their buffer, before what the thread will
\* cut next, and the buffer stays out of the pool, counted once by every
\* message and by the thread that cuts from it.
MessagesKeepBytes ==
  /\ \A v \in Messages : Exists(v) =>
       /\ message[v].array + message[v].capacity <= BufferSize
       /\ pool.of = message[v].of => message[v].array + message[v].capacity <= pool.rear
       /\ Window(v) = unread[v]
  /\ \A b \in ByteBuffers :
       users[b] = Cardinality({v \in Messages : Exists(v) /\ message[v].of = b})
                  + (IF pool.of = b THEN 1 ELSE 0)

=============================================================================
