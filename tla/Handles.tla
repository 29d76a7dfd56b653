------------------------------ MODULE Handles ------------------------------
(***************************************************************************)
(* The objects that own a number of the operating system: library::socket   *)
(* (library/socket.h) and library::handle with its heirs, the threads,      *)
(* processes, tokens, events and the completion port (library/handle.h,     *)
(* thread.h, synchronize.h, inputoutput.h).                                 *)
(*                                                                          *)
(* The system (external) hands out any number that is not open and knows    *)
(* nothing of who uses it: a number that is closed twice, or used after it  *)
(* was closed, is soon the number of somebody else.                         *)
(*                                                                          *)
(* An error the class answers with __debugbreak ends the program and has    *)
(* no step; a call that changes nothing here has none either.               *)
(***************************************************************************)
CONSTANTS
  Sockets,   \* variables of type socket
  Others,    \* variables of type thread, event, process, token or inputoutput_complet_port
  Numbers,   \* what the system hands out
  Invalid,   \* INVALID_SOCKET, INVALID_HANDLE_VALUE
  Absent     \* the object does not exist

HandlesAssumption ==
  /\ Invalid \notin Numbers
  /\ Absent \notin Numbers /\ Absent # Invalid

VARIABLES
  holds,     \* _socket or _handle of every object
  open,      \* numbers that are open
  lost       \* open numbers that an object has overwritten (history)

handleVars == <<holds, open, lost>>

Objects == Sockets \union Others

TypeOK ==
  /\ holds \in [Objects -> Numbers \union {Invalid, Absent}]
  /\ open \subseteq Numbers
  /\ lost \subseteq open

Init ==
  /\ holds = [o \in Objects |-> Absent]
  /\ open = {}
  /\ lost = {}

Exists(o) == holds[o] # Absent
Owns(o) == holds[o] \in Numbers

\* The default constructors.
Construct(o) ==
  /\ ~Exists(o)
  /\ holds' = [holds EXCEPT ![o] = Invalid]
  /\ UNCHANGED <<open, lost>>

\* The constructors that open a socket, start a thread, make a port or an event.
ConstructOpen(o) ==
  /\ ~Exists(o)
  /\ \E n \in Numbers \ open :
       /\ holds' = [holds EXCEPT ![o] = n]
       /\ open' = open \union {n}
  /\ UNCHANGED lost

\* The pair that accept returns holds a new socket, or an invalid one when
\* no connection waits.
Accept(listener, o) ==
  /\ Owns(listener)
  /\ Construct(o) \/ ConstructOpen(o)

MoveConstruct(o, from) ==
  /\ ~Exists(o) /\ Exists(from)
  /\ holds' = [holds EXCEPT ![o] = holds[from], ![from] = Invalid]
  /\ UNCHANGED <<open, lost>>

\* operator= closes what the object holds and takes the other's number.  It
\* does not look for an assignment to itself, which nobody writes: the
\* socket would keep the number it has just closed.
MoveAssign(o, from) ==
  /\ Exists(o) /\ Exists(from) /\ o # from
  /\ open' = open \ {holds[o]}
  /\ holds' = [holds EXCEPT ![o] = holds[from], ![from] = Invalid]
  /\ UNCHANGED lost

Destroy(o) ==
  /\ Exists(o)
  /\ holds' = [holds EXCEPT ![o] = Absent]
  /\ open' = open \ {holds[o]}
  /\ UNCHANGED lost

\* create and thread::begin open a number and store it over the old one,
\* which stays open without an owner.
Create(o) ==
  /\ Exists(o)
  /\ \E n \in Numbers \ open :
       /\ holds' = [holds EXCEPT ![o] = n]
       /\ open' = open \union {n}
       /\ lost' = lost \union ({holds[o]} \ {Invalid})

\* A closed object may be closed again: the socket looks first, the handle
\* closes INVALID_HANDLE_VALUE, which the system ignores.
Close(o) ==
  /\ Exists(o)
  /\ holds' = [holds EXCEPT ![o] = Invalid]
  /\ open' = open \ {holds[o]}
  /\ UNCHANGED lost

\* A refused connection, the end of the stream and a reset close the socket
\* inside the call; any other outcome leaves it.
EndInside(s) == Owns(s) /\ Close(s)

Connect(s)       == EndInside(s)   \* refused or timed out
Receive(s)       == EndInside(s)   \* the stream ended or was reset
ReceiveBuffer(s) == EndInside(s)   \* reset
Send(s)          == EndInside(s)   \* reset
SendBuffer(s)    == EndInside(s)   \* reset

-----------------------------------------------------------------------------
(* library::handle and the classes made from it do what a socket does.      *)
(* A handle closes without looking at what it holds; closing                *)
(* INVALID_HANDLE_VALUE changes nothing.                                    *)

HandleMoveConstruct(o, from) == MoveConstruct(o, from)
HandleMoveAssign(o, from)    == MoveAssign(o, from)
HandleDestroy(o)             == Destroy(o)
HandleClose(o)               == Close(o)

StartThread(o)    == ConstructOpen(o)
BeginThread(o)    == Create(o)
ConstructPort(o)  == ConstructOpen(o)
CreatePort(o)     == Create(o)
ConstructEvent(o) == ConstructOpen(o)
CreateEvent(o)    == Create(o)

\* The handle of the own process is INVALID_HANDLE_VALUE.
ConstructProcess(o) == Construct(o)
OpenToken(process, o) == Exists(process) /\ ConstructOpen(o)

-----------------------------------------------------------------------------

Next ==
  \/ \E o \in Objects : Construct(o)
  \/ \E s \in Sockets :
       \/ ConstructOpen(s) \/ Destroy(s) \/ Create(s) \/ Close(s)
       \/ Connect(s) \/ Receive(s) \/ ReceiveBuffer(s) \/ Send(s) \/ SendBuffer(s)
       \/ \E t \in Sockets : Accept(s, t) \/ MoveConstruct(s, t) \/ MoveAssign(s, t)
  \/ \E o \in Others :
       \/ StartThread(o) \/ BeginThread(o) \/ ConstructPort(o) \/ CreatePort(o)
       \/ ConstructEvent(o) \/ CreateEvent(o) \/ ConstructProcess(o)
       \/ HandleDestroy(o) \/ HandleClose(o)
       \/ \E from \in Others :
            OpenToken(from, o) \/ HandleMoveConstruct(o, from) \/ HandleMoveAssign(o, from)

-----------------------------------------------------------------------------

\* Every number an object holds is open, no two objects hold the same one, and
\* nothing stays open without an owner but what create and begin overwrite: a
\* socket is closed once, by the object that got it last.
OwnedOnce ==
  /\ TypeOK
  /\ \A o \in Objects : Owns(o) => holds[o] \in open \ lost
  /\ \A o, p \in Objects : Owns(o) /\ holds[o] = holds[p] => o = p
  /\ open \ lost = {holds[o] : o \in {p \in Objects : Owns(p)}}

=============================================================================
