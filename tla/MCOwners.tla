------------------------------ MODULE MCOwners ------------------------------
(***************************************************************************)
(* Whoever owns something in library/, for TLC.  The owners do not act on   *)
(* each other: a run takes one kind of them, and the others stay where they *)
(* start.  The pointers that threads share are the extended module; the     *)
(* owners that one thread uses at a time are instances: the pointers with   *)
(* every operation they have, their intrusive twins, the objects that own a *)
(* number of the system, those that own blocks of the heap, and messages    *)
(* and buffers, which own the bytes they hold.                              *)
(***************************************************************************)
EXTENDS SharePointer, Sequences

CONSTANTS
  Sockets, Others, Numbers, Invalid, Absent,
  ShareVars, WeakVars, References, Nobody, NoPointer,
  HookShares, HookWeaks, Hooks, Nil, NoHook, CarryLimit, RaiseLimit,
  Arrays, FreeLists, HeapMemory, Items, ArraySizes, NoMemory, Gone,
  Messages, ByteBuffers, BufferSize, Sizes, Data, NoBytes, NoMessage,
  Fixed, Growing, BufferBytes, HeapBlocks, Octets, Garbage, NoBlock, NoBuffer

VARIABLES
  which,   \* the owners of this run
  holds, open, lost,
  pointers, counts,
  held, hook, life, carried,
  array, cell, items, list, busy, taken,
  message, pool, users, bytes, unread,
  buffer, block, pending

Handle  == INSTANCE Handles
Pointer == INSTANCE Pointers
Hooked  == INSTANCE Hooks
Block   == INSTANCE Blocks
Msg     == INSTANCE Messages
Serial  == INSTANCE Serialize

ASSUME HandlesAssumed  == Handle!HandlesAssumption
ASSUME PointersAssumed == Pointer!PointersAssumption
ASSUME HooksAssumed    == Hooked!HooksAssumption
ASSUME BlocksAssumed   == Block!BlocksAssumption
ASSUME MessagesAssumed == Msg!MessagesAssumption
ASSUME BuffersAssumed  == Serial!SerializeAssumption

handleVars  == <<holds, open, lost>>
pointerVars == <<pointers, counts>>
hookVars    == <<held, hook, life, carried>>
blockVars   == <<array, cell, items, list, busy, taken>>
messageVars == <<message, pool, users, bytes, unread>>
bufferVars  == <<buffer, block, pending>>

OwnersInit ==
  /\ which \in {"SharePointer", "Handles", "Pointers", "Hooks", "Blocks", "Messages", "Serialize"}
  /\ Init /\ (which # "SharePointer" => shares[CHOOSE t \in Threads : TRUE] = 1)
  /\ Handle!Init /\ Pointer!Init /\ Hooked!Init /\ Block!Init
  /\ Msg!Init /\ Serial!Init

OwnersNext ==
  /\ UNCHANGED which
  /\ IF which = "SharePointer" THEN Next ELSE UNCHANGED vars
  /\ IF which = "Handles" THEN Handle!Next ELSE UNCHANGED handleVars
  /\ IF which = "Pointers" THEN Pointer!Next ELSE UNCHANGED pointerVars
  /\ IF which = "Hooks" THEN Hooked!Next ELSE UNCHANGED hookVars
  /\ IF which = "Blocks" THEN Block!Next ELSE UNCHANGED blockVars
  /\ IF which = "Messages" THEN Msg!Next ELSE UNCHANGED messageVars
  /\ IF which = "Serialize" THEN Serial!Next ELSE UNCHANGED bufferVars

ownerVars ==
  <<which, vars, handleVars, pointerVars, hookVars, blockVars, messageVars, bufferVars>>

OwnersSpec == OwnersInit /\ [][OwnersNext]_ownerVars

-----------------------------------------------------------------------------

\* Whatever is owned has the owners that are counted: system handles and heap
\* blocks one, objects under a pointer and bytes under a message as many as their
\* counts say; and nobody but its owner changes what is owned: messages and
\* buffers give back the bytes that were written to them (socket.h:218,
\* array.h:57, pool.h:75, pointer.h:126, :546, iocp/message.h:33, serialize.h:66).
OwnersAreExact ==
  /\ Handle!OwnedOnce
  /\ Block!BlocksHaveOneOwner
  /\ Pointer!CountsAreHolders
  /\ Hooked!HooksAreCounted
  /\ Msg!MessagesKeepBytes
  /\ Serial!BuffersKeepBytes

=============================================================================
