------------------------------ MODULE MCQueues ------------------------------
(***************************************************************************)
(* The queues of library/queue.h for TLC.  They do not act on each other: a *)
(* run takes one of them, and the other stays where it starts.  The queue   *)
(* of many threads is the extended module, with few nodes, which are alike; *)
(* the queue in an array that it goes round is an instance.                 *)
(***************************************************************************)
EXTENDS LockfreeQueue, TLC

CONSTANTS Raw, ReserveCounts, CapacityLimit

VARIABLES
  which,   \* the queue of this run
  capacity, front, rear, array, aborted

Circle == INSTANCE CircleQueue

ASSUME CircleAssumed == Circle!CircleQueueAssumption

circleVars == <<capacity, front, rear, array, aborted>>

QueuesInit ==
  /\ which \in {"LockfreeQueue", "CircleQueue"}
  /\ Init
  /\ Circle!Init

QueuesNext ==
  /\ UNCHANGED which
  /\ IF which = "LockfreeQueue" THEN Next ELSE UNCHANGED vars
  /\ IF which = "CircleQueue" THEN Circle!Next ELSE UNCHANGED circleVars

QueuesSpec == QueuesInit /\ [][QueuesNext]_<<which, vars, circleVars>>

Symmetry == Permutations(Nodes)

-----------------------------------------------------------------------------

\* The circle queue implements Fifo: it gives back what was put in, in order,
\* through every growth and reserve, and its elements are the cells from front
\* to rear and no others (queue.h:313, :350, :369).
CircleImplementsFifo == Circle!ImplementsFifo /\ []Circle!CellsAreWindow

=============================================================================
