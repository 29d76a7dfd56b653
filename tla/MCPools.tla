------------------------------ MODULE MCPools ------------------------------
(***************************************************************************)
(* The pools of library/pool.h for TLC.  They do not act on each other: a   *)
(* run takes one of them, and the other stays where it starts.  The shared  *)
(* stacks are the extended module; two nodes are enough for a node to leave *)
(* the stack and come back on another successor, three threads for one that *)
(* sleeps meanwhile and two that disagree.  The pool of every thread is an  *)
(* instance; two chunks of two nodes let one of two threads fill a list     *)
(* twice over, so that it splits.                                           *)
(***************************************************************************)
EXTENDS LockfreePool, TLC

CONSTANTS LocalThreads, BucketSize, Chunks, NoNode

VARIABLES
  which,   \* the pool of this run
  chunks, links, stack, heads, sizes, break, used

Local == INSTANCE ThreadLocalPool
           WITH Threads <- LocalThreads, Null <- NoNode,
                next <- links, head <- heads, size <- sizes

ASSUME LocalAssumed == Local!ThreadLocalPoolAssumption

localVars == <<chunks, links, stack, heads, sizes, break, used>>

PoolsInit ==
  /\ which \in {"LockfreePool", "ThreadLocalPool"}
  /\ Init /\ (which # "LockfreePool" => class = "fixed_pool")
  /\ Local!Init

PoolsNext ==
  /\ UNCHANGED which
  /\ IF which = "LockfreePool" THEN Next ELSE UNCHANGED vars
  /\ IF which = "ThreadLocalPool" THEN Local!Next ELSE UNCHANGED localVars

PoolsSpec == PoolsInit /\ [][PoolsNext]_<<which, vars, localVars>>

Symmetry == Permutations(Threads) \union Permutations(LocalThreads)

-----------------------------------------------------------------------------

\* No node is lost or given twice on its way between the threads' lists, the
\* buckets and the chunks, and the next full bucket will be cut off where it
\* should (pool.h:388, :484).
NodesAreKept == Local!NodesAreKept

=============================================================================
