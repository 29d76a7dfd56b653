----------------------------- MODULE Coroutine -----------------------------
(***************************************************************************)
(* iocp::coroutine and its promise (library/iocp/promise.h, coroutine.h),   *)
(* and iocp::fork (library/iocp/lock.h): who runs a frame, who goes on when *)
(* it ends or yields, and who frees it.                                     *)
(*                                                                          *)
(* A call makes a frame, which waits, and a coroutine object in the frame   *)
(* of the caller.  The caller awaits the object, once for a void result, as *)
(* often as it likes until the end for a value; or it lets the object go    *)
(* out of scope, which starts the frame on its own.                         *)
(***************************************************************************)
EXTENDS Naturals, FiniteSets

CONSTANTS
  Frames,     \* memory for coroutine frames
  Main,       \* the thread that calls from outside a coroutine
  NoParent,   \* std::noop_coroutine
  ForkLimit   \* joins of a fork

Callers == Frames \union {Main}

CoroutineAssumption == Main \notin Frames /\ NoParent \notin Frames /\ ForkLimit \in Nat

VARIABLES
  status,     \* of every frame, from "none" to "freed"
  value,      \* the result is a value, not void
  object,     \* of every frame: "none", "alive", "dead"
  owner,      \* whose scope the object is in
  start,      \* _start of the object
  parent,     \* _parent of the promise
  ready,      \* frames that were posted to the scheduler
  frees,      \* how often each frame was freed (history)
  left,       \* _count of the fork
  joins,      \* calls of join still to come
  forked      \* "idle", "open", "awaiting", "resumed", "again" (history)

frameVars == <<status, value, object, owner, start, parent, ready, frees>>
forkVars == <<left, joins, forked>>
coroutineVars == <<status, value, object, owner, start, parent, ready, frees, left, joins, forked>>

Init ==
  /\ status = [f \in Frames |-> "none"]
  /\ value = [f \in Frames |-> FALSE]
  /\ object = [f \in Frames |-> "none"]
  /\ owner = [f \in Frames |-> Main]
  /\ start = [f \in Frames |-> FALSE]
  /\ parent = [f \in Frames |-> NoParent]
  /\ ready = {}
  /\ frees = [f \in Frames |-> 0]
  /\ left = 0 /\ joins = 0 /\ forked = "idle"

Runs(c) == IF c = Main THEN TRUE ELSE status[c] = "running"
Holds(c, f) == object[f] = "alive" /\ owner[f] = c

\* initial_suspend always waits.
Call(c, f, isValue) ==
  /\ Runs(c) /\ status[f] = "none"
  /\ status' = [status EXCEPT ![f] = "created"]
  /\ value' = [value EXCEPT ![f] = isValue]
  /\ object' = [object EXCEPT ![f] = "alive"]
  /\ owner' = [owner EXCEPT ![f] = c]
  /\ start' = [start EXCEPT ![f] = TRUE]
  /\ UNCHANGED <<parent, ready, frees>> /\ UNCHANGED forkVars

AutoStart(c, f, enable) ==
  /\ Runs(c) /\ Holds(c, f) /\ status[f] = "created"
  /\ start' = [start EXCEPT ![f] = enable]
  /\ UNCHANGED <<status, value, object, owner, parent, ready, frees>> /\ UNCHANGED forkVars

\* ~coroutine; it asserts a void result when it has to start the frame.
Destruct(c, f) ==
  /\ Runs(c) /\ Holds(c, f)
  /\ object' = [object EXCEPT ![f] = "dead"]
  /\ IF start[f]
     THEN /\ ~value[f]
          /\ parent' = [parent EXCEPT ![f] = NoParent]
          /\ ready' = ready \union {f}
     ELSE UNCHANGED <<parent, ready>>
  /\ UNCHANGED <<status, value, owner, start, frees>> /\ UNCHANGED forkVars

TaskExecute(f) ==
  /\ f \in ready
  /\ ready' = ready \ {f}
  /\ status' = [status EXCEPT ![f] = "running"]
  /\ UNCHANGED <<value, object, owner, start, parent, frees>> /\ UNCHANGED forkVars

AwaitKeepsStart(c, f) ==
  /\ c \in Frames /\ status[c] = "running" /\ Holds(c, f)
  /\ status[f] \in {"created", "yielded"}
  /\ parent' = [parent EXCEPT ![f] = c]
  /\ status' = [status EXCEPT ![c] = "waiting", ![f] = "running"]
  /\ UNCHANGED <<value, object, owner, start, ready, frees>> /\ UNCHANGED forkVars

\* await_suspend: the thread goes on in the frame that is awaited.
AwaitSuspend(c, f) ==
  /\ c \in Frames /\ status[c] = "running" /\ Holds(c, f)
  /\ status[f] \in {"created", "yielded"}
  /\ parent' = [parent EXCEPT ![f] = c]
  /\ start' = [start EXCEPT ![f] = FALSE]
  /\ status' = [status EXCEPT ![c] = "waiting", ![f] = "running"]
  /\ UNCHANGED <<value, object, owner, ready, frees>> /\ UNCHANGED forkVars

\* A frame waits for a timer, a lock or an operation of the system.
Suspend(f) ==
  /\ status[f] = "running"
  /\ status' = [status EXCEPT ![f] = "suspended"]
  /\ UNCHANGED <<value, object, owner, start, parent, ready, frees>> /\ UNCHANGED forkVars

Resume(f) ==
  /\ status[f] = "suspended"
  /\ status' = [status EXCEPT ![f] = "running"]
  /\ UNCHANGED <<value, object, owner, start, parent, ready, frees>> /\ UNCHANGED forkVars

Yield(f) ==
  /\ status[f] = "running" /\ value[f]
  /\ status' = [status EXCEPT ![f] = "yielded", ![parent[f]] = "running"]
  /\ UNCHANGED <<value, object, owner, start, parent, ready, frees>> /\ UNCHANGED forkVars

Freed(f) == frees' = [frees EXCEPT ![f] = @ + 1]

\* The end of the body, after the objects of its scope.  finalize frees a
\* frame that nobody awaits, and otherwise wakes who does.
FinalSuspend(f) ==
  /\ status[f] = "running" /\ \A g \in Frames : ~Holds(f, g)
  /\ IF parent[f] = NoParent
     THEN /\ status' = [status EXCEPT ![f] = "freed"]
          /\ Freed(f)
     ELSE /\ status' = [status EXCEPT ![f] = "final", ![parent[f]] = "resuming"]
          /\ UNCHANGED frees
  /\ UNCHANGED <<value, object, owner, start, parent, ready>> /\ UNCHANGED forkVars

\* await_resume of the parent destroys the frame that is done.
AwaitResume(f) ==
  /\ status[f] = "final"
  /\ status' = [status EXCEPT ![f] = "freed", ![parent[f]] = "running"]
  /\ Freed(f)
  /\ UNCHANGED <<value, object, owner, start, parent, ready>> /\ UNCHANGED forkVars

-----------------------------------------------------------------------------

\* A fork counts the joins and the await itself, in any order.
Fork(n) ==
  /\ forked = "idle"
  /\ left' = n + 1 /\ joins' = n /\ forked' = "open"
  /\ UNCHANGED frameVars

Posted == IF forked = "resumed" THEN "again" ELSE "resumed"

ForkAwaitSuspend ==
  /\ forked = "open"
  /\ left' = left - 1
  /\ forked' = IF left = 1 THEN "resumed" ELSE "awaiting"
  /\ UNCHANGED joins /\ UNCHANGED frameVars

Join ==
  /\ joins > 0
  /\ left' = left - 1 /\ joins' = joins - 1
  /\ forked' = IF left = 1 THEN Posted ELSE forked
  /\ UNCHANGED frameVars

Next ==
  \/ \E c \in Callers, f \in Frames :
       \/ \E isValue \in BOOLEAN : Call(c, f, isValue)
       \/ \E enable \in BOOLEAN : AutoStart(c, f, enable)
       \/ Destruct(c, f) \/ AwaitSuspend(c, f)
  \/ \E f \in Frames :
       TaskExecute(f) \/ Suspend(f) \/ Resume(f) \/ Yield(f) \/ FinalSuspend(f) \/ AwaitResume(f)
  \/ \E n \in 0 .. ForkLimit : Fork(n)
  \/ ForkAwaitSuspend \/ Join

-----------------------------------------------------------------------------

Active == {"running", "waiting", "suspended", "resuming"}

\* A frame is freed once, at its end, and nobody runs it afterwards: who waits
\* has one frame that will wake it, and a frame waits for its own start or for
\* its next await.  The frames that are lost are those let go at a yield and
\* those that were told not to start.  A fork goes on once, after all joins.
FramesEndOnce ==
  /\ \A f \in Frames :
       /\ frees[f] = (IF status[f] = "freed" THEN 1 ELSE 0)
       /\ f \in ready => status[f] = "created" /\ parent[f] = NoParent
       /\ status[f] \in {"waiting", "resuming"} <=>
            \E g \in Frames : parent[g] = f /\ status[g] \in Active \union {"final"}
       /\ Cardinality({g \in Frames : parent[g] = f /\ status[g] \in Active \union {"final"}}) <= 1
       /\ object[f] = "dead" /\ status[f] = "created" /\ start[f] => f \in ready
       /\ status[f] = "yielded" => value[f]
  /\ forked = "resumed" => joins = 0 /\ left = 0
  /\ forked = "awaiting" => joins > 0
  /\ forked # "again"

=============================================================================
