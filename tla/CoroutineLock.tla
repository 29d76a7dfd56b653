--------------------------- MODULE CoroutineLock ---------------------------
(***************************************************************************)
(* iocp::lock and iocp::unlock (library/iocp/lock.h; the bodies are in      *)
(* iocp.lib).  A coroutine asks for several mutexes at once, each to itself *)
(* or shared.  await_suspend spins through them in the order of their       *)
(* addresses, takes those it can, queues at the others, and lets go of the  *)
(* spin locks only when it has seen all; the coroutine goes on when nothing *)
(* is left that it waits for.                                               *)
(*                                                                          *)
(* A resumed coroutine destroys its lock object, which the await_suspend    *)
(* that made it may still be reading to let go of the last spin locks: the  *)
(* model keeps the proxies readable until then.                             *)
(***************************************************************************)
EXTENDS Naturals, Sequences, FiniteSets, Functions

CONSTANTS
  Coroutines,
  MutexCount,   \* mutexes are numbered in the order of their addresses
  Requests,     \* what may be asked for: sequences of proxies [mutex, mode]
  RoundLimit    \* times that a coroutine asks in a run

Mutexes == 1 .. MutexCount
Nobody == 0
Proxies == [mutex : Mutexes, mode : {"exclude", "share"}]

\* Nobody asks for a mutex twice at once: such a call would spin for ever on the
\* spin lock it holds itself.
CoroutineLockAssumption ==
  /\ MutexCount \in Nat /\ RoundLimit \in Nat
  /\ IsFiniteSet(Coroutines) /\ Nobody \notin Coroutines
  /\ Requests \subseteq Seq(Proxies)
  /\ \A request \in Requests : \A i, j \in DOMAIN request :
       request[i].mutex = request[j].mutex => i = j

VARIABLES
  spin,         \* who holds _spin of each mutex
  exclusive, shared, waiter,   \* the members of each mutex
  proxy,        \* what each coroutine asks for, in the order it is taken
  dependency,   \* _dependency of its lock object
  stage,        \* of the coroutine
  taking,       \* proxies that await_suspend has seen
  spun,         \* mutexes whose spin lock it still has to let go
  granted,      \* mutexes the coroutine was given (history)
  woken,        \* locks that unlock has taken from a queue and not yet told
  rounds        \* times each coroutine has asked

lockVars == <<spin, exclusive, shared, waiter, proxy, dependency, stage, taking, spun, granted, woken, rounds>>

Init ==
  /\ spin = [m \in Mutexes |-> Nobody]
  /\ exclusive = [m \in Mutexes |-> FALSE]
  /\ shared = [m \in Mutexes |-> 0]
  /\ waiter = [m \in Mutexes |-> <<>>]
  /\ proxy = [c \in Coroutines |-> <<>>]
  /\ dependency = [c \in Coroutines |-> 0]
  /\ stage = [c \in Coroutines |-> "idle"]
  /\ taking = [c \in Coroutines |-> 0]
  /\ spun = [c \in Coroutines |-> {}]
  /\ granted = [c \in Coroutines |-> {}]
  /\ woken = [c \in Coroutines |-> <<>>]
  /\ rounds = [c \in Coroutines |-> 0]

Goto(c, label) == stage' = [stage EXCEPT ![c] = label]

\* The proxies of a request in the order of the addresses of their mutexes.
Sorted(request) ==
  {[i \in DOMAIN request |-> request[order[i]]] :
     order \in {o \in Injection(DOMAIN request, DOMAIN request) :
                 \A i, j \in DOMAIN request : i < j => request[o[i]].mutex <= request[o[j]].mutex}}

\* co_await lock(proxies): the proxies are sorted.
Await(c) ==
  /\ stage[c] = "idle" /\ spun[c] = {}
  /\ rounds[c] < RoundLimit
  /\ rounds' = [rounds EXCEPT ![c] = @ + 1]
  /\ \E request \in Requests : \E order \in Sorted(request) : proxy' = [proxy EXCEPT ![c] = order]
  /\ taking' = [taking EXCEPT ![c] = 0]
  /\ Goto(c, "taking")
  /\ UNCHANGED <<spin, exclusive, shared, waiter, dependency, spun, granted, woken>>

Busy(p) ==
  \/ waiter[p.mutex] # <<>>
  \/ exclusive[p.mutex]
  \/ p.mode = "exclude" /\ shared[p.mutex] # 0

Queue(c, p) ==
  /\ waiter' = [waiter EXCEPT ![p.mutex] = Append(@, [lock |-> c, mode |-> p.mode])]
  /\ dependency' = [dependency EXCEPT ![c] = @ + 1]
  /\ UNCHANGED <<exclusive, shared, granted>>

Grant(c, p) ==
  /\ IF p.mode = "exclude"
     THEN exclusive' = [exclusive EXCEPT ![p.mutex] = TRUE] /\ UNCHANGED shared
     ELSE shared' = [shared EXCEPT ![p.mutex] = @ + 1] /\ UNCHANGED exclusive
  /\ granted' = [granted EXCEPT ![c] = @ \union {p.mutex}]
  /\ UNCHANGED <<waiter, dependency>>

CanTake(c) ==
  /\ stage[c] = "taking" /\ taking[c] < Len(proxy[c])
  /\ spin[proxy[c][taking[c] + 1].mutex] = Nobody

TakeAndRelease(c) ==
  /\ CanTake(c)
  /\ LET p == proxy[c][taking[c] + 1] IN IF Busy(p) THEN Queue(c, p) ELSE Grant(c, p)
  /\ taking' = [taking EXCEPT ![c] = @ + 1]
  /\ UNCHANGED <<rounds, spin, proxy, stage, spun, woken>>

Take(c) ==
  /\ CanTake(c)
  /\ LET p == proxy[c][taking[c] + 1]
     IN /\ spin' = [spin EXCEPT ![p.mutex] = c]
        /\ spun' = [spun EXCEPT ![c] = @ \union {p.mutex}]
        /\ IF Busy(p) THEN Queue(c, p) ELSE Grant(c, p)
  /\ taking' = [taking EXCEPT ![c] = @ + 1]
  /\ UNCHANGED <<rounds, proxy, stage, woken>>

AllSeen(c) ==
  /\ stage[c] = "taking" /\ taking[c] = Len(proxy[c])
  /\ Goto(c, IF dependency[c] = 0 THEN "leaving" ELSE "suspended")
  /\ UNCHANGED <<rounds, spin, exclusive, shared, waiter, proxy, dependency, taking, spun, granted, woken>>

\* The second loop runs on whether the coroutine has been resumed or not.
LetGo(c) ==
  /\ stage[c] # "taking" /\ spun[c] # {}
  /\ LET m == CHOOSE n \in spun[c] : \A o \in spun[c] : n <= o
     IN /\ spin' = [spin EXCEPT ![m] = Nobody]
        /\ spun' = [spun EXCEPT ![c] = @ \ {m}]
  /\ UNCHANGED <<rounds, exclusive, shared, waiter, proxy, dependency, stage, taking, granted, woken>>

\* Nothing to wait for: await_suspend returns false.
Enter(c) ==
  /\ stage[c] = "leaving" /\ spun[c] = {}
  /\ Goto(c, "inside")
  /\ UNCHANGED <<rounds, spin, exclusive, shared, waiter, proxy, dependency, taking, spun, granted, woken>>

StartUnlock(c) ==
  /\ stage[c] = "inside"
  /\ taking' = [taking EXCEPT ![c] = 0]
  /\ Goto(c, "unlocking")
  /\ UNCHANGED <<rounds, spin, exclusive, shared, waiter, proxy, dependency, spun, granted, woken>>

\* Who leaves the queue of a mutex that is free: the first if it wants the
\* mutex to itself, otherwise all that share it up to one that does not.
Leaving(queue) ==
  IF queue = <<>> THEN 0
  ELSE IF queue[1].mode = "exclude" THEN 1
  ELSE LET stops == {i \in DOMAIN queue : queue[i].mode = "exclude"}
       IN IF stops = {} THEN Len(queue) ELSE (CHOOSE i \in stops : \A j \in stops : i <= j) - 1

Unlock(c) ==
  /\ stage[c] = "unlocking" /\ woken[c] = <<>> /\ taking[c] < Len(proxy[c])
  /\ LET p == proxy[c][taking[c] + 1]
         m == p.mutex
         free == p.mode = "exclude" \/ shared[m] = 1
         leave == IF free THEN SubSeq(waiter[m], 1, Leaving(waiter[m])) ELSE <<>>
         toOne == leave # <<>> /\ leave[1].mode = "exclude"
     IN /\ spin[m] = Nobody
        /\ exclusive' = [exclusive EXCEPT ![m] = toOne]
        /\ shared' = [shared EXCEPT ![m] =
             (IF p.mode = "share" THEN @ - 1 ELSE @) + (IF toOne THEN 0 ELSE Len(leave))]
        /\ waiter' = [waiter EXCEPT ![m] = SubSeq(@, Len(leave) + 1, Len(@))]
        /\ woken' = [woken EXCEPT ![c] = [i \in DOMAIN leave |-> leave[i].lock]]
        /\ granted' = [d \in Coroutines |->
             IF d = c THEN granted[c] \ {m}
             ELSE IF \E i \in DOMAIN leave : leave[i].lock = d THEN granted[d] \union {m} ELSE granted[d]]
  /\ taking' = [taking EXCEPT ![c] = @ + 1]
  /\ UNCHANGED <<rounds, spin, proxy, dependency, stage, spun>>

\* The last mutex a coroutine waited for posts it to the scheduler.
Tell(c) ==
  /\ stage[c] = "unlocking" /\ woken[c] # <<>>
  /\ LET d == Head(woken[c])
     IN /\ dependency' = [dependency EXCEPT ![d] = @ - 1]
        /\ stage' = IF dependency[d] = 1 THEN [stage EXCEPT ![d] = "inside"] ELSE stage
  /\ woken' = [woken EXCEPT ![c] = Tail(@)]
  /\ UNCHANGED <<rounds, spin, exclusive, shared, waiter, proxy, taking, spun, granted>>

Unlocked(c) ==
  /\ stage[c] = "unlocking" /\ woken[c] = <<>> /\ taking[c] = Len(proxy[c])
  /\ Goto(c, "idle")
  /\ proxy' = [proxy EXCEPT ![c] = <<>>]
  /\ taking' = [taking EXCEPT ![c] = 0]
  /\ UNCHANGED <<rounds, spin, exclusive, shared, waiter, dependency, spun, granted, woken>>

Step(c) ==
  \/ Take(c) \/ AllSeen(c) \/ Enter(c)
  \/ StartUnlock(c) \/ Unlock(c) \/ Tell(c) \/ Unlocked(c)

Next == \E c \in Coroutines : Await(c) \/ Step(c) \/ LetGo(c)

\* A coroutine that may go on does, also out of what it has locked.  A spin
\* lock promises its turn to nobody, so what must happen is stated of
\* coroutines that do not ask without end.
Spec == Init /\ [][Next]_lockVars /\ \A c \in Coroutines : WF_lockVars(Step(c)) /\ WF_lockVars(LetGo(c))

-----------------------------------------------------------------------------

Holders(m, mode) ==
  {c \in Coroutines : m \in granted[c] /\ \E i \in DOMAIN proxy[c] : proxy[c][i] = [mutex |-> m, mode |-> mode]}

Queued(c) == {m \in Mutexes : \E i \in DOMAIN waiter[m] : waiter[m][i].lock = c}
Told(c) == {d \in Coroutines : \E i \in DOMAIN woken[d] : woken[d][i] = c}

\* A mutex is held by one coroutine or shared by those that share it, never
\* left free with somebody in its queue; a coroutine waits for exactly the
\* queues it is in and the news on its way, and is inside only with all it
\* asked for.
GrantsAreRight ==
  /\ \A m \in Mutexes :
       /\ Cardinality(Holders(m, "exclude")) = (IF exclusive[m] THEN 1 ELSE 0)
       /\ Cardinality(Holders(m, "share")) = shared[m]
       /\ ~(exclusive[m] /\ shared[m] > 0)
       /\ waiter[m] # <<>> => exclusive[m] \/ shared[m] > 0
  /\ \A c \in Coroutines :
       /\ dependency[c] = Cardinality(Queued(c)) + Cardinality(Told(c))
       /\ stage[c] = "inside" => granted[c] = {proxy[c][i].mutex : i \in DOMAIN proxy[c]}

\* A coroutine that was suspended gets all it waits for: no circle of
\* coroutines that wait for each other, no wake-up that is lost.
SuspendedEnters == \A c \in Coroutines : stage[c] = "suspended" ~> stage[c] = "inside"

=============================================================================
