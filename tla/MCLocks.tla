------------------------------ MODULE MCLocks ------------------------------
(***************************************************************************)
(* The locks of library/lock.h and of library/iocp/lock.h, each on a small  *)
(* instance.  They do not act on each other: a run takes one of them, and   *)
(* the others stay where they start.  The lock of threads is the extended   *)
(* one, the sequence lock and the lock of coroutines are instances.         *)
(***************************************************************************)
EXTENDS WaitLock, Sequences

CONSTANTS Words, Readers, WriteLimit, Coroutines, MutexCount, Requests, RoundLimit

Alone(m)  == [mutex |-> m, mode |-> "exclude"]
Shared(m) == [mutex |-> m, mode |-> "share"]

\* Two mutexes at once in either order and either mode, and one of them.
TwoMutexes == {<<Alone(2), Alone(1)>>, <<Shared(1)>>, <<Alone(2)>>, <<Shared(1), Shared(2)>>}

VARIABLES
  which,   \* the lock of this run
  sequence, data, writing, round, inside, reading, start, copied, copy,
  spin, exclusive, shared, waiter, proxy, dependency, stage, taking, spun, granted, woken, rounds

Sequenced == INSTANCE SeqLock WITH pc <- reading
Suspending == INSTANCE CoroutineLock

ASSUME WaitLockAssumed == WaitLockAssumption
ASSUME Sequenced!SeqLockAssumption
ASSUME SuspendingAssumed == Suspending!CoroutineLockAssumption

sequencedVars == <<sequence, data, writing, round, inside, reading, start, copied, copy>>
suspendingVars ==
  <<spin, exclusive, shared, waiter, proxy, dependency, stage, taking, spun, granted, woken, rounds>>
locksVars == <<which, vars, sequencedVars, suspendingVars>>

LocksInit ==
  /\ which \in {"WaitLock", "SeqLock", "CoroutineLock"}
  /\ Init /\ (which # "WaitLock" => sleeps)
  /\ Sequenced!Init
  /\ Suspending!Init

LocksNext ==
  /\ UNCHANGED which
  /\ IF which = "WaitLock" THEN Next ELSE UNCHANGED vars
  /\ IF which = "SeqLock" THEN Sequenced!Next ELSE UNCHANGED sequencedVars
  /\ IF which = "CoroutineLock" THEN Suspending!Next ELSE UNCHANGED suspendingVars

\* The fairness of each of the locks.
LocksSpec ==
  /\ LocksInit /\ [][LocksNext]_locksVars
  /\ \A t \in Threads : WF_vars(which = "WaitLock" /\ Step(t))
  /\ WF_sequencedVars(/\ which = "SeqLock"
                      /\ (\E w \in Words : Sequenced!WriteWord(w)) \/ Sequenced!WriteEnd)
  /\ \A r \in Readers : WF_sequencedVars(which = "SeqLock" /\ Sequenced!Read(r))
  /\ \A c \in Coroutines :
       /\ WF_suspendingVars(which = "CoroutineLock" /\ Suspending!Step(c))
       /\ WF_suspendingVars(which = "CoroutineLock" /\ Suspending!LetGo(c))

-----------------------------------------------------------------------------

\* What a lock of threads guards is whole: one thread at a time is inside the
\* lock, and a thread that sleeps does not depend on luck to be woken; what
\* read_end of the sequence lock accepts is one group of counters, the latest
\* complete one (lock.h:9, :31, :62).
GuardedIsWhole ==
  /\ which = "WaitLock" => MutualExclusion /\ NoLostWakeup
  /\ which = "SeqLock" => Sequenced!AcceptedIsCurrent

\* The threads at a lock do not stall: somebody enters, and every reader of the
\* sequence lock accepts a copy again and again once the writer pauses
\* (lock.h:31, :62).
ThreadsGetThrough ==
  /\ which = "WaitLock" => SomebodyEnters
  /\ which = "SeqLock" => Sequenced!ReaderGetsThrough

\* A mutex is held as it was asked for and never left free with somebody in
\* its queue; a coroutine waits for what it is queued at (iocp/lock.h:42).
GrantsAreRight == which = "CoroutineLock" => Suspending!GrantsAreRight

\* A coroutine that was suspended gets all it waits for (iocp/lock.h:42).
SuspendedEnters == which = "CoroutineLock" => Suspending!SuspendedEnters

=============================================================================
