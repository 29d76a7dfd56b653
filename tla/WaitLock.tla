------------------------------ MODULE WaitLock ------------------------------
(***************************************************************************)
(* library::wait_on_address_lock and library::spin_lock (library/lock.h).   *)
(* Both take the lock by an interlocked exchange; the first sleeps in       *)
(* WaitOnAddress when it fails, the second tries again.                     *)
(*                                                                          *)
(* WaitOnAddress (external) compares the word with 1 and goes to sleep in   *)
(* one step, or returns at once; it may also return for no reason.          *)
(* WakeByAddressSingle (external) wakes one sleeper, if there is one.       *)
(***************************************************************************)
EXTENDS Naturals, FiniteSets

CONSTANT Threads

WaitLockAssumption == IsFiniteSet(Threads)

VARIABLES
  sleeps,    \* TRUE: wait_on_address_lock, FALSE: spin_lock; fixed at the start
  address,   \* _address, or _lock of the spin lock
  pc

vars == <<sleeps, address, pc>>

PCs == {"idle", "load", "exchange", "wait", "asleep", "inside", "wake"}

TypeOK ==
  /\ sleeps \in BOOLEAN
  /\ address \in {0, 1}
  /\ pc \in [Threads -> PCs]

Goto(t, label) == pc' = [pc EXCEPT ![t] = label]

Init ==
  /\ sleeps \in BOOLEAN
  /\ address = 0
  /\ pc = [t \in Threads |-> "idle"]

Lock(t) ==
  /\ pc[t] = "idle"
  /\ Goto(t, "load")
  /\ UNCHANGED <<sleeps, address>>

Again == IF sleeps THEN "wait" ELSE "load"

LockLoad(t) ==
  /\ pc[t] = "load"
  /\ Goto(t, IF address = 1 THEN Again ELSE "exchange")
  /\ UNCHANGED <<sleeps, address>>

LockExchange(t) ==
  /\ pc[t] = "exchange"
  /\ address' = 1
  /\ Goto(t, IF address = 1 THEN Again ELSE "inside")
  /\ UNCHANGED sleeps

WaitBlind(t) ==
  /\ pc[t] = "wait"
  /\ Goto(t, "asleep")
  /\ UNCHANGED <<sleeps, address>>

Wait(t) ==
  /\ pc[t] = "wait"
  /\ Goto(t, IF address = 1 THEN "asleep" ELSE "load")
  /\ UNCHANGED <<sleeps, address>>

WakeUp(t) ==
  /\ pc[t] = "asleep"
  /\ Goto(t, "load")
  /\ UNCHANGED <<sleeps, address>>

Unlock(t) ==
  /\ pc[t] = "inside"
  /\ address' = 0
  /\ Goto(t, IF sleeps THEN "wake" ELSE "idle")
  /\ UNCHANGED sleeps

Sleepers == {t \in Threads : pc[t] = "asleep"}

UnlockWake(t) ==
  /\ pc[t] = "wake"
  /\ IF Sleepers = {}
     THEN Goto(t, "idle")
     ELSE \E u \in Sleepers : pc' = [pc EXCEPT ![t] = "idle", ![u] = "load"]
  /\ UNCHANGED <<sleeps, address>>

Step(t) == LockLoad(t) \/ LockExchange(t) \/ Wait(t) \/ Unlock(t) \/ UnlockWake(t)

Next == \E t \in Threads : Lock(t) \/ WakeUp(t) \/ Step(t)

\* A thread that is awake keeps running and leaves the section it is inside;
\* nobody may count on waking up for no reason.
Spec == Init /\ [][Next]_vars /\ \A t \in Threads : WF_vars(Step(t))

-----------------------------------------------------------------------------

\* The lock is a lock, and it is taken exactly while one thread is inside.
MutualExclusion ==
  /\ TypeOK
  /\ Cardinality({t \in Threads : pc[t] = "inside"}) = address

\* A sleeper never depends on luck: while somebody sleeps, the lock is taken
\* by a thread that will wake one, or a thread is about to wake one, or a
\* thread is awake that will take the lock and wake one afterwards.
NoLostWakeup ==
  Sleepers # {} =>
    \/ address = 1
    \/ \E t \in Threads : pc[t] \in {"load", "exchange", "wait", "wake"}

\* Somebody who wants the lock gets it: the threads as a whole do not stall.
SomebodyEnters ==
  (\E t \in Threads : pc[t] # "idle") ~> (\E t \in Threads : pc[t] = "inside")
                                         \/ (\A t \in Threads : pc[t] = "idle")

=============================================================================
