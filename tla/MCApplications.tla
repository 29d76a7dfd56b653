--------------------------- MODULE MCApplications ---------------------------
(***************************************************************************)
(* The applications, each aspect on a small instance: the rounds of the     *)
(* echo client, the end of a program, the frames of the coroutines both are *)
(* written with, and the timer these sleep by.  They do not act on each     *)
(* other: a run takes one of them, and the others stay where they start.    *)
(* The echo client is the extended one, the others are instances.           *)
(***************************************************************************)
EXTENDS EchoDummy

CONSTANTS Frames, Main, NoParent, ForkLimit, Waker, Monitors, Slots,
          Sleepers, Workers, Times, Infinite, Close, Idle, Waking, Gone

VARIABLES
  which,   \* the aspect of this run
  status, value, object, owner, start, parent, ready, frees, left, joins, forked,
  loop, stop, stopCount, main, loaded, scanned, dummy, sessions, told, halted,
  place, rest, queue, size, closing, thread, wait, port, worker, destruct

Frame  == INSTANCE Coroutine
Ending == INSTANCE Shutdown WITH session <- sessions
Clock  == INSTANCE Timer WITH main <- destruct

ASSUME ApplicationsAssumption ==
  /\ EchoDummyAssumption
  /\ Frame!CoroutineAssumption /\ Ending!ShutdownAssumption /\ Clock!TimerAssumption

frameVars == <<status, value, object, owner, start, parent, ready, frees, left, joins, forked>>
endingVars == <<loop, stop, stopCount, main, loaded, scanned, dummy, sessions, told, halted>>
clockVars == <<place, rest, queue, size, closing, thread, wait, port, worker, destruct>>
applicationVars == <<which, dummyVars, frameVars, endingVars, clockVars>>

ApplicationsInit ==
  /\ which \in {"EchoDummy", "Coroutine", "Shutdown", "Timer"}
  /\ Init /\ Frame!Init /\ Ending!Init /\ Clock!Init

ApplicationsNext ==
  /\ UNCHANGED which
  /\ IF which = "EchoDummy" THEN Next ELSE UNCHANGED dummyVars
  /\ IF which = "Coroutine" THEN Frame!Next ELSE UNCHANGED frameVars
  /\ IF which = "Shutdown" THEN Ending!Next ELSE UNCHANGED endingVars
  /\ IF which = "Timer" THEN Clock!Next ELSE UNCHANGED clockVars

\* The fairness of the echo client, the end and the timer; of a coroutine nothing is
\* said that needs it.  The client's is met where it stays where it starts.
ApplicationsSpec ==
  /\ ApplicationsInit /\ [][ApplicationsNext]_applicationVars
  /\ Fairness
  /\ WF_endingVars(which = "Shutdown" /\ ~halted /\ Ending!MainStep)
  /\ \A l \in Ending!Loops : WF_endingVars(which = "Shutdown" /\ ~halted /\ Ending!LoopStep(l))
  /\ \A s \in Slots : WF_endingVars(which = "Shutdown" /\ ~halted /\ Ending!End(s))
  /\ \A w \in Workers : WF_clockVars(which = "Timer" /\ Clock!WorkerStep(w))
  /\ WF_clockVars(which = "Timer" /\ Clock!ThreadStep)
  /\ WF_clockVars(which = "Timer" /\ Clock!MainStep)
  /\ WF_clockVars(which = "Timer" /\ Clock!Elapse)

-----------------------------------------------------------------------------

\* A frame is freed once, at its end, and whoever waits is woken by one frame;
\* a fork goes on once, after all its joins (promise.h:85, iocp/lock.h:48).
FramesEndOnce == which = "Coroutine" => Frame!FramesEndOnce

\* When the destructor of an application leaves its wait, no loop runs any
\* more, and when it is through every session it cancelled has ended
\* (echo-dummy/application.cpp:14, :74).
LoopsEndFirst == which = "Shutdown" => Ending!LoopsEndFirst

\* A program that is told to end does, or stops in the breakpoint of a session that
\* ended under its dummy (echo-dummy/application.cpp:14, session.cpp:8, dummy.cpp:66).
ShutdownEnds == which = "Shutdown" => Ending!ShutdownEnds

\* A sleeper is at one place, is not posted before its time, and the thread of
\* the timer does not sleep while one waits in the queue (iocp/timer.h:21).
SleepersAreKept == which = "Timer" => Clock!SleepersAreKept

\* A coroutine that sleeps goes on, and the timer and the scheduler end
\* (iocp/timer.h:21, iocp/scheduler.h:32).
SleepersWake == which = "Timer" => Clock!SleepersWake

=============================================================================
