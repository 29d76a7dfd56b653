------------------------------- MODULE Timer -------------------------------
(***************************************************************************)
(* iocp::timer and iocp::sleep (library/iocp/timer.h) over the workers of   *)
(* iocp::scheduler (library/iocp/scheduler.h): sleepers are handed to the   *)
(* thread of the timer through a queue and the word _insert_size, wait in   *)
(* its heap, and are posted to the port when their time has come.  The      *)
(* bodies are compiled in library/iocp.lib.                                 *)
(*                                                                          *)
(* Times are relative to now and stop at zero, which is due; so the clock   *)
(* has no bound, and its 32 bits do not run out between the start of a      *)
(* sleep and its end.  NoEarlyRead, an assumption: the timer is complete     *)
(* before its thread reads _insert_size, although the constructor starts    *)
(* the thread first.                                                        *)
(* WaitOnAddress may return for no reason.                                  *)
(***************************************************************************)
EXTENDS Naturals, SequencesExt

CONSTANTS
  Sleepers,      \* coroutines that sleep, and run in between
  Workers,       \* threads of the scheduler
  Times,         \* milliseconds to sleep
  Infinite, Close, Idle, Waking, Gone

TimerAssumption ==
  /\ IsFiniteSet(Sleepers) /\ IsFiniteSet(Workers)
  /\ Times \subseteq Nat /\ Infinite \notin Nat
  /\ Close \notin Sleepers
  /\ {Idle, Waking, Gone} \intersect Sleepers = {} /\ Idle # Waking /\ Gone \notin {Idle, Waking}

VARIABLES
  place,     \* of a sleeper: "running", "counted", "queued", "popped", "heap", "due",
             \* "posted" or "ended"
  rest,      \* of a sleeper: _time less now
  queue,     \* _insert_queue
  size,      \* _insert_size without its highest bit
  closing,   \* its highest bit, set by the destructor
  thread,    \* of the timer: where it is in execute
  wait,      \* milliseconds of its next wait; what is left of them while it waits
  port,      \* the completion port: sleepers, and Close
  worker,    \* Idle, the sleeper it runs, Waking (late in insert) or Gone
  main       \* destruct of the timer and of the scheduler: "running", "timer", "scheduler", "done"

timerVars == <<place, rest, queue, size, closing, thread, wait, port, worker, main>>

Init ==
  /\ place = [s \in Sleepers |-> "posted"]
  /\ rest = [s \in Sleepers |-> 0]
  /\ queue = <<>> /\ size = 0 /\ closing = FALSE
  /\ thread = "wait" /\ wait = Infinite
  /\ port = SetToSeq(Sleepers)
  /\ worker = [w \in Workers |-> Idle]
  /\ main = "running"

At(where) == {s \in Sleepers : place[s] = where}
Move(s, where) == place' = [place EXCEPT ![s] = where]

-----------------------------------------------------------------------------
(* The workers: scheduler::execute, sleep::task_execute, timer::insert.     *)

Take(w) ==
  /\ worker[w] = Idle /\ port # <<>>
  /\ port' = Tail(port)
  /\ IF Head(port) = Close
     THEN worker' = [worker EXCEPT ![w] = Gone] /\ UNCHANGED place
     ELSE worker' = [worker EXCEPT ![w] = Head(port)] /\ Move(Head(port), "running")
  /\ UNCHANGED <<rest, queue, size, closing, thread, wait, main>>

\* The sleep is made and interlock_increment counts it, ...
Count(w, s, time) ==
  /\ worker[w] = s /\ place[s] = "running"
  /\ rest' = [rest EXCEPT ![s] = time]
  /\ size' = size + 1
  /\ Move(s, "counted")
  /\ UNCHANGED <<queue, closing, thread, wait, port, worker, main>>

\* ... it is put into the queue: from here on another worker may resume it, ...
Emplace(w, s) ==
  /\ worker[w] = s /\ place[s] = "counted"
  /\ queue' = Append(queue, s)
  /\ worker' = [worker EXCEPT ![w] = Waking]
  /\ Move(s, "queued")
  /\ UNCHANGED <<rest, size, closing, thread, wait, port, main>>

\* ... and wake_by_address_single wakes the thread of the timer.
Wake(w) ==
  /\ worker[w] = Waking
  /\ worker' = [worker EXCEPT ![w] = Idle]
  /\ thread' = IF thread = "asleep" THEN "check" ELSE thread
  /\ UNCHANGED <<place, rest, queue, size, closing, wait, port, main>>

End(w, s) ==
  /\ worker[w] = s /\ place[s] = "running"
  /\ worker' = [worker EXCEPT ![w] = Idle]
  /\ Move(s, "ended")
  /\ UNCHANGED <<rest, queue, size, closing, thread, wait, port, main>>

-----------------------------------------------------------------------------
(* The thread of the timer: timer::execute.                                 *)

\* The thread goes to sleep without looking at the word.
WaitBlind ==
  /\ thread = "wait"
  /\ thread' = "asleep"
  /\ UNCHANGED <<place, rest, queue, size, closing, wait, port, worker, main>>

\* wait_on_address(_insert_size, 0, wait)
Wait ==
  /\ thread = "wait"
  /\ thread' = IF size = 0 /\ ~closing THEN "asleep" ELSE "check"
  /\ UNCHANGED <<place, rest, queue, size, closing, wait, port, worker, main>>

WakeUp ==
  /\ thread = "asleep"
  /\ thread' = "check"
  /\ UNCHANGED <<place, rest, queue, size, closing, wait, port, worker, main>>

Timeout == wait = 0 /\ WakeUp

Check ==
  /\ thread = "check"
  /\ thread' = IF closing THEN "gone" ELSE "pop"
  /\ UNCHANGED <<place, rest, queue, size, closing, wait, port, worker, main>>

Pop ==
  /\ thread = "pop" /\ queue # <<>>
  /\ queue' = Tail(queue)
  /\ thread' = "count"
  /\ Move(Head(queue), "popped")
  /\ UNCHANGED <<rest, size, closing, wait, port, worker, main>>

\* interlock_decrement, and into the heap.
Keep ==
  /\ thread = "count"
  /\ size' = size - 1
  /\ thread' = "pop"
  /\ \E s \in At("popped") : Move(s, "heap")
  /\ UNCHANGED <<rest, queue, closing, wait, port, worker, main>>

\* The heap is looked through while the wait of the last round stands.
ReadKeepsWait ==
  /\ thread = "pop" /\ queue = <<>>
  /\ thread' = "post"
  /\ place' = [s \in Sleepers |-> IF place[s] = "heap" /\ rest[s] = 0 THEN "due" ELSE place[s]]
  /\ UNCHANGED <<rest, queue, size, closing, wait, port, worker, main>>

\* The time is read once: what is due at it will be posted, and the first
\* that is not gives the next wait.
Read ==
  /\ thread = "pop" /\ queue = <<>>
  /\ thread' = "post"
  /\ place' = [s \in Sleepers |-> IF place[s] = "heap" /\ rest[s] = 0 THEN "due" ELSE place[s]]
  /\ LET later == {s \in At("heap") : rest[s] > 0}
     IN \/ later = {} /\ wait' = Infinite
        \/ \E s \in later : wait' = rest[s] /\ \A u \in later : rest[s] <= rest[u]
  /\ UNCHANGED <<rest, queue, size, closing, port, worker, main>>

\* The heap is ordered by the time; of those that are due any may be first here.
Post ==
  /\ thread = "post"
  /\ \/ /\ At("due") = {}
        /\ thread' = "wait" /\ UNCHANGED <<place, port>>
     \/ \E s \in At("due") :
          port' = Append(port, s) /\ Move(s, "posted") /\ UNCHANGED thread
  /\ UNCHANGED <<rest, queue, size, closing, wait, worker, main>>

-----------------------------------------------------------------------------

Less(t) == IF t \in {0, Infinite} THEN t ELSE t - 1

Elapse ==
  /\ rest' = [s \in Sleepers |-> Less(rest[s])]
  /\ wait' = IF thread = "asleep" THEN Less(wait) ELSE wait
  /\ UNCHANGED <<place, queue, size, closing, thread, port, worker, main>>

\* The program destructs the timer when its loops have ended: the highest bit
\* is set, ...
DestructTimer ==
  /\ main = "running" /\ At("ended") = Sleepers
  /\ closing' = TRUE
  /\ main' = "closing"
  /\ UNCHANGED <<place, rest, queue, size, thread, wait, port, worker>>

\* ... wake_by_address_all wakes the thread, which is waited for; ...
WakeAll ==
  /\ main = "closing"
  /\ thread' = IF thread = "asleep" THEN "check" ELSE thread
  /\ main' = "timer"
  /\ UNCHANGED <<place, rest, queue, size, closing, wait, port, worker>>

\* ... then the scheduler posts one Close for every worker ...
DestructScheduler ==
  /\ main = "timer" /\ thread = "gone"
  /\ port' = port \o [i \in 1 .. Cardinality(Workers) |-> Close]
  /\ main' = "scheduler"
  /\ UNCHANGED <<place, rest, queue, size, closing, thread, wait, worker>>

\* ... and waits for them.
Join ==
  /\ main = "scheduler" /\ \A w \in Workers : worker[w] = Gone
  /\ main' = "done"
  /\ UNCHANGED <<place, rest, queue, size, closing, thread, wait, port, worker>>

WorkerStep(w) ==
  \/ Take(w) \/ Wake(w)
  \/ \E s \in Sleepers : Emplace(w, s) \/ End(w, s) \/ \E time \in Times : Count(w, s, time)
ThreadStep == Wait \/ Timeout \/ Check \/ Pop \/ Keep \/ Read \/ Post
MainStep == WakeAll \/ DestructScheduler \/ Join

Next == \/ \E w \in Workers : WorkerStep(w)
        \/ ThreadStep \/ WakeUp \/ Elapse
        \/ DestructTimer \/ MainStep

\* Threads that are awake run on, coroutines sleep or end, and time passes.
Fairness ==
  /\ \A w \in Workers : WF_timerVars(WorkerStep(w))
  /\ WF_timerVars(ThreadStep) /\ WF_timerVars(MainStep) /\ WF_timerVars(Elapse)

Spec == Init /\ [][Next]_timerVars /\ Fairness

-----------------------------------------------------------------------------

\* Every sleeper is at one place, which its words and queues agree on, and none
\* is posted before its time.  While the thread of the timer sleeps, a sleeper
\* in the queue has a worker that will wake the thread, and its wait ends
\* exactly if there is somebody in the heap to wake (iocp/timer.h 21-40).
SleepersAreKept ==
  /\ IsInjective(queue) /\ ToSet(queue) = At("queued")
  /\ size = Cardinality(At("counted") \union At("queued") \union At("popped"))
  /\ \A i, j \in DOMAIN port : port[i] = port[j] /\ i # j => port[i] = Close
  /\ ToSet(port) \ {Close} = At("posted")
  /\ \A s \in Sleepers :
       /\ Cardinality({w \in Workers : worker[w] = s})
            = (IF place[s] \in {"running", "counted"} THEN 1 ELSE 0)
       /\ place[s] \in {"due", "posted", "running"} => rest[s] = 0
  /\ thread = "asleep" =>
       /\ queue # <<>> => \E w \in Workers : worker[w] = Waking
       /\ At("popped") \union At("due") = {}
       /\ wait = Infinite <=> At("heap") = {}
       /\ closing => main = "closing"

\* A coroutine that sleeps goes on, and the timer and the scheduler end when
\* they are told to (iocp/timer.h 21-40, iocp/scheduler.h 32-56).
SleepersWake ==
  /\ \A s \in Sleepers : place[s] = "counted" ~> place[s] = "running"
  /\ closing ~> main = "done"

=============================================================================
