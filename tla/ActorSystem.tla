---------------------------- MODULE ActorSystem ----------------------------
(***************************************************************************)
(* actor::system, actor::entity and actor::wait (library/iocp/actor): each  *)
(* entity is a coroutine, entity_loop, that drains the entity's mail queue  *)
(* and is resumed by a task posted to the iocp::scheduler.  A flag lets one *)
(* thread alone post or run it, and the poster's reference to the entity    *)
(* travels with the task.                                                   *)
(*                                                                          *)
(* The arena is taken at the level of its handle table (module Arena):      *)
(* acquire and release are one step each and a stale handle is refused.     *)
(* The queue is taken at the level of its head and its length (module       *)
(* LockfreeQueue): emplace is one step; pop, whose store to the head is     *)
(* plain, is two; empty(), which threads that do not own the queue call     *)
(* too, is two, and its second read may meet a node that was popped         *)
(* meanwhile and may by now belong to another queue.                        *)
(***************************************************************************)
EXTENDS Naturals, Sequences, FiniteSets

CONSTANTS
  Entities,
  Threads,     \* scheduler workers and callers alike
  None,
  MailLimit    \* mails an entity is sent in a run

ASSUME ActorSystemAssumption ==
  /\ None \notin Entities
  /\ MailLimit \in Nat
  /\ IsFiniteSet(Threads)

VARIABLES
  count,      \* references to the entity, attach's own included
  attached,   \* whether attach's own reference is still counted (history)
  deleted,    \* entities whose _deleter has run
  destroy,    \* _destroy_flag
  flag,       \* _queue_flag
  accepted,   \* mails emplaced in _queue so far
  head,       \* mails popped from _queue so far
  taken,      \* numbers of the mails given to entity_mailbox (history)
  posted,     \* tasks of the entity in the scheduler's completion port
  loop,       \* where the coroutine entity_loop is suspended, if it is
  pc,
  run,        \* the entity whose entity_loop the thread is executing
  target,     \* the entity of the thread's current call
  inwait,     \* whether that call is wait::await_suspend
  pos         \* the head a thread has read

entityVars == <<count, attached, deleted, destroy, flag, accepted, head, taken, posted, loop>>
threadVars == <<pc, run, target, inwait, pos>>
vars       == <<entityVars, threadVars>>

Deciding == {"ready_destroy", "empty_load", "empty_read", "ready_exchange", "release"}
Calling  == {"emplace", "destroy_set", "post"} \union Deciding
Running  == {"finish", "check", "drain", "pop_load", "pop_store", "mailbox", "retire"}

Loops == {"absent", "initial", "waiting", "running", "mailbox", "done"}

TypeOK ==
  /\ count \in [Entities -> Nat]
  /\ attached \subseteq Entities
  /\ deleted \subseteq Entities
  /\ destroy \in [Entities -> BOOLEAN]
  /\ flag \in [Entities -> BOOLEAN]
  /\ accepted \in [Entities -> Nat]
  /\ head \in [Entities -> Nat]
  /\ taken \in [Entities -> Seq(Nat)]
  /\ posted \in [Entities -> Nat]
  /\ loop \in [Entities -> Loops]
  /\ pc \in [Threads -> {"idle", "broken"} \union Calling \union Running]
  /\ run \in [Threads -> Entities \union {None}]
  /\ target \in [Threads -> Entities \union {None}]
  /\ inwait \in [Threads -> BOOLEAN]
  /\ pos \in [Threads -> Nat]

-----------------------------------------------------------------------------

Goto(t, label) == pc' = [pc EXCEPT ![t] = label]

\* A call returns to the mailbox that made it, or to the code of a thread
\* that runs no entity; the locals of the call end.
Return(t) ==
  /\ Goto(t, IF run[t] = None THEN "idle" ELSE "mailbox")
  /\ target' = [target EXCEPT ![t] = None]
  /\ inwait' = [inwait EXCEPT ![t] = FALSE]
  /\ pos' = [pos EXCEPT ![t] = 0]

Init ==
  /\ count = [e \in Entities |-> 0]
  /\ attached = {}
  /\ deleted = {}
  /\ destroy = [e \in Entities |-> FALSE]
  /\ flag = [e \in Entities |-> FALSE]
  /\ accepted = [e \in Entities |-> 0]
  /\ head = [e \in Entities |-> 0]
  /\ taken = [e \in Entities |-> <<>>]
  /\ posted = [e \in Entities |-> 0]
  /\ loop = [e \in Entities |-> "absent"]
  /\ pc = [t \in Threads |-> "idle"]
  /\ run = [t \in Threads |-> None]
  /\ target = [t \in Threads |-> None]
  /\ inwait = [t \in Threads |-> FALSE]
  /\ pos = [t \in Threads |-> 0]

\* entity_attach: the handle is known to others only after it has returned.
Attach(t, e) ==
  /\ pc[t] \in {"idle", "mailbox"}
  /\ loop[e] = "absent"
  /\ loop' = [loop EXCEPT ![e] = "initial"]
  /\ count' = [count EXCEPT ![e] = 1]
  /\ attached' = attached \union {e}
  /\ UNCHANGED <<deleted, destroy, flag, accepted, head, taken, posted, threadVars>>

\* node.acquire(handle) at the start of a call that then goes on to label; a
\* call whose handle is refused leaves no trace.
Acquire(t, e, label) ==
  /\ pc[t] \in {"idle", "mailbox"}
  /\ loop[e] # "absent"
  /\ e \notin deleted
  /\ count' = [count EXCEPT ![e] = @ + 1]
  /\ target' = [target EXCEPT ![t] = e]
  /\ Goto(t, label)
  /\ UNCHANGED <<attached, deleted, destroy, flag, accepted, head, taken, posted, loop,
                 run, inwait, pos>>

EnqueueAcquire(t, e) == Acquire(t, e, "emplace")
DestroyAcquire(t, e) == Acquire(t, e, "destroy_set")

EnqueueEmplace(t) ==
  /\ pc[t] = "emplace"
  /\ accepted' = [accepted EXCEPT ![target[t]] = @ + 1]
  /\ Goto(t, "ready_destroy")
  /\ UNCHANGED <<count, attached, deleted, destroy, flag, head, taken, posted, loop,
                 run, target, inwait, pos>>

DestroySet(t) ==
  /\ pc[t] = "destroy_set"
  /\ destroy' = [destroy EXCEPT ![target[t]] = TRUE]
  /\ Goto(t, "ready_destroy")
  /\ UNCHANGED <<count, attached, deleted, flag, accepted, head, taken, posted, loop,
                 run, target, inwait, pos>>

\* flag_ready: (_destroy_flag || !_queue.empty()) and then the exchange.
ReadyDestroy(t) ==
  /\ pc[t] = "ready_destroy"
  /\ Goto(t, IF destroy[target[t]] THEN "ready_exchange" ELSE "empty_load")
  /\ UNCHANGED <<entityVars, run, target, inwait, pos>>

EmptyLoad(t) ==
  /\ pc[t] = "empty_load"
  /\ pos' = [pos EXCEPT ![t] = head[target[t]]]
  /\ Goto(t, "empty_read")
  /\ UNCHANGED <<entityVars, run, target, inwait>>

\* The node at the head that was read tells the truth only while it is still
\* the head; once popped it may hold anything.
EmptyRead(t) ==
  /\ pc[t] = "empty_read"
  /\ \E empty \in BOOLEAN :
       /\ pos[t] = head[target[t]] => empty = (pos[t] = accepted[target[t]])
       /\ Goto(t, IF empty THEN "release" ELSE "ready_exchange")
  /\ pos' = [pos EXCEPT ![t] = 0]
  /\ UNCHANGED <<entityVars, run, target, inwait>>

ReadyExchangeLose(t) ==
  /\ pc[t] = "ready_exchange"
  /\ flag[target[t]]
  /\ Goto(t, "release")
  /\ UNCHANGED <<entityVars, run, target, inwait, pos>>

ReadyStore(t) ==
  /\ pc[t] = "ready_exchange"
  /\ flag' = [flag EXCEPT ![target[t]] = TRUE]
  /\ IF inwait[t]
     THEN /\ Goto(t, "check")
          /\ run' = [run EXCEPT ![t] = target[t]]
          /\ target' = [target EXCEPT ![t] = None]
          /\ inwait' = [inwait EXCEPT ![t] = FALSE]
          /\ loop' = [loop EXCEPT ![target[t]] = "running"]
     ELSE /\ Goto(t, "post")
          /\ UNCHANGED <<run, target, inwait, loop>>
  /\ UNCHANGED <<count, attached, deleted, destroy, accepted, head, taken, posted, pos>>

\* A caller that wins posts the entity; wait::await_suspend that wins answers
\* false, and the coroutine goes on without having been suspended.
ReadyExchangeWin(t) ==
  /\ pc[t] = "ready_exchange"
  /\ ~flag[target[t]]
  /\ flag' = [flag EXCEPT ![target[t]] = TRUE]
  /\ IF inwait[t]
     THEN /\ Goto(t, "check")
          /\ run' = [run EXCEPT ![t] = target[t]]
          /\ target' = [target EXCEPT ![t] = None]
          /\ inwait' = [inwait EXCEPT ![t] = FALSE]
          /\ loop' = [loop EXCEPT ![target[t]] = "running"]
     ELSE /\ Goto(t, "post")
          /\ UNCHANGED <<run, target, inwait, loop>>
  /\ UNCHANGED <<count, attached, deleted, destroy, accepted, head, taken, posted, pos>>

PostAndRelease(t) ==
  /\ pc[t] = "post"
  /\ posted' = [posted EXCEPT ![target[t]] = @ + 1]
  /\ Goto(t, "release")
  /\ UNCHANGED <<count, attached, deleted, destroy, flag, accepted, head, taken, loop,
                 run, target, inwait, pos>>

\* scheduler.post: the caller's reference is now the task's.
Post(t) ==
  /\ pc[t] = "post"
  /\ posted' = [posted EXCEPT ![target[t]] = @ + 1]
  /\ Return(t)
  /\ UNCHANGED <<count, attached, deleted, destroy, flag, accepted, head, taken, loop, run>>

\* node.release, then _deleter and arena.deallocate for the last reference.
Release(t) ==
  /\ pc[t] = "release"
  /\ count' = [count EXCEPT ![target[t]] = @ - 1]
  /\ deleted' = IF count[target[t]] = 1 THEN deleted \union {target[t]} ELSE deleted
  /\ Return(t)
  /\ UNCHANGED <<attached, destroy, flag, accepted, head, taken, posted, loop, run>>

\* A worker gets the task and entity::task_execute resumes the coroutine.
Execute(t, e) ==
  /\ pc[t] = "idle"
  /\ posted[e] > 0
  /\ loop[e] \in {"initial", "waiting"}
  /\ posted' = [posted EXCEPT ![e] = @ - 1]
  /\ run' = [run EXCEPT ![t] = e]
  /\ loop' = [loop EXCEPT ![e] = "running"]
  /\ Goto(t, IF loop[e] = "initial" THEN "finish" ELSE "check")
  /\ UNCHANGED <<count, attached, deleted, destroy, flag, accepted, head, taken,
                 target, inwait, pos>>

FinishNoRecheck(t) ==
  /\ pc[t] = "finish"
  /\ flag' = [flag EXCEPT ![run[t]] = FALSE]
  /\ loop' = [loop EXCEPT ![run[t]] = "waiting"]
  /\ target' = [target EXCEPT ![t] = run[t]]
  /\ run' = [run EXCEPT ![t] = None]
  /\ Goto(t, "release")
  /\ UNCHANGED <<count, attached, deleted, destroy, accepted, head, taken, posted, inwait, pos>>

\* co_await wait: the frame is suspended before await_suspend, whose first
\* call is flag_finish, begins; from then on another worker may resume it.
Finish(t) ==
  /\ pc[t] = "finish"
  /\ flag' = [flag EXCEPT ![run[t]] = FALSE]
  /\ loop' = [loop EXCEPT ![run[t]] = "waiting"]
  /\ target' = [target EXCEPT ![t] = run[t]]
  /\ inwait' = [inwait EXCEPT ![t] = TRUE]
  /\ run' = [run EXCEPT ![t] = None]
  /\ Goto(t, "ready_destroy")
  /\ UNCHANGED <<count, attached, deleted, destroy, accepted, head, taken, posted, pos>>

Check(t) ==
  /\ pc[t] = "check"
  /\ Goto(t, IF destroy[run[t]] THEN "retire" ELSE "drain")
  /\ UNCHANGED <<entityVars, run, target, inwait, pos>>

Drain(t) ==
  /\ pc[t] = "drain"
  /\ Goto(t, IF head[run[t]] = accepted[run[t]] THEN "finish" ELSE "pop_load")
  /\ UNCHANGED <<entityVars, run, target, inwait, pos>>

\* pop() stops the program on an empty queue.
PopLoad(t) ==
  /\ pc[t] = "pop_load"
  /\ pos' = [pos EXCEPT ![t] = head[run[t]]]
  /\ Goto(t, IF head[run[t]] = accepted[run[t]] THEN "broken" ELSE "pop_store")
  /\ UNCHANGED <<entityVars, run, target, inwait>>

PopWithoutStore(t) ==
  /\ pc[t] = "pop_store"
  /\ taken' = [taken EXCEPT ![run[t]] = Append(@, pos[t] + 1)]
  /\ pos' = [pos EXCEPT ![t] = 0]
  /\ Goto(t, "mailbox")
  /\ UNCHANGED <<count, attached, deleted, destroy, flag, accepted, head, posted, loop,
                 run, target, inwait>>

PopStore(t) ==
  /\ pc[t] = "pop_store"
  /\ head' = [head EXCEPT ![run[t]] = pos[t] + 1]
  /\ taken' = [taken EXCEPT ![run[t]] = Append(@, pos[t] + 1)]
  /\ pos' = [pos EXCEPT ![t] = 0]
  /\ Goto(t, "mailbox")
  /\ UNCHANGED <<count, attached, deleted, destroy, flag, accepted, posted, loop,
                 run, target, inwait>>

\* entity_mailbox is a coroutine: it may await something else, and another
\* worker then carries on with it.
MailboxSuspend(t) ==
  /\ pc[t] = "mailbox"
  /\ loop' = [loop EXCEPT ![run[t]] = "mailbox"]
  /\ run' = [run EXCEPT ![t] = None]
  /\ Goto(t, "idle")
  /\ UNCHANGED <<count, attached, deleted, destroy, flag, accepted, head, taken, posted,
                 target, inwait, pos>>

MailboxResume(t, e) ==
  /\ pc[t] = "idle"
  /\ loop[e] = "mailbox"
  /\ loop' = [loop EXCEPT ![e] = "running"]
  /\ run' = [run EXCEPT ![t] = e]
  /\ Goto(t, "mailbox")
  /\ UNCHANGED <<count, attached, deleted, destroy, flag, accepted, head, taken, posted,
                 target, inwait, pos>>

\* A mailbox that answers false ends the entity.
MailboxReturn(t) ==
  /\ pc[t] = "mailbox"
  /\ \E label \in {"drain", "retire"} : Goto(t, label)
  /\ UNCHANGED <<entityVars, run, target, inwait, pos>>

RetireKeepsReference(t) ==
  /\ pc[t] = "retire"
  /\ loop' = [loop EXCEPT ![run[t]] = "done"]
  /\ target' = [target EXCEPT ![t] = run[t]]
  /\ run' = [run EXCEPT ![t] = None]
  /\ Goto(t, "release")
  /\ UNCHANGED <<count, attached, deleted, destroy, flag, accepted, head, taken, posted,
                 inwait, pos>>

\* The first release at the end of entity_loop gives up attach's reference,
\* its result ignored; the second, Release, gives up the task's.
Retire(t) ==
  /\ pc[t] = "retire"
  /\ count' = [count EXCEPT ![run[t]] = @ - 1]
  /\ attached' = attached \ {run[t]}
  /\ loop' = [loop EXCEPT ![run[t]] = "done"]
  /\ target' = [target EXCEPT ![t] = run[t]]
  /\ run' = [run EXCEPT ![t] = None]
  /\ Goto(t, "release")
  /\ UNCHANGED <<deleted, destroy, flag, accepted, head, taken, posted, inwait, pos>>

Call(t) ==
  \/ EnqueueEmplace(t) \/ DestroySet(t)
  \/ ReadyDestroy(t) \/ EmptyLoad(t) \/ EmptyRead(t)
  \/ ReadyExchangeLose(t) \/ ReadyExchangeWin(t)
  \/ Post(t) \/ Release(t)

Loop(t) == Finish(t) \/ Check(t) \/ Drain(t) \/ PopLoad(t) \/ PopStore(t) \/ Retire(t)

\* Bounds the mails of a run, those of calls in progress included.
Room(e) ==
  accepted[e] + Cardinality({t \in Threads : pc[t] = "emplace" /\ target[t] = e}) < MailLimit

Next ==
  \E t \in Threads :
    \/ \E e \in Entities :
         \/ Attach(t, e)
         \/ Room(e) /\ EnqueueAcquire(t, e)
         \/ DestroyAcquire(t, e)
         \/ Execute(t, e)
         \/ MailboxResume(t, e)
    \/ Call(t)
    \/ Loop(t)
    \/ MailboxReturn(t)
    \/ MailboxSuspend(t)

Safety == Init /\ [][Next]_vars

\* A thread inside the system keeps running.  The completion port hands out
\* its packets in order, so none is passed over for ever by workers that keep
\* coming back for work.  A mailbox ends, however often it awaits something
\* or calls the system on its way, and what it awaits completes.
Fairness ==
  /\ \A t \in Threads : WF_vars(Call(t) \/ Loop(t))
  /\ \A e \in Entities :
       /\ SF_vars(\E t \in Threads : Execute(t, e))
       /\ SF_vars(\E t \in Threads : MailboxResume(t, e))
       /\ SF_vars(\E t \in Threads : run[t] = e /\ MailboxReturn(t))

Spec == Safety /\ Fairness

-----------------------------------------------------------------------------

One(condition) == IF condition THEN 1 ELSE 0

Runners(e) == {t \in Threads : run[t] = e}
Callers(e) == {t \in Threads : target[t] = e}
Posters(e) == {t \in Callers(e) : pc[t] = "post"}

\* The flag is one token: while it is set exactly one thread, task or
\* suspended mailbox has the right to run the entity, and nobody has it while
\* the flag is clear, although flag_ready is called by any thread at any time
\* and by the coroutine itself after it has given the right up.  A task finds
\* the coroutine suspended where a resume may continue it, even if the thread
\* that suspended it is still inside await_suspend, and the queue's pop for
\* one consumer never meets an empty queue.
OneRunner ==
  /\ \A e \in Entities :
       /\ One(flag[e]) = Cardinality(Runners(e)) + Cardinality(Posters(e)) + posted[e]
                         + One(loop[e] \in {"mailbox", "done"})
       /\ posted[e] > 0 => loop[e] \in {"initial", "waiting"}
  /\ \A t \in Threads : pc[t] # "broken"

\* The reference count is exactly attach's reference and those of the threads
\* in a call, the threads running the entity, its posted task and its
\* suspended mailbox: no reference is lost or dropped twice where a task, a
\* coroutine or a call that posts hands its own over.
CountIsExact ==
  /\ TypeOK
  /\ \A e \in Entities :
       count[e] = One(e \in attached) + Cardinality(Runners(e)) + Cardinality(Callers(e))
                  + posted[e] + One(loop[e] = "mailbox")

\* No thread, task or suspended mailbox refers to an entity that was deleted,
\* and an entity is deleted only after its entity_loop has ended.
UseIsSafe ==
  \A e \in deleted :
    /\ Runners(e) = {} /\ Callers(e) = {}
    /\ posted[e] = 0
    /\ loop[e] = "done"

\* An entity that waits, has no task and is in nobody's call has no mail and
\* was not asked to end: the wakeup of a mail that arrives while the entity
\* is giving up the flag is not lost, not even to a stale answer of empty().
NoLostWakeup ==
  \A e \in Entities :
    loop[e] \in {"initial", "waiting"} /\ posted[e] = 0 /\ Callers(e) = {} =>
      head[e] = accepted[e] /\ ~destroy[e]

\* The right to run an entity is one token: it is a worker's, a posted task's or
\* a suspended mailbox's, never two of these, and while a mail waits or a destroy
\* is due somebody has it or is about to look (actor/system.h:55, :56).
RunnersAreRight == OneRunner /\ NoLostWakeup

\* An entity lives exactly as long as it is counted: the references are those of
\* its users and its token, and nobody uses it after it was deleted
\* (actor/system.h:55, :63).
CountKeepsEntity == CountIsExact /\ UseIsSafe

\* The entities deliver mail as module Mailbox says.
Handling(t) == pc[t] = "mailbox" \/ pc[t] \in Calling
Box == INSTANCE Mailbox WITH
         busy  <- {e \in Entities : loop[e] = "mailbox" \/ \E t \in Runners(e) : Handling(t)},
         asked <- {e \in Entities : destroy[e]},
         ended <- {e \in Entities : loop[e] = "done" \/ \E t \in Runners(e) : pc[t] = "retire"}
ImplementsMailbox == Box!MSpec

\* Every accepted mail is handed to the mailbox unless the entity ends first.
MailIsTaken ==
  \A e \in Entities, n \in 1..MailLimit :
    accepted[e] >= n ~> Len(taken[e]) >= n \/ loop[e] = "done"

\* An entity somebody asked to destroy ends, though it may drain its mail
\* first and though the request may come while it gives up the flag.  It is
\* then deleted, unless callers hold it alive for ever by calls that overlap
\* one another without end.
DestroyEnds ==
  \A e \in Entities :
    /\ destroy[e] ~> loop[e] = "done"
    /\ (destroy[e] ~> e \in deleted) \/ []<>(\E t \in Callers(e) : pc[t] = "destroy_set")

=============================================================================
