------------------------- MODULE ActorSystemProofs -------------------------
(***************************************************************************)
(* The safety of actor::system for any number of entities, threads and      *)
(* mails, and that it implements module Mailbox.  The argument: the flag is *)
(* a token (OneRunner), so whoever runs an entity runs it alone and alone   *)
(* moves the head of its queue; a reference is counted for every thread     *)
(* that names an entity, so an entity whose count reaches zero has ended;   *)
(* and while an entity waits with work to do, some thread is inside         *)
(* flag_ready at a point from which it cannot miss the work.                *)
(***************************************************************************)
EXTENDS ActorSystem, FiniteSetTheorems, TLAPS

\* A thread that executes entity_loop has an entity to run, one in a call has
\* an entity it calls, and an entity that is run is suspended nowhere.
ThreadsAreRight ==
  \A t \in Threads :
    /\ pc[t] # "broken"
    /\ pc[t] \in Running => run[t] # None
    /\ pc[t] = "idle" => run[t] = None
    /\ pc[t] \in Calling <=> target[t] # None
    /\ inwait[t] => pc[t] \in Deciding /\ run[t] = None
    /\ run[t] # None => loop[run[t]] = "running"
    /\ target[t] # None => loop[target[t]] # "absent"

\* Where entity_loop is suspended agrees with attach's reference, with the
\* posted task and with the threads that run it.
LoopIsRight(e) ==
  /\ loop[e] = "absent" => head[e] = accepted[e] /\ ~destroy[e]
  /\ e \in attached <=> loop[e] \notin {"absent", "done"}
  /\ loop[e] = "running" => Runners(e) # {}
  /\ posted[e] > 0 => loop[e] \in {"initial", "waiting"}
  /\ e \in deleted => loop[e] = "done" /\ count[e] = 0

LoopsAreRight == \A e \in Entities : LoopIsRight(e)

\* The token of OneRunner.
Token(e) ==
  One(flag[e]) = Cardinality(Runners(e)) + Cardinality(Posters(e)) + posted[e]
                 + One(loop[e] \in {"mailbox", "done"})

TokenIsOne == \A e \in Entities : Token(e)

\* The queue is popped by the runner alone and never when it is empty.
MailIsRight ==
  /\ \A e \in Entities : head[e] <= accepted[e] /\ Len(taken[e]) = head[e]
  /\ \A t \in Threads :
       /\ pc[t] \in {"pop_load", "pop_store"} => head[run[t]] < accepted[run[t]]
       /\ pc[t] = "pop_store" => pos[t] = head[run[t]]

\* A thread in flag_ready that is going to see the mail or the request.
WillSee(t, e) ==
  /\ target[t] = e
  /\ \/ pc[t] \in {"ready_destroy", "ready_exchange", "post"}
     \/ pc[t] = "empty_load" /\ head[e] < accepted[e]
     \/ pc[t] = "empty_read" /\ head[e] < accepted[e] /\ pos[t] = head[e]

\* An entity that waits with work to do is about to be seen.
Pending(e) ==
  /\ loop[e] \in {"initial", "waiting"}
  /\ posted[e] = 0
  /\ head[e] # accepted[e] \/ destroy[e]
  => \E t \in Threads : WillSee(t, e)

WakeupIsPending == \A e \in Entities : Pending(e)

\* The equation of CountIsExact.
References(e) ==
  count[e] = One(e \in attached) + Cardinality(Runners(e)) + Cardinality(Callers(e))
             + posted[e] + One(loop[e] = "mailbox")

IInv ==
  /\ TypeOK
  /\ ThreadsAreRight
  /\ LoopsAreRight
  /\ TokenIsOne
  /\ CountIsExact
  /\ MailIsRight
  /\ WakeupIsPending

-----------------------------------------------------------------------------

\* The step of one thread.
Move(t) ==
  \/ \E e \in Entities :
       \/ Attach(t, e) \/ EnqueueAcquire(t, e) \/ DestroyAcquire(t, e)
       \/ Execute(t, e) \/ MailboxResume(t, e)
  \/ Call(t) \/ Loop(t) \/ MailboxReturn(t) \/ MailboxSuspend(t)

\* Two sets of threads that agree but for one thread.
LEMMA OneMoved ==
  ASSUME NEW S \in SUBSET Threads, NEW S2 \in SUBSET Threads, NEW t \in Threads,
         \A u \in Threads \ {t} : u \in S <=> u \in S2
  PROVE  /\ Cardinality(S) \in Nat
         /\ Cardinality(S2) \in Nat
         /\ Cardinality(S2) = Cardinality(S) - One(t \in S) + One(t \in S2)
<1>1. IsFiniteSet(S) /\ IsFiniteSet(S2) /\ IsFiniteSet(S \ {t})
  BY ActorSystemAssumption, FS_Subset
<1>2. Cardinality(S) \in Nat /\ Cardinality(S2) \in Nat /\ Cardinality(S \ {t}) \in Nat
  BY <1>1, FS_CardinalityType
<1>3. Cardinality(S \ {t}) = Cardinality(S2 \ {t})
  <2>1. S \ {t} = S2 \ {t}
    OBVIOUS
  <2>2. QED
    BY <2>1
<1>4. Cardinality(S \ {t}) = IF t \in S THEN Cardinality(S) - 1 ELSE Cardinality(S)
  BY <1>1, FS_RemoveElement
<1>5. Cardinality(S2 \ {t}) = IF t \in S2 THEN Cardinality(S2) - 1 ELSE Cardinality(S2)
  BY <1>1, FS_RemoveElement
<1>6. QED
  BY <1>2, <1>3, <1>4, <1>5 DEF One

\* A thread moves itself alone.
LEMMA Frame ==
  ASSUME TypeOK, NEW t \in Threads, Move(t)
  PROVE  \A u \in Threads \ {t} :
           /\ pc'[u] = pc[u] /\ run'[u] = run[u] /\ target'[u] = target[u]
           /\ inwait'[u] = inwait[u] /\ pos'[u] = pos[u]
<1> USE DEF TypeOK, Goto, Return
<1>1. ASSUME NEW e \in Entities,
             Attach(t, e) \/ EnqueueAcquire(t, e) \/ DestroyAcquire(t, e) \/ Execute(t, e)
                          \/ MailboxResume(t, e)
      PROVE  \A u \in Threads \ {t} :
               /\ pc'[u] = pc[u] /\ run'[u] = run[u] /\ target'[u] = target[u]
               /\ inwait'[u] = inwait[u] /\ pos'[u] = pos[u]
  BY <1>1 DEF Attach, EnqueueAcquire, DestroyAcquire, Acquire, Execute, MailboxResume, threadVars
<1>2. CASE Call(t)
  BY <1>2 DEF Call, EnqueueEmplace, DestroySet, ReadyDestroy, EmptyLoad, EmptyRead,
     ReadyExchangeLose, ReadyExchangeWin, Post, Release
<1>3. CASE Loop(t)
  BY <1>3 DEF Loop, Finish, Check, Drain, PopLoad, PopStore, Retire
<1>4. CASE MailboxReturn(t) \/ MailboxSuspend(t)
  BY <1>4 DEF MailboxReturn, MailboxSuspend
<1>5. QED
  BY <1>1, <1>2, <1>3, <1>4 DEF Move

\* What one thread's step does to the numbers of runners, callers and posters
\* of an entity.
LEMMA Moved ==
  ASSUME TypeOK, NEW t \in Threads, Move(t), NEW e \in Entities
  PROVE  /\ Cardinality(Runners(e)) \in Nat
         /\ Cardinality(Callers(e)) \in Nat
         /\ Cardinality(Posters(e)) \in Nat
         /\ Cardinality(Runners(e)') \in Nat
         /\ Cardinality(Callers(e)') \in Nat
         /\ Cardinality(Posters(e)') \in Nat
         /\ Cardinality(Runners(e)') =
              Cardinality(Runners(e)) - One(run[t] = e) + One(run'[t] = e)
         /\ Cardinality(Callers(e)') =
              Cardinality(Callers(e)) - One(target[t] = e) + One(target'[t] = e)
         /\ Cardinality(Posters(e)') =
              Cardinality(Posters(e)) - One(target[t] = e /\ pc[t] = "post")
                                      + One(target'[t] = e /\ pc'[t] = "post")
<1>1. /\ Runners(e) \in SUBSET Threads /\ Runners(e)' \in SUBSET Threads
      /\ \A u \in Threads \ {t} : u \in Runners(e) <=> u \in Runners(e)'
      /\ t \in Runners(e) <=> run[t] = e
      /\ t \in Runners(e)' <=> run'[t] = e
  BY Frame DEF Runners
<1>2. /\ Callers(e) \in SUBSET Threads /\ Callers(e)' \in SUBSET Threads
      /\ \A u \in Threads \ {t} : u \in Callers(e) <=> u \in Callers(e)'
      /\ t \in Callers(e) <=> target[t] = e
      /\ t \in Callers(e)' <=> target'[t] = e
  BY Frame DEF Callers
<1>3. /\ Posters(e) \in SUBSET Threads /\ Posters(e)' \in SUBSET Threads
      /\ \A u \in Threads \ {t} : u \in Posters(e) <=> u \in Posters(e)'
      /\ t \in Posters(e) <=> target[t] = e /\ pc[t] = "post"
      /\ t \in Posters(e)' <=> target'[t] = e /\ pc'[t] = "post"
  BY Frame DEF Posters, Callers
<1>4. /\ Cardinality(Runners(e)) \in Nat
      /\ Cardinality(Runners(e)') \in Nat
      /\ Cardinality(Runners(e)') =
           Cardinality(Runners(e)) - One(t \in Runners(e)) + One(t \in Runners(e)')
  BY <1>1, OneMoved
<1>5. /\ Cardinality(Callers(e)) \in Nat
      /\ Cardinality(Callers(e)') \in Nat
      /\ Cardinality(Callers(e)') =
           Cardinality(Callers(e)) - One(t \in Callers(e)) + One(t \in Callers(e)')
  BY <1>2, OneMoved
<1>6. /\ Cardinality(Posters(e)) \in Nat
      /\ Cardinality(Posters(e)') \in Nat
      /\ Cardinality(Posters(e)') =
           Cardinality(Posters(e)) - One(t \in Posters(e)) + One(t \in Posters(e)')
  BY <1>3, OneMoved
<1>7. QED
  BY <1>1, <1>2, <1>3, <1>4, <1>5, <1>6 DEF One

\* The entity somebody runs, calls or posts.
LEMMA Present ==
  ASSUME TypeOK, NEW t \in Threads, NEW e \in Entities
  PROVE  /\ Cardinality(Runners(e)) \in Nat
         /\ Cardinality(Callers(e)) \in Nat
         /\ Cardinality(Posters(e)) \in Nat
         /\ run[t] = e => Cardinality(Runners(e)) >= 1
         /\ target[t] = e => Cardinality(Callers(e)) >= 1
         /\ target[t] = e /\ pc[t] = "post" => Cardinality(Posters(e)) >= 1
         /\ Cardinality(Runners(e)) = 0 <=> Runners(e) = {}
         /\ Cardinality(Callers(e)) = 0 <=> Callers(e) = {}
         /\ Cardinality(Posters(e)) = 0 <=> Posters(e) = {}
<1>1. IsFiniteSet(Runners(e)) /\ IsFiniteSet(Callers(e)) /\ IsFiniteSet(Posters(e))
  BY ActorSystemAssumption, FS_Subset DEF Runners, Callers, Posters
<1>2. /\ Cardinality(Runners(e)) \in Nat
      /\ Cardinality(Callers(e)) \in Nat
      /\ Cardinality(Posters(e)) \in Nat
      /\ Cardinality(Runners(e)) = 0 <=> Runners(e) = {}
      /\ Cardinality(Callers(e)) = 0 <=> Callers(e) = {}
      /\ Cardinality(Posters(e)) = 0 <=> Posters(e) = {}
  BY <1>1, FS_CardinalityType, FS_EmptySet
<1>3. /\ run[t] = e => Runners(e) # {}
      /\ target[t] = e => Callers(e) # {}
      /\ target[t] = e /\ pc[t] = "post" => Posters(e) # {}
  BY DEF Runners, Callers, Posters
<1>4. QED
  BY <1>2, <1>3

\* Nobody else runs the entity that a thread runs.
LEMMA RunnerIsAlone ==
  ASSUME TypeOK, TokenIsOne, NEW t \in Threads, NEW u \in Threads,
         run[t] \in Entities, run[u] = run[t]
  PROVE  u = t
<1> DEFINE e == run[t]
           R == Runners(e)
<1>1. IsFiniteSet(R) /\ IsFiniteSet(R \ {t}) /\ t \in R /\ u \in R
  BY ActorSystemAssumption, FS_Subset DEF Runners
<1>2. Cardinality(R) <= 1
  <2>1. Cardinality(Runners(e)) \in Nat /\ Cardinality(Posters(e)) \in Nat /\ posted[e] \in Nat
    BY Present DEF TypeOK
  <2>2. One(flag[e]) = Cardinality(Runners(e)) + Cardinality(Posters(e)) + posted[e]
                       + One(loop[e] \in {"mailbox", "done"})
    BY DEF TokenIsOne, Token
  <2>3. One(flag[e]) \in {0, 1} /\ One(loop[e] \in {"mailbox", "done"}) \in {0, 1}
    BY DEF One
  <2>4. QED
    BY <2>1, <2>2, <2>3
<1>3. Cardinality(R \ {t}) = 0
  BY <1>1, <1>2, FS_RemoveElement, FS_CardinalityType
<1>4. QED
  BY <1>1, <1>3, FS_EmptySet

\* The entity that a thread runs or calls is counted, for attach's reference too
\* while entity_loop has not ended.
LEMMA Counted ==
  ASSUME IInv, NEW t \in Threads, NEW e \in Entities
  PROVE  /\ run[t] = e \/ target[t] = e => count[e] >= 1
         /\ run[t] = e => count[e] >= 2
         /\ e \in attached /\ target[t] = e => count[e] >= 2
         /\ count[e] = 1 /\ target[t] = e => loop[e] = "done" /\ posted[e] = 0
<1>1. /\ Cardinality(Runners(e)) \in Nat
      /\ Cardinality(Callers(e)) \in Nat
      /\ posted[e] \in Nat
      /\ run[t] = e => Cardinality(Runners(e)) >= 1
      /\ target[t] = e => Cardinality(Callers(e)) >= 1
  BY Present DEF IInv, TypeOK
<1>2. count[e] = One(e \in attached) + Cardinality(Runners(e)) + Cardinality(Callers(e))
                 + posted[e] + One(loop[e] = "mailbox")
  BY DEF IInv, CountIsExact
<1>3. /\ One(e \in attached) \in {0, 1} /\ One(loop[e] = "mailbox") \in {0, 1}
      /\ e \in attached => One(e \in attached) = 1
  BY DEF One
<1>4. /\ run[t] = e => e \in attached
      /\ e \in attached <=> loop[e] \notin {"absent", "done"}
      /\ target[t] = e => loop[e] # "absent"
  BY ActorSystemAssumption DEF IInv, ThreadsAreRight, LoopsAreRight, LoopIsRight
<1>5. QED
  BY <1>1, <1>2, <1>3, <1>4

\* Types are kept.  The count a call gives back is its own, so it is positive.
LEMMA TypeStep ==
  ASSUME IInv, NEW t \in Threads, Move(t)
  PROVE  TypeOK'
<1> USE DEF IInv, TypeOK, Goto, Return, Loops, Running, Calling, Deciding, entityVars, threadVars
<1>0. (pc[t] \in Running => run[t] \in Entities) /\ (pc[t] \in Calling => target[t] \in Entities)
  BY DEF ThreadsAreRight
<1>1. ASSUME NEW e \in Entities, Attach(t, e) PROVE TypeOK'
  BY <1>1, <1>0 DEF Attach
<1>2. ASSUME NEW e \in Entities, EnqueueAcquire(t, e) PROVE TypeOK'
  BY <1>2, <1>0 DEF EnqueueAcquire, Acquire
<1>3. ASSUME NEW e \in Entities, DestroyAcquire(t, e) PROVE TypeOK'
  BY SMTT(30), <1>3, <1>0 DEF DestroyAcquire, Acquire
<1>4. ASSUME NEW e \in Entities, Execute(t, e) PROVE TypeOK'
  BY <1>4 DEF Execute
<1>5. ASSUME NEW e \in Entities, MailboxResume(t, e) PROVE TypeOK'
  BY <1>5, <1>0 DEF MailboxResume
<1>6. CASE EnqueueEmplace(t)
  BY <1>6, <1>0 DEF EnqueueEmplace
<1>7. CASE DestroySet(t)
  BY <1>7, <1>0 DEF DestroySet
<1>8. CASE ReadyDestroy(t)
  BY <1>8, <1>0 DEF ReadyDestroy
<1>9. CASE EmptyLoad(t)
  BY <1>9, <1>0 DEF EmptyLoad
<1>10. CASE EmptyRead(t)
  BY <1>10, <1>0 DEF EmptyRead
<1>11. CASE ReadyExchangeLose(t)
  BY <1>11, <1>0 DEF ReadyExchangeLose
<1>12. CASE ReadyExchangeWin(t)
  BY ZenonT(30), <1>12, <1>0 DEF ReadyExchangeWin
<1>13. CASE Post(t)
  BY <1>13, <1>0 DEF Post
<1>14. CASE Release(t)
  <2>1. target[t] \in Entities /\ count[target[t]] >= 1
    <3>1. target[t] \in Entities
      BY <1>14 DEF Release, ThreadsAreRight
    <3>2. QED
      BY <3>1, Counted
  <2>2. QED
    BY <1>14, <2>1 DEF Release
<1>15. CASE Finish(t)
  BY <1>15, <1>0 DEF Finish
<1>16. CASE Check(t)
  BY <1>16, <1>0 DEF Check
<1>17. CASE Drain(t)
  BY <1>17, <1>0 DEF Drain
<1>18. CASE PopLoad(t)
  BY <1>18, <1>0 DEF PopLoad
<1>19. CASE PopStore(t)
  BY <1>19, <1>0 DEF PopStore
<1>20. CASE Retire(t)
  <2>1. run[t] \in Entities /\ count[run[t]] >= 1
    <3>1. run[t] \in Entities
      BY <1>20 DEF Retire, ThreadsAreRight
    <3>2. QED
      BY <3>1, Counted
  <2>2. QED
    BY SMTT(30), <1>20, <2>1 DEF Retire
<1>21. CASE MailboxReturn(t)
  BY <1>21, <1>0 DEF MailboxReturn
<1>22. CASE MailboxSuspend(t)
  BY <1>22, <1>0 DEF MailboxSuspend
<1>23. QED
  BY <1>1, <1>2, <1>3, <1>4, <1>5, <1>6, <1>7, <1>8, <1>9, <1>10, <1>11, <1>12,
     <1>13, <1>14, <1>15, <1>16, <1>17, <1>18, <1>19, <1>20, <1>21, <1>22
  DEF Move, Call, Loop
\* A thread that leaves a call or the loop says so in its variables.
LEMMA ThreadsStep ==
  ASSUME IInv, NEW t \in Threads, Move(t)
  PROVE  ThreadsAreRight'
<1> USE DEF IInv, TypeOK, ThreadsAreRight, Goto, Return, Running, Calling, Deciding, entityVars, threadVars
<1>0. None \notin Entities /\ \A u \in Threads : run[t] \in Entities /\ run[u] = run[t] => u = t
  BY ActorSystemAssumption, RunnerIsAlone
<1>1. ASSUME NEW e \in Entities, Attach(t, e) PROVE ThreadsAreRight'
  BY <1>1, <1>0 DEF Attach
<1>2. ASSUME NEW e \in Entities, EnqueueAcquire(t, e) PROVE ThreadsAreRight'
  BY <1>2, <1>0 DEF EnqueueAcquire, Acquire
<1>3. ASSUME NEW e \in Entities, DestroyAcquire(t, e) PROVE ThreadsAreRight'
  BY <1>3, <1>0 DEF DestroyAcquire, Acquire
<1>4. ASSUME NEW e \in Entities, Execute(t, e) PROVE ThreadsAreRight'
  BY <1>4, <1>0 DEF Execute
<1>5. ASSUME NEW e \in Entities, MailboxResume(t, e) PROVE ThreadsAreRight'
  BY <1>5, <1>0 DEF MailboxResume
<1>6. CASE EnqueueEmplace(t)
  BY <1>6, <1>0 DEF EnqueueEmplace
<1>7. CASE DestroySet(t)
  BY <1>7, <1>0 DEF DestroySet
<1>8. CASE ReadyDestroy(t)
  BY <1>8, <1>0 DEF ReadyDestroy
<1>9. CASE EmptyLoad(t)
  BY <1>9, <1>0 DEF EmptyLoad
<1>10. CASE EmptyRead(t)
  BY <1>10, <1>0 DEF EmptyRead
<1>11. CASE ReadyExchangeLose(t)
  BY <1>11, <1>0 DEF ReadyExchangeLose
<1>12. CASE ReadyExchangeWin(t)
  <2>1. target[t] \in Entities /\ loop[target[t]] # "absent"
    BY <1>12 DEF ReadyExchangeWin
  <2>2. CASE inwait[t]
    <3>1. /\ pc' = [pc EXCEPT ![t] = "check"]
          /\ run' = [run EXCEPT ![t] = target[t]]
          /\ target' = [target EXCEPT ![t] = None]
          /\ inwait' = [inwait EXCEPT ![t] = FALSE]
          /\ loop' = [loop EXCEPT ![target[t]] = "running"]
      BY <1>12, <2>2 DEF ReadyExchangeWin
    <3>2. QED
      BY <1>0, <2>1, <3>1
  <2>3. CASE ~inwait[t]
    BY SMTT(30), <1>12, <2>1, <2>3 DEF ReadyExchangeWin
  <2>4. QED
    BY <2>2, <2>3
<1>13. CASE Post(t)
  BY <1>13, <1>0 DEF Post
<1>14. CASE Release(t)
  BY <1>14, <1>0 DEF Release
<1>15. CASE Finish(t)
  BY <1>15, <1>0 DEF Finish
<1>16. CASE Check(t)
  BY <1>16, <1>0 DEF Check
<1>17. CASE Drain(t)
  BY <1>17, <1>0 DEF Drain
<1>18. CASE PopLoad(t)
  BY <1>18, <1>0 DEF PopLoad, MailIsRight
<1>19. CASE PopStore(t)
  BY <1>19, <1>0 DEF PopStore
<1>20. CASE Retire(t)
  BY <1>20, <1>0 DEF Retire
<1>21. CASE MailboxReturn(t)
  BY SMTT(30), <1>21, <1>0 DEF MailboxReturn
<1>22. CASE MailboxSuspend(t)
  BY SMTT(30), <1>22, <1>0 DEF MailboxSuspend
<1>23. QED
  BY <1>1, <1>2, <1>3, <1>4, <1>5, <1>6, <1>7, <1>8, <1>9, <1>10, <1>11, <1>12,
     <1>13, <1>14, <1>15, <1>16, <1>17, <1>18, <1>19, <1>20, <1>21, <1>22
  DEF Move, Call, Loop

\* The token is handed on, taken from a clear flag or given back to it.
LEMMA TokenStep ==
  ASSUME IInv, NEW t \in Threads, Move(t)
  PROVE  TokenIsOne'
<1> USE DEF IInv, Goto, Return, Running, Calling, Deciding, entityVars, threadVars
<1> SUFFICES ASSUME NEW x \in Entities PROVE Token(x)'
  BY DEF TokenIsOne
<1>0. /\ Cardinality(Runners(x)) \in Nat
      /\ Cardinality(Posters(x)) \in Nat
      /\ Cardinality(Runners(x)') \in Nat
      /\ Cardinality(Posters(x)') \in Nat
      /\ Cardinality(Runners(x)') =
           Cardinality(Runners(x)) - One(run[t] = x) + One(run'[t] = x)
      /\ Cardinality(Posters(x)') =
           Cardinality(Posters(x)) - One(target[t] = x /\ pc[t] = "post")
                                   + One(target'[t] = x /\ pc'[t] = "post")
  BY Moved
<1>a. /\ Token(x)
      /\ None \notin Entities
      /\ pc[t] \in Running => run[t] \in Entities
      /\ pc[t] \in Calling <=> target[t] \in Entities
      /\ pc[t] = "idle" => run[t] = None
      /\ run[t] = x => loop[x] = "running"
      /\ inwait[t] => pc[t] \in Deciding /\ run[t] = None
      /\ posted[x] > 0 => loop[x] \in {"initial", "waiting"}
  BY ActorSystemAssumption DEF TypeOK, ThreadsAreRight, TokenIsOne, LoopsAreRight, LoopIsRight
<1>b. /\ flag[x] \in BOOLEAN /\ posted[x] \in Nat
      /\ flag'[x] \in BOOLEAN /\ posted'[x] \in Nat
  BY TypeStep DEF TypeOK
<1>q. ASSUME flag'[x] = flag[x], posted'[x] = posted[x],
             loop'[x] \in {"mailbox", "done"} <=> loop[x] \in {"mailbox", "done"},
             run'[t] = x <=> run[t] = x,
             target'[t] = x /\ pc'[t] = "post" <=> target[t] = x /\ pc[t] = "post"
      PROVE  Token(x)'
  BY <1>q, <1>0, <1>a DEF Token, One
<1>1. ASSUME NEW e \in Entities, Attach(t, e) PROVE Token(x)'
  BY <1>1, <1>a, <1>q DEF TypeOK, Attach
<1>2. ASSUME NEW e \in Entities, EnqueueAcquire(t, e) PROVE Token(x)'
  BY <1>2, <1>a, <1>q DEF TypeOK, EnqueueAcquire, Acquire
<1>3. ASSUME NEW e \in Entities, DestroyAcquire(t, e) PROVE Token(x)'
  BY <1>3, <1>a, <1>q DEF TypeOK, DestroyAcquire, Acquire
<1>4. ASSUME NEW e \in Entities, Execute(t, e) PROVE Token(x)'
  <2>1. CASE x = e
    <3>1. /\ flag' = flag /\ posted'[x] = posted[x] - 1
          /\ loop[x] \in {"initial", "waiting"} /\ loop'[x] = "running"
          /\ run[t] # x /\ run'[t] = x /\ pc[t] # "post" /\ pc'[t] # "post"
      BY <1>4, <2>1, <1>a DEF TypeOK, Execute
    <3>2. QED
      BY <1>0, <1>a, <1>b, <2>1, <3>1 DEF Token, One
  <2>2. CASE x # e
    BY <1>4, <2>2, <1>a, <1>q DEF TypeOK, Execute
  <2>3. QED
    BY <2>1, <2>2
<1>5. ASSUME NEW e \in Entities, MailboxResume(t, e) PROVE Token(x)'
  <2>1. CASE x = e
    <3>1. /\ flag' = flag /\ posted' = posted
          /\ loop[x] = "mailbox" /\ loop'[x] = "running"
          /\ run[t] # x /\ run'[t] = x /\ pc[t] # "post" /\ pc'[t] # "post"
      BY <1>5, <2>1, <1>a DEF TypeOK, MailboxResume
    <3>2. QED
      BY <1>0, <1>a, <1>b, <2>1, <3>1 DEF Token, One
  <2>2. CASE x # e
    BY <1>5, <2>2, <1>a, <1>q DEF TypeOK, MailboxResume
  <2>3. QED
    BY <2>1, <2>2
<1>6. CASE EnqueueEmplace(t)
  BY <1>6, <1>a, <1>q DEF TypeOK, EnqueueEmplace
<1>7. CASE DestroySet(t)
  BY <1>7, <1>a, <1>q DEF TypeOK, DestroySet
<1>8. CASE ReadyDestroy(t)
  BY <1>8, <1>a, <1>q DEF TypeOK, ReadyDestroy
<1>9. CASE EmptyLoad(t)
  BY <1>9, <1>a, <1>q DEF TypeOK, EmptyLoad
<1>10. CASE EmptyRead(t)
  BY <1>10, <1>a, <1>q DEF TypeOK, EmptyRead
<1>11. CASE ReadyExchangeLose(t)
  BY <1>11, <1>a, <1>q DEF TypeOK, ReadyExchangeLose
<1>12. CASE ReadyExchangeWin(t)
  <2>1. CASE x = target[t] /\ inwait[t]
    <3>1. /\ ~flag[x] /\ flag'[x] /\ posted' = posted /\ loop'[x] = "running"
          /\ run[t] # x /\ run'[t] = x /\ pc[t] # "post" /\ pc'[t] # "post"
      BY <1>12, <2>1, <1>a DEF TypeOK, ReadyExchangeWin
    <3>2. QED
      BY <1>0, <1>a, <1>b, <2>1, <3>1 DEF Token, One
  <2>2. CASE x = target[t] /\ ~inwait[t]
    <3>1. /\ ~flag[x] /\ flag'[x] /\ posted'[x] = posted[x] /\ loop'[x] = loop[x]
          /\ run'[t] = run[t] /\ target'[t] = x /\ target[t] = x /\ pc[t] # "post" /\ pc'[t] = "post"
      BY <1>12, <2>2, <1>a DEF TypeOK, ReadyExchangeWin
    <3>2. Cardinality(Runners(x)') = Cardinality(Runners(x))
      BY <1>0, <3>1 DEF One
    <3>3. Cardinality(Posters(x)') = Cardinality(Posters(x)) + 1
      BY <1>0, <3>1 DEF One
    <3>4. One(flag[x]) = 0 /\ One(flag'[x]) = 1
      BY <1>b, <3>1 DEF One
    <3>5. One(loop'[x] \in {"mailbox", "done"}) = One(loop[x] \in {"mailbox", "done"})
      BY <3>1
    <3>6. One(loop[x] \in {"mailbox", "done"}) \in {0, 1}
      BY DEF One
    <3>7. 0 = Cardinality(Runners(x)) + Cardinality(Posters(x)) + posted[x]
              + One(loop[x] \in {"mailbox", "done"})
      BY <1>a, <3>4 DEF Token
    <3>8. 1 = Cardinality(Runners(x)') + Cardinality(Posters(x)') + posted'[x]
              + One(loop'[x] \in {"mailbox", "done"})
      BY <1>0, <1>b, <3>1, <3>2, <3>3, <3>5, <3>6, <3>7
    <3>9. QED
      BY <3>4, <3>8 DEF Token
  <2>3. CASE x # target[t] /\ inwait[t]
    BY <1>12, <2>3, <1>a, <1>q DEF TypeOK, ReadyExchangeWin
  <2>4. CASE x # target[t] /\ ~inwait[t]
    BY <1>12, <2>4, <1>a, <1>q DEF TypeOK, ReadyExchangeWin
  <2>5. QED
    BY <2>1, <2>2, <2>3, <2>4
<1>13. CASE Post(t)
  <2>1. CASE x = target[t]
    <3>1. /\ flag' = flag /\ posted'[x] = posted[x] + 1 /\ loop' = loop
          /\ run' = run /\ target[t] = x /\ pc[t] = "post" /\ pc'[t] # "post"
      BY <1>13, <2>1, <1>a DEF TypeOK, Post
    <3>2. QED
      BY <1>0, <1>a, <1>b, <2>1, <3>1 DEF Token, One
  <2>2. CASE x # target[t]
    BY <1>13, <2>2, <1>a, <1>q DEF TypeOK, Post
  <2>3. QED
    BY <2>1, <2>2
<1>14. CASE Release(t)
  BY <1>14, <1>a, <1>q DEF TypeOK, Release
<1>15. CASE Finish(t)
  <2>1. CASE x = run[t]
    <3>1. /\ ~flag'[x] /\ posted' = posted /\ loop'[x] = "waiting"
          /\ run[t] = x /\ run'[t] # x /\ pc[t] # "post" /\ pc'[t] # "post"
      BY <1>15, <2>1, <1>a DEF TypeOK, Finish
    <3>2. QED
      BY <1>0, <1>a, <1>b, <2>1, <3>1 DEF Token, One
  <2>2. CASE x # run[t]
    BY <1>15, <2>2, <1>a, <1>q DEF TypeOK, Finish
  <2>3. QED
    BY <2>1, <2>2
<1>16. CASE Check(t)
  BY <1>16, <1>a, <1>q DEF TypeOK, Check
<1>17. CASE Drain(t)
  BY <1>17, <1>a, <1>q DEF TypeOK, Drain
<1>18. CASE PopLoad(t)
  BY <1>18, <1>a, <1>q DEF TypeOK, PopLoad
<1>19. CASE PopStore(t)
  BY <1>19, <1>a, <1>q DEF TypeOK, PopStore
<1>20. CASE Retire(t)
  <2>1. CASE x = run[t]
    <3>1. /\ flag' = flag /\ posted' = posted /\ loop'[x] = "done"
          /\ run[t] = x /\ run'[t] # x /\ pc[t] # "post" /\ pc'[t] # "post"
      BY <1>20, <2>1, <1>a DEF TypeOK, Retire
    <3>2. QED
      BY <1>0, <1>a, <1>b, <2>1, <3>1 DEF Token, One
  <2>2. CASE x # run[t]
    BY <1>20, <2>2, <1>a, <1>q DEF TypeOK, Retire
  <2>3. QED
    BY <2>1, <2>2
<1>21. CASE MailboxReturn(t)
  BY <1>21, <1>a, <1>q DEF TypeOK, MailboxReturn
<1>22. CASE MailboxSuspend(t)
  <2>1. CASE x = run[t]
    <3>1. /\ flag' = flag /\ posted' = posted /\ loop'[x] = "mailbox"
          /\ run[t] = x /\ run'[t] # x /\ pc[t] # "post" /\ pc'[t] # "post"
      BY <1>22, <2>1, <1>a DEF TypeOK, MailboxSuspend
    <3>2. QED
      BY <1>0, <1>a, <1>b, <2>1, <3>1 DEF Token, One
  <2>2. CASE x # run[t]
    BY <1>22, <2>2, <1>a, <1>q DEF TypeOK, MailboxSuspend
  <2>3. QED
    BY <2>1, <2>2
<1>23. QED
  BY <1>1, <1>2, <1>3, <1>4, <1>5, <1>6, <1>7, <1>8, <1>9, <1>10, <1>11, <1>12,
     <1>13, <1>14, <1>15, <1>16, <1>17, <1>18, <1>19, <1>20, <1>21, <1>22
  DEF Move, Call, Loop

\* An entity whose flag is clear is run, posted and suspended in its mailbox by
\* nobody.
LEMMA ClearFlag ==
  ASSUME TypeOK, TokenIsOne, NEW e \in Entities, ~flag[e]
  PROVE  /\ Runners(e) = {} /\ Posters(e) = {} /\ posted[e] = 0
         /\ loop[e] \notin {"mailbox", "done"}
<1>1. /\ Cardinality(Runners(e)) \in Nat /\ Cardinality(Posters(e)) \in Nat
      /\ posted[e] \in Nat
  <2>1. IsFiniteSet(Runners(e)) /\ IsFiniteSet(Posters(e))
    BY ActorSystemAssumption, FS_Subset DEF Runners, Posters, Callers
  <2>2. QED
    BY <2>1, FS_CardinalityType DEF TypeOK
<1>2. /\ Cardinality(Runners(e)) = 0 => Runners(e) = {}
      /\ Cardinality(Posters(e)) = 0 => Posters(e) = {}
  <2>1. IsFiniteSet(Runners(e)) /\ IsFiniteSet(Posters(e))
    BY ActorSystemAssumption, FS_Subset DEF Runners, Posters, Callers
  <2>2. QED
    BY <2>1, FS_EmptySet
<1>3. One(flag[e]) = 0
  BY DEF One, TypeOK
<1>4. CASE loop[e] \in {"mailbox", "done"}
  <2>1. 0 = Cardinality(Runners(e)) + Cardinality(Posters(e)) + posted[e] + 1
    BY <1>3, <1>4 DEF TokenIsOne, Token, One
  <2>2. QED
    BY <1>1, <2>1
<1>5. CASE loop[e] \notin {"mailbox", "done"}
  <2>1. 0 = Cardinality(Runners(e)) + Cardinality(Posters(e)) + posted[e]
    BY <1>1, <1>3, <1>5 DEF TokenIsOne, Token, One
  <2>2. QED
    BY <1>1, <1>2, <1>5, <2>1
<1>6. QED
  BY <1>4, <1>5

\* Every reference that changes hands stays counted.
LEMMA CountStep ==
  ASSUME IInv, NEW t \in Threads, Move(t)
  PROVE  CountIsExact'
<1> USE DEF IInv, Goto, Return, Running, Calling, Deciding, entityVars, threadVars
<1> SUFFICES ASSUME NEW x \in Entities PROVE References(x)'
  BY TypeStep DEF CountIsExact, References
<1>0. /\ Cardinality(Runners(x)) \in Nat
      /\ Cardinality(Callers(x)) \in Nat
      /\ Cardinality(Runners(x)') =
           Cardinality(Runners(x)) - One(run[t] = x) + One(run'[t] = x)
      /\ Cardinality(Callers(x)') =
           Cardinality(Callers(x)) - One(target[t] = x) + One(target'[t] = x)
  BY Moved
<1>a. /\ None \notin Entities
      /\ pc[t] \in Running => run[t] \in Entities
      /\ pc[t] \in Calling <=> target[t] \in Entities
      /\ pc[t] \in Calling <=> target[t] # None
      /\ pc[t] = "idle" => run[t] = None
      /\ run[t] = x => loop[x] = "running"
      /\ inwait[t] => pc[t] \in Deciding /\ run[t] = None
      /\ loop[x] = "absent" => posted[x] = 0
      /\ x \in attached <=> loop[x] \notin {"absent", "done"}
      /\ References(x)
  <2>1. References(x)
    BY DEF CountIsExact, References
  <2>2. posted[x] \in Nat
    BY DEF TypeOK
  <2>3. loop[x] = "absent" => posted[x] = 0
    BY <2>2 DEF LoopsAreRight, LoopIsRight
  <2>4. x \in attached <=> loop[x] \notin {"absent", "done"}
    BY DEF LoopsAreRight, LoopIsRight
  <2>5. QED
    BY <2>1, <2>3, <2>4, ActorSystemAssumption DEF TypeOK, ThreadsAreRight
<1>b. /\ count[x] \in Nat /\ posted[x] \in Nat
      /\ count'[x] \in Nat /\ posted'[x] \in Nat
  BY TypeStep DEF TypeOK
<1>q. ASSUME count'[x] = count[x], posted'[x] = posted[x],
             x \in attached' <=> x \in attached,
             loop'[x] = "mailbox" <=> loop[x] = "mailbox",
             run'[t] = x <=> run[t] = x, target'[t] = x <=> target[t] = x
      PROVE  References(x)'
  BY <1>q, <1>0, <1>a DEF References, One
<1>c. ~flag[x] => loop[x] \notin {"mailbox", "done"}
  BY ClearFlag
<1>1. ASSUME NEW e \in Entities, Attach(t, e) PROVE References(x)'
  <2>1. CASE x = e
    <3>1. /\ count'[x] = 1 /\ x \in attached' /\ x \notin attached
          /\ posted[x] = 0 /\ posted'[x] = 0 /\ loop'[x] # "mailbox"
          /\ run' = run /\ target' = target
      BY <1>1, <2>1, <1>a DEF TypeOK, Attach
    <3>2. Runners(x) = {} /\ Callers(x) = {}
      BY <1>1, <2>1, ActorSystemAssumption DEF Attach, ThreadsAreRight, Runners, Callers
    <3>3. Cardinality(Runners(x)) = 0 /\ Cardinality(Callers(x)) = 0
      BY <3>2, Present
    <3>4. QED
      BY <1>0, <3>1, <3>3 DEF References, One
  <2>2. CASE x # e
    BY <1>1, <2>2, <1>a, <1>q DEF TypeOK, Attach
  <2>3. QED
    BY <2>1, <2>2
<1>2. ASSUME NEW e \in Entities, EnqueueAcquire(t, e) PROVE References(x)'
  <2>1. CASE x = e
    <3>1. /\ count'[x] = count[x] + 1 /\ posted' = posted /\ attached' = attached
          /\ loop' = loop /\ run' = run /\ target[t] # x /\ target'[t] = x
      BY <1>2, <2>1, <1>a DEF TypeOK, EnqueueAcquire, Acquire
    <3>2. QED
      BY <1>0, <1>a, <1>b, <3>1 DEF References, One
  <2>2. CASE x # e
    BY <1>2, <2>2, <1>a, <1>q DEF TypeOK, EnqueueAcquire, Acquire
  <2>3. QED
    BY <2>1, <2>2
<1>3. ASSUME NEW e \in Entities, DestroyAcquire(t, e) PROVE References(x)'
  <2>1. CASE x = e
    <3>1. /\ count'[x] = count[x] + 1 /\ posted' = posted /\ attached' = attached
          /\ loop' = loop /\ run' = run /\ target[t] # x /\ target'[t] = x
      BY <1>3, <2>1, <1>a DEF TypeOK, DestroyAcquire, Acquire
    <3>2. QED
      BY <1>0, <1>a, <1>b, <3>1 DEF References, One
  <2>2. CASE x # e
    BY <1>3, <2>2, <1>a, <1>q DEF TypeOK, DestroyAcquire, Acquire
  <2>3. QED
    BY <2>1, <2>2
<1>4. ASSUME NEW e \in Entities, Execute(t, e) PROVE References(x)'
  <2>1. CASE x = e
    <3>1. /\ count' = count /\ posted'[x] = posted[x] - 1 /\ attached' = attached
          /\ loop[x] # "mailbox" /\ loop'[x] # "mailbox"
          /\ run[t] # x /\ run'[t] = x /\ target' = target
      BY <1>4, <2>1, <1>a DEF TypeOK, Execute
    <3>2. QED
      BY <1>0, <1>a, <1>b, <3>1 DEF References, One
  <2>2. CASE x # e
    BY <1>4, <2>2, <1>a, <1>q DEF TypeOK, Execute
  <2>3. QED
    BY <2>1, <2>2
<1>5. ASSUME NEW e \in Entities, MailboxResume(t, e) PROVE References(x)'
  <2>1. CASE x = e
    <3>1. /\ count' = count /\ posted' = posted /\ attached' = attached
          /\ loop[x] = "mailbox" /\ loop'[x] # "mailbox"
          /\ run[t] # x /\ run'[t] = x /\ target' = target
      BY <1>5, <2>1, <1>a DEF TypeOK, MailboxResume
    <3>2. QED
      BY <1>0, <1>a, <1>b, <3>1 DEF References, One
  <2>2. CASE x # e
    BY <1>5, <2>2, <1>a, <1>q DEF TypeOK, MailboxResume
  <2>3. QED
    BY <2>1, <2>2
<1>6. CASE EnqueueEmplace(t)
  BY <1>6, <1>a, <1>q DEF TypeOK, EnqueueEmplace
<1>7. CASE DestroySet(t)
  BY <1>7, <1>a, <1>q DEF TypeOK, DestroySet
<1>8. CASE ReadyDestroy(t)
  BY <1>8, <1>a, <1>q DEF TypeOK, ReadyDestroy
<1>9. CASE EmptyLoad(t)
  BY <1>9, <1>a, <1>q DEF TypeOK, EmptyLoad
<1>10. CASE EmptyRead(t)
  BY <1>10, <1>a, <1>q DEF TypeOK, EmptyRead
<1>11. CASE ReadyExchangeLose(t)
  BY <1>11, <1>a, <1>q DEF TypeOK, ReadyExchangeLose
<1>12. CASE ReadyExchangeWin(t)
  <2>1. CASE x = target[t] /\ inwait[t]
    <3>1. /\ count' = count /\ posted' = posted /\ attached' = attached
          /\ loop'[x] # "mailbox" /\ run[t] # x /\ run'[t] = x
          /\ target[t] = x /\ target'[t] # x
      BY <1>12, <2>1, <1>a DEF TypeOK, ReadyExchangeWin
    <3>2. loop[x] # "mailbox"
      BY <1>12, <2>1, <1>c DEF ReadyExchangeWin
    <3>3. QED
      BY <1>0, <1>a, <1>b, <3>1, <3>2 DEF References, One
  <2>2. CASE x = target[t] /\ ~inwait[t]
    BY <1>12, <2>2, <1>a, <1>q DEF TypeOK, ReadyExchangeWin
  <2>3. CASE x # target[t] /\ inwait[t]
    BY <1>12, <2>3, <1>a, <1>q DEF TypeOK, ReadyExchangeWin
  <2>4. CASE x # target[t] /\ ~inwait[t]
    BY <1>12, <2>4, <1>a, <1>q DEF TypeOK, ReadyExchangeWin
  <2>5. QED
    BY <2>1, <2>2, <2>3, <2>4
<1>13. CASE Post(t)
  <2>1. CASE x = target[t]
    <3>1. /\ count' = count /\ posted'[x] = posted[x] + 1 /\ attached' = attached
          /\ loop' = loop /\ run' = run /\ target[t] = x /\ target'[t] # x
      BY <1>13, <2>1, <1>a DEF TypeOK, Post
    <3>2. QED
      BY <1>0, <1>a, <1>b, <3>1 DEF References, One
  <2>2. CASE x # target[t]
    BY <1>13, <2>2, <1>a, <1>q DEF TypeOK, Post
  <2>3. QED
    BY <2>1, <2>2
<1>14. CASE Release(t)
  <2>1. CASE x = target[t]
    <3>1. /\ count'[x] = count[x] - 1 /\ posted' = posted /\ attached' = attached
          /\ loop' = loop /\ run' = run /\ target[t] = x /\ target'[t] # x
      BY <1>14, <2>1, <1>a DEF TypeOK, Release
    <3>2. QED
      BY <1>0, <1>a, <1>b, <3>1 DEF References, One
  <2>2. CASE x # target[t]
    BY <1>14, <2>2, <1>a, <1>q DEF TypeOK, Release
  <2>3. QED
    BY <2>1, <2>2
<1>15. CASE Finish(t)
  <2>1. CASE x = run[t]
    <3>1. /\ count' = count /\ posted' = posted /\ attached' = attached
          /\ loop[x] # "mailbox" /\ loop'[x] # "mailbox"
          /\ run[t] = x /\ run'[t] # x /\ target[t] # x /\ target'[t] = x
      BY <1>15, <2>1, <1>a DEF TypeOK, Finish
    <3>2. QED
      BY <1>0, <1>a, <1>b, <3>1 DEF References, One
  <2>2. CASE x # run[t]
    BY <1>15, <2>2, <1>a, <1>q DEF TypeOK, Finish
  <2>3. QED
    BY <2>1, <2>2
<1>16. CASE Check(t)
  BY <1>16, <1>a, <1>q DEF TypeOK, Check
<1>17. CASE Drain(t)
  BY <1>17, <1>a, <1>q DEF TypeOK, Drain
<1>18. CASE PopLoad(t)
  BY <1>18, <1>a, <1>q DEF TypeOK, PopLoad
<1>19. CASE PopStore(t)
  BY <1>19, <1>a, <1>q DEF TypeOK, PopStore
<1>20. CASE Retire(t)
  <2>1. CASE x = run[t]
    <3>1. /\ count'[x] = count[x] - 1 /\ posted' = posted
          /\ x \in attached /\ x \notin attached'
          /\ loop[x] # "mailbox" /\ loop'[x] # "mailbox"
          /\ run[t] = x /\ run'[t] # x /\ target[t] # x /\ target'[t] = x
      BY <1>20, <2>1, <1>a DEF TypeOK, Retire
    <3>2. QED
      BY <1>0, <1>a, <1>b, <3>1 DEF References, One
  <2>2. CASE x # run[t]
    BY <1>20, <2>2, <1>a, <1>q DEF TypeOK, Retire
  <2>3. QED
    BY <2>1, <2>2
<1>21. CASE MailboxReturn(t)
  BY <1>21, <1>a, <1>q DEF TypeOK, MailboxReturn
<1>22. CASE MailboxSuspend(t)
  <2>1. CASE x = run[t]
    <3>1. /\ count' = count /\ posted' = posted /\ attached' = attached
          /\ loop[x] # "mailbox" /\ loop'[x] = "mailbox"
          /\ run[t] = x /\ run'[t] # x /\ target' = target
      BY <1>22, <2>1, <1>a DEF TypeOK, MailboxSuspend
    <3>2. QED
      BY <1>0, <1>a, <1>b, <3>1 DEF References, One
  <2>2. CASE x # run[t]
    BY <1>22, <2>2, <1>a, <1>q DEF TypeOK, MailboxSuspend
  <2>3. QED
    BY <2>1, <2>2
<1>23. QED
  BY <1>1, <1>2, <1>3, <1>4, <1>5, <1>6, <1>7, <1>8, <1>9, <1>10, <1>11, <1>12,
     <1>13, <1>14, <1>15, <1>16, <1>17, <1>18, <1>19, <1>20, <1>21, <1>22
  DEF Move, Call, Loop

\* An entity with a posted task, or with a thread about to post one, is run by
\* nobody and suspended in front of nothing else.
LEMMA PostIsToken ==
  ASSUME TypeOK, TokenIsOne, NEW e \in Entities
  PROVE  /\ posted[e] > 0 => posted[e] = 1 /\ Posters(e) = {}
         /\ Posters(e) # {} => /\ posted[e] = 0 /\ Runners(e) = {}
                               /\ loop[e] \notin {"mailbox", "done"}
<1>1. /\ Cardinality(Runners(e)) \in Nat /\ Cardinality(Posters(e)) \in Nat
      /\ posted[e] \in Nat
  <2>1. IsFiniteSet(Runners(e)) /\ IsFiniteSet(Posters(e))
    BY ActorSystemAssumption, FS_Subset DEF Runners, Posters, Callers
  <2>2. QED
    BY <2>1, FS_CardinalityType DEF TypeOK
<1>2. /\ Cardinality(Runners(e)) = 0 => Runners(e) = {}
      /\ Cardinality(Posters(e)) = 0 <=> Posters(e) = {}
  <2>1. IsFiniteSet(Runners(e)) /\ IsFiniteSet(Posters(e))
    BY ActorSystemAssumption, FS_Subset DEF Runners, Posters, Callers
  <2>2. QED
    BY <2>1, FS_EmptySet
<1>3. CASE loop[e] \in {"mailbox", "done"}
  <2>1. Cardinality(Runners(e)) + Cardinality(Posters(e)) + posted[e] + 1 \in {0, 1}
    BY <1>3 DEF TokenIsOne, Token, One
  <2>2. QED
    BY <1>1, <1>2, <2>1
<1>4. CASE loop[e] \notin {"mailbox", "done"}
  <2>1. Cardinality(Runners(e)) + Cardinality(Posters(e)) + posted[e] \in {0, 1}
    BY <1>1, <1>4 DEF TokenIsOne, Token, One
  <2>2. /\ posted[e] > 0 => posted[e] = 1 /\ Cardinality(Posters(e)) = 0
        /\ Cardinality(Posters(e)) # 0 => posted[e] = 0 /\ Cardinality(Runners(e)) = 0
    BY <1>1, <2>1
  <2>3. QED
    BY <1>2, <1>4, <2>2
<1>5. QED
  BY <1>3, <1>4

\* Each step that resumes or suspends entity_loop holds the token.
LEMMA LoopsStep ==
  ASSUME IInv, NEW t \in Threads, Move(t)
  PROVE  LoopsAreRight'
<1> USE DEF IInv, Goto, Return, Running, Calling, Deciding, entityVars, threadVars
<1> SUFFICES ASSUME NEW x \in Entities PROVE LoopIsRight(x)'
  BY DEF LoopsAreRight
<1>a. /\ None \notin Entities
      /\ pc[t] \in Running => run[t] \in Entities
      /\ pc[t] \in Calling <=> target[t] \in Entities
      /\ pc[t] = "idle" => run[t] = None
      /\ run[t] \in Entities => loop[run[t]] = "running"
      /\ target[t] \in Entities => loop[target[t]] # "absent"
      /\ run[t] = x \/ target[t] = x => count[x] >= 1
      /\ count[x] \in Nat /\ posted[x] \in Nat
  BY ActorSystemAssumption, Counted DEF TypeOK, ThreadsAreRight
<1>b. /\ loop[x] = "absent" => head[x] = accepted[x] /\ ~destroy[x]
      /\ x \in attached <=> loop[x] \notin {"absent", "done"}
      /\ loop[x] = "running" => \E u \in Threads : run[u] = x
      /\ posted[x] > 0 => loop[x] \in {"initial", "waiting"}
      /\ x \in deleted => loop[x] = "done" /\ count[x] = 0
  BY DEF LoopsAreRight, LoopIsRight, Runners
<1>1. ASSUME NEW e \in Entities, Attach(t, e) PROVE LoopIsRight(x)'
  BY <1>1, <1>a, <1>b DEF TypeOK, LoopIsRight, Runners, Attach
<1>2. ASSUME NEW e \in Entities, EnqueueAcquire(t, e) PROVE LoopIsRight(x)'
  BY <1>2, <1>a, <1>b DEF TypeOK, LoopIsRight, Runners, EnqueueAcquire, Acquire
<1>3. ASSUME NEW e \in Entities, DestroyAcquire(t, e) PROVE LoopIsRight(x)'
  BY <1>3, <1>a, <1>b DEF TypeOK, LoopIsRight, Runners, DestroyAcquire, Acquire
<1>4. ASSUME NEW e \in Entities, Execute(t, e) PROVE LoopIsRight(x)'
  <2>1. posted[e] = 1
    BY <1>4, PostIsToken DEF Execute
  <2>2. QED
    BY <1>4, <2>1, <1>a, <1>b DEF TypeOK, Execute, LoopIsRight, Runners
<1>5. ASSUME NEW e \in Entities, MailboxResume(t, e) PROVE LoopIsRight(x)'
  BY <1>5, <1>a, <1>b DEF TypeOK, LoopIsRight, Runners, MailboxResume
<1>6. CASE EnqueueEmplace(t)
  BY <1>6, <1>a, <1>b DEF TypeOK, LoopIsRight, Runners, EnqueueEmplace
<1>7. CASE DestroySet(t)
  BY <1>7, <1>a, <1>b DEF TypeOK, LoopIsRight, Runners, DestroySet
<1>8. CASE ReadyDestroy(t)
  BY <1>8, <1>a, <1>b DEF TypeOK, LoopIsRight, Runners, ReadyDestroy
<1>9. CASE EmptyLoad(t)
  BY <1>9, <1>a, <1>b DEF TypeOK, LoopIsRight, Runners, EmptyLoad
<1>10. CASE EmptyRead(t)
  BY <1>10, <1>a, <1>b DEF TypeOK, LoopIsRight, Runners, EmptyRead
<1>11. CASE ReadyExchangeLose(t)
  BY <1>11, <1>a, <1>b DEF TypeOK, LoopIsRight, Runners, ReadyExchangeLose
<1>12. CASE ReadyExchangeWin(t)
  <2>0. ~flag[x] => posted[x] = 0 /\ loop[x] \notin {"mailbox", "done"}
    <3>1. ASSUME ~flag[x] PROVE posted[x] = 0 /\ loop[x] \notin {"mailbox", "done"}
      BY <3>1, ClearFlag
    <3>2. QED
      BY <3>1
  <2>1. CASE x = target[t] /\ inwait[t]
    BY <1>12, <2>0, <2>1, <1>a, <1>b DEF TypeOK, ReadyExchangeWin, LoopIsRight, Runners
  <2>2. CASE x # target[t] /\ inwait[t]
    BY <1>12, <2>2, <1>a, <1>b DEF TypeOK, ReadyExchangeWin, LoopIsRight, Runners, ThreadsAreRight
  <2>3. CASE ~inwait[t]
    BY <1>12, <2>3, <1>a, <1>b DEF TypeOK, ReadyExchangeWin, LoopIsRight, Runners
  <2>4. QED
    BY <2>1, <2>2, <2>3
<1>13. CASE Post(t)
  <2>1. Posters(target[t]) # {}
    BY <1>13 DEF Post, Posters, Callers
  <2>2. target[t] = x => loop[x] \notin {"mailbox", "done", "absent", "running"}
    BY <1>13, <2>1, <1>a, <1>b, PostIsToken DEF Post, Runners
  <2>3. QED
    BY <1>13, <2>2, <1>a, <1>b DEF TypeOK, Post, LoopIsRight, Runners, Loops
<1>14. CASE Release(t)
  <2>1. count[x] = 1 /\ target[t] = x => loop[x] = "done"
    BY Counted
  <2>2. QED
    BY <1>14, <2>1, <1>a, <1>b DEF TypeOK, Release, LoopIsRight, Runners
<1>15. CASE Finish(t)
  BY <1>15, <1>a, <1>b DEF TypeOK, LoopIsRight, Runners, Finish
<1>16. CASE Check(t)
  BY <1>16, <1>a, <1>b DEF TypeOK, LoopIsRight, Runners, Check
<1>17. CASE Drain(t)
  BY <1>17, <1>a, <1>b DEF TypeOK, LoopIsRight, Runners, Drain
<1>18. CASE PopLoad(t)
  BY <1>18, <1>a, <1>b DEF TypeOK, LoopIsRight, Runners, PopLoad
<1>19. CASE PopStore(t)
  BY <1>19, <1>a, <1>b DEF TypeOK, LoopIsRight, Runners, PopStore
<1>20. CASE Retire(t)
  BY <1>20, <1>a, <1>b DEF TypeOK, LoopIsRight, Runners, Retire
<1>21. CASE MailboxReturn(t)
  BY <1>21, <1>a, <1>b DEF TypeOK, LoopIsRight, Runners, MailboxReturn
<1>22. CASE MailboxSuspend(t)
  BY <1>22, <1>a, <1>b DEF TypeOK, LoopIsRight, Runners, MailboxSuspend
<1>23. QED
  BY <1>1, <1>2, <1>3, <1>4, <1>5, <1>6, <1>7, <1>8, <1>9, <1>10, <1>11, <1>12,
     <1>13, <1>14, <1>15, <1>16, <1>17, <1>18, <1>19, <1>20, <1>21, <1>22
  DEF Move, Call, Loop

\* Only the runner of an entity moves the head of its queue, by one mail.
LEMMA MailStep ==
  ASSUME IInv, NEW t \in Threads, Move(t)
  PROVE  MailIsRight'
<1> USE DEF IInv, TypeOK, MailIsRight, Goto, Return, Running, Calling, Deciding, entityVars, threadVars
<1>0. /\ pc[t] \in Running => run[t] \in Entities
      /\ pc[t] \in Calling => target[t] \in Entities
      /\ \A u \in Threads : pc[u] \in Running => run[u] \in Entities
      /\ \A u \in Threads : run[t] \in Entities /\ run[u] = run[t] => u = t
  <2>1. \A u \in Threads : run[t] \in Entities /\ run[u] = run[t] => u = t
    BY RunnerIsAlone
  <2>2. QED
    BY <2>1 DEF ThreadsAreRight
<1>1. ASSUME NEW e \in Entities, Attach(t, e) PROVE MailIsRight'
  BY <1>1, <1>0 DEF Attach
<1>2. ASSUME NEW e \in Entities, EnqueueAcquire(t, e) PROVE MailIsRight'
  BY <1>2, <1>0 DEF EnqueueAcquire, Acquire
<1>3. ASSUME NEW e \in Entities, DestroyAcquire(t, e) PROVE MailIsRight'
  BY <1>3, <1>0 DEF DestroyAcquire, Acquire
<1>4. ASSUME NEW e \in Entities, Execute(t, e) PROVE MailIsRight'
  BY <1>4, <1>0 DEF Execute
<1>5. ASSUME NEW e \in Entities, MailboxResume(t, e) PROVE MailIsRight'
  BY <1>5, <1>0 DEF MailboxResume
<1>6. CASE EnqueueEmplace(t)
  BY <1>6, <1>0 DEF EnqueueEmplace
<1>7. CASE DestroySet(t)
  BY <1>7, <1>0 DEF DestroySet
<1>8. CASE ReadyDestroy(t)
  BY <1>8, <1>0 DEF ReadyDestroy
<1>9. CASE EmptyLoad(t)
  BY <1>9, <1>0 DEF EmptyLoad
<1>10. CASE EmptyRead(t)
  BY <1>10, <1>0 DEF EmptyRead
<1>11. CASE ReadyExchangeLose(t)
  BY <1>11, <1>0 DEF ReadyExchangeLose
<1>12. CASE ReadyExchangeWin(t)
  <2>1. CASE inwait[t]
    <3>1. /\ pc' = [pc EXCEPT ![t] = "check"]
          /\ run' = [run EXCEPT ![t] = target[t]]
          /\ UNCHANGED <<accepted, head, taken, pos>>
      BY <1>12, <2>1 DEF ReadyExchangeWin
    <3>2. QED
      BY <1>0, <3>1
  <2>2. CASE ~inwait[t]
    BY <1>12, <1>0, <2>2 DEF ReadyExchangeWin
  <2>3. QED
    BY <2>1, <2>2
<1>13. CASE Post(t)
  BY <1>13, <1>0 DEF Post
<1>14. CASE Release(t)
  BY <1>14, <1>0 DEF Release
<1>15. CASE Finish(t)
  BY <1>15, <1>0 DEF Finish
<1>16. CASE Check(t)
  BY <1>16, <1>0 DEF Check
<1>17. CASE Drain(t)
  BY <1>17, <1>0 DEF Drain
<1>18. CASE PopLoad(t)
  BY <1>18, <1>0 DEF PopLoad
<1>19. CASE PopStore(t)
  BY <1>19, <1>0 DEF PopStore
<1>20. CASE Retire(t)
  BY <1>20, <1>0 DEF Retire
<1>21. CASE MailboxReturn(t)
  BY <1>21, <1>0 DEF MailboxReturn
<1>22. CASE MailboxSuspend(t)
  BY <1>22, <1>0 DEF MailboxSuspend
<1>23. QED
  BY <1>1, <1>2, <1>3, <1>4, <1>5, <1>6, <1>7, <1>8, <1>9, <1>10, <1>11, <1>12,
     <1>13, <1>14, <1>15, <1>16, <1>17, <1>18, <1>19, <1>20, <1>21, <1>22
  DEF Move, Call, Loop
\* A set flag has a holder: a runner, a thread about to post, a posted task, or a
\* coroutine that is suspended in its mailbox or has ended.
LEMMA SetFlag ==
  ASSUME IInv, NEW e \in Entities, flag[e], loop[e] \in {"initial", "waiting"}, posted[e] = 0
  PROVE  \E u \in Threads : target[u] = e /\ pc[u] = "post"
<1> USE DEF IInv
<1>1. Runners(e) = {}
  BY ActorSystemAssumption DEF Runners, ThreadsAreRight
<1>2. Cardinality(Runners(e)) = 0
  BY <1>1, FS_EmptySet
<1>3. IsFiniteSet(Posters(e))
  BY ActorSystemAssumption, FS_Subset DEF Posters, Callers
<1>4. Cardinality(Posters(e)) \in Nat /\ (Posters(e) = {} => Cardinality(Posters(e)) = 0)
  BY <1>3, FS_CardinalityType, FS_EmptySet
<1>5. loop[e] \notin {"mailbox", "done"}
  OBVIOUS
<1>6. 1 = 0 + Cardinality(Posters(e)) + 0 + 0
  BY <1>2, <1>5 DEF TokenIsOne, Token, One
<1>7. Posters(e) # {}
  BY <1>4, <1>6
<1>8. QED
  BY <1>7 DEF Posters, Callers

\* The thread that will see the work stays in flag_ready until it has posted the
\* entity, or until it finds the flag set by another that is about to post it.
LEMMA WakeupStep ==
  ASSUME IInv, NEW t \in Threads, Move(t)
  PROVE  WakeupIsPending'
<1> USE DEF IInv, Goto, Return, Running, Calling, Deciding, entityVars, threadVars
<1> SUFFICES ASSUME NEW x \in Entities PROVE Pending(x)'
  BY DEF WakeupIsPending
<1>a. /\ None \notin Entities
      /\ pc[t] \in Running => run[t] \in Entities
      /\ pc[t] \in Calling <=> target[t] \in Entities
      /\ run[t] \in Entities => loop[run[t]] = "running"
      /\ posted[x] \in Nat
      /\ posted[x] > 0 => loop[x] \in {"initial", "waiting"}
      /\ loop[x] = "absent" => head[x] = accepted[x] /\ ~destroy[x]
      /\ head[x] <= accepted[x]
  BY ActorSystemAssumption DEF TypeOK, ThreadsAreRight, LoopsAreRight, LoopIsRight, MailIsRight
<1>b. Pending(x)
  BY DEF WakeupIsPending
<1>f. \A u \in Threads \ {t} : pc'[u] = pc[u] /\ target'[u] = target[u] /\ pos'[u] = pos[u]
  BY Frame
<1>t. TypeOK'
  BY TypeStep
<1>q. ASSUME loop'[x] = loop[x], posted'[x] = posted[x], head'[x] = head[x],
             accepted'[x] = accepted[x], destroy'[x] = destroy[x],
             WillSee(t, x) => WillSee(t, x)'
      PROVE  Pending(x)'
  BY <1>q, <1>b, <1>f DEF Pending, WillSee
<1>1. ASSUME NEW e \in Entities, Attach(t, e) PROVE Pending(x)'
  <2>1. CASE x = e
    BY <1>1, <2>1, <1>a DEF TypeOK, Pending, WillSee, Attach
  <2>2. CASE x # e
    BY <1>1, <2>2, <1>a, <1>q DEF TypeOK, WillSee, Attach
  <2>3. QED
    BY <2>1, <2>2
<1>2. ASSUME NEW e \in Entities, EnqueueAcquire(t, e) PROVE Pending(x)'
  BY <1>2, <1>a, <1>q DEF TypeOK, WillSee, EnqueueAcquire, Acquire
<1>3. ASSUME NEW e \in Entities, DestroyAcquire(t, e) PROVE Pending(x)'
  BY <1>3, <1>a, <1>q DEF TypeOK, WillSee, DestroyAcquire, Acquire
<1>4. ASSUME NEW e \in Entities, Execute(t, e) PROVE Pending(x)'
  <2>1. CASE x = e
    BY <1>4, <2>1, <1>a DEF TypeOK, Pending, WillSee, Execute
  <2>2. CASE x # e
    BY <1>4, <2>2, <1>a, <1>q DEF TypeOK, WillSee, Execute
  <2>3. QED
    BY <2>1, <2>2
<1>5. ASSUME NEW e \in Entities, MailboxResume(t, e) PROVE Pending(x)'
  <2>1. CASE x = e
    BY <1>5, <2>1, <1>a DEF TypeOK, Pending, WillSee, MailboxResume
  <2>2. CASE x # e
    BY <1>5, <2>2, <1>a, <1>q DEF TypeOK, WillSee, MailboxResume
  <2>3. QED
    BY <2>1, <2>2
<1>6. CASE EnqueueEmplace(t)
  <2>1. CASE x = target[t]
    BY <1>6, <2>1, <1>a DEF TypeOK, Pending, WillSee, EnqueueEmplace
  <2>2. CASE x # target[t]
    BY <1>6, <2>2, <1>a, <1>q DEF TypeOK, WillSee, EnqueueEmplace
  <2>3. QED
    BY <2>1, <2>2
<1>7. CASE DestroySet(t)
  <2>1. CASE x = target[t]
    BY <1>7, <2>1, <1>a DEF TypeOK, Pending, WillSee, DestroySet
  <2>2. CASE x # target[t]
    BY <1>7, <2>2, <1>a, <1>q DEF TypeOK, WillSee, DestroySet
  <2>3. QED
    BY <2>1, <2>2
<1>8. CASE ReadyDestroy(t)
  <2>1. CASE x = target[t] /\ ~destroy[x]
    BY <1>8, <2>1, <1>a, <1>b, <1>f DEF TypeOK, Pending, WillSee, ReadyDestroy
  <2>2. CASE x # target[t] \/ destroy[x]
    BY <1>8, <2>2, <1>a, <1>q DEF TypeOK, WillSee, ReadyDestroy
  <2>3. QED
    BY <2>1, <2>2
<1>9. CASE EmptyLoad(t)
  BY <1>9, <1>a, <1>q DEF TypeOK, WillSee, EmptyLoad
<1>10. CASE EmptyRead(t)
  BY <1>10, <1>a, <1>q DEF TypeOK, WillSee, EmptyRead
<1>11. CASE ReadyExchangeLose(t)
  <2>1. flag[target[t]] /\ target[t] \in Entities
    BY <1>11, <1>a DEF ReadyExchangeLose
  <2>2. CASE x = target[t]
    <3>1. CASE loop[x] \in {"initial", "waiting"} /\ posted[x] = 0
      <4>1. PICK u \in Threads : target[u] = x /\ pc[u] = "post"
        BY <2>1, <2>2, <3>1, SetFlag
      <4>2. u # t
        BY <1>11, <4>1 DEF ReadyExchangeLose
      <4>3. WillSee(u, x)'
        BY <1>f, <4>1, <4>2 DEF WillSee
      <4>4. QED
        BY <4>3 DEF Pending
    <3>2. CASE ~(loop[x] \in {"initial", "waiting"} /\ posted[x] = 0)
      BY <1>11, <3>2 DEF ReadyExchangeLose, Pending
    <3>3. QED
      BY <3>1, <3>2
  <2>3. CASE x # target[t]
    BY <1>11, <2>3, <1>a, <1>q DEF TypeOK, WillSee, ReadyExchangeLose
  <2>4. QED
    BY <2>2, <2>3
<1>12. CASE ReadyExchangeWin(t)
  <2>1. CASE x = target[t] /\ inwait[t]
    BY <1>12, <2>1, <1>a DEF TypeOK, Pending, ReadyExchangeWin
  <2>2. CASE x = target[t] /\ ~inwait[t]
    BY <1>12, <2>2, <1>a DEF TypeOK, Pending, WillSee, ReadyExchangeWin
  <2>3. CASE x # target[t] /\ inwait[t]
    BY <1>12, <2>3, <1>a, <1>q DEF TypeOK, WillSee, ReadyExchangeWin
  <2>4. CASE x # target[t] /\ ~inwait[t]
    BY <1>12, <2>4, <1>a, <1>q DEF TypeOK, WillSee, ReadyExchangeWin
  <2>5. QED
    BY <2>1, <2>2, <2>3, <2>4
<1>13. CASE Post(t)
  <2>1. CASE x = target[t]
    BY <1>13, <2>1, <1>a DEF TypeOK, Pending, WillSee, Post
  <2>2. CASE x # target[t]
    BY <1>13, <2>2, <1>a, <1>q DEF TypeOK, WillSee, Post
  <2>3. QED
    BY <2>1, <2>2
<1>14. CASE Release(t)
  BY <1>14, <1>a, <1>q DEF TypeOK, WillSee, Release
<1>15. CASE Finish(t)
  <2>1. CASE x = run[t]
    BY <1>15, <2>1, <1>a DEF TypeOK, Pending, WillSee, Finish
  <2>2. CASE x # run[t]
    BY <1>15, <2>2, <1>a, <1>q DEF TypeOK, WillSee, Finish
  <2>3. QED
    BY <2>1, <2>2
<1>16. CASE Check(t)
  BY <1>16, <1>a, <1>q DEF TypeOK, WillSee, Check
<1>17. CASE Drain(t)
  BY <1>17, <1>a, <1>q DEF TypeOK, WillSee, Drain
<1>18. CASE PopLoad(t)
  BY <1>18, <1>a, <1>q DEF TypeOK, WillSee, PopLoad
<1>19. CASE PopStore(t)
  <2>1. CASE x = run[t]
    BY <1>19, <2>1, <1>a DEF TypeOK, Pending, WillSee, PopStore
  <2>2. CASE x # run[t]
    BY <1>19, <2>2, <1>a, <1>q DEF TypeOK, WillSee, PopStore
  <2>3. QED
    BY <2>1, <2>2
<1>20. CASE Retire(t)
  <2>1. CASE x = run[t]
    BY <1>20, <2>1, <1>a DEF TypeOK, Pending, WillSee, Retire
  <2>2. CASE x # run[t]
    BY <1>20, <2>2, <1>a, <1>q DEF TypeOK, WillSee, Retire
  <2>3. QED
    BY <2>1, <2>2
<1>21. CASE MailboxReturn(t)
  BY <1>21, <1>a, <1>q DEF TypeOK, WillSee, MailboxReturn
<1>22. CASE MailboxSuspend(t)
  <2>1. CASE x = run[t]
    BY <1>22, <2>1, <1>a DEF TypeOK, Pending, WillSee, MailboxSuspend
  <2>2. CASE x # run[t]
    BY <1>22, <2>2, <1>a, <1>q DEF TypeOK, WillSee, MailboxSuspend
  <2>3. QED
    BY <2>1, <2>2
<1>23. QED
  BY <1>1, <1>2, <1>3, <1>4, <1>5, <1>6, <1>7, <1>8, <1>9, <1>10, <1>11, <1>12,
     <1>13, <1>14, <1>15, <1>16, <1>17, <1>18, <1>19, <1>20, <1>21, <1>22
  DEF Move, Call, Loop
\* Nothing is attached at first.
LEMMA IInvInit == Init => IInv
<1> SUFFICES ASSUME Init PROVE IInv
  OBVIOUS
<1> USE DEF Init
<1>1. TypeOK
  BY DEF TypeOK, Loops
<1>2. \A e \in Entities : Runners(e) = {} /\ Callers(e) = {} /\ Posters(e) = {}
  BY ActorSystemAssumption DEF Runners, Callers, Posters
<1>3. \A e \in Entities : /\ Cardinality(Runners(e)) = 0
                          /\ Cardinality(Callers(e)) = 0
                          /\ Cardinality(Posters(e)) = 0
  BY <1>2, FS_EmptySet
<1>4. TokenIsOne
  BY <1>3 DEF TokenIsOne, Token, One
<1>5. CountIsExact
  BY <1>1, <1>3 DEF CountIsExact, One
<1>6. ThreadsAreRight /\ LoopsAreRight /\ MailIsRight /\ WakeupIsPending
  BY DEF ThreadsAreRight, Running, Calling, Deciding, LoopsAreRight, LoopIsRight, MailIsRight,
         WakeupIsPending, Pending
<1>7. QED
  BY <1>1, <1>4, <1>5, <1>6 DEF IInv

\* A step of the system is a step of one of its threads.
LEMMA NextIsMove == Next => \E t \in Threads : Move(t)
  BY DEF Next, Move

\* Every step keeps the conjunction.
LEMMA IInvStep == IInv /\ [Next]_vars => IInv'
<1> SUFFICES ASSUME IInv, [Next]_vars PROVE IInv'
  OBVIOUS
<1>1. CASE Next
  <2>1. PICK t \in Threads : Move(t)
    BY <1>1, NextIsMove
  <2>2. TypeOK'
    BY <2>1, TypeStep
  <2>3. ThreadsAreRight' /\ LoopsAreRight'
    BY <2>1, ThreadsStep, LoopsStep
  <2>4. TokenIsOne' /\ CountIsExact'
    BY <2>1, TokenStep, CountStep
  <2>5. MailIsRight' /\ WakeupIsPending'
    BY <2>1, MailStep, WakeupStep
  <2>6. QED
    BY <2>2, <2>3, <2>4, <2>5 DEF IInv
<1>2. CASE UNCHANGED vars
  <2> USE <1>2 DEF vars, entityVars, threadVars, IInv
  <2>1. \A e \in Entities :
          Runners(e)' = Runners(e) /\ Callers(e)' = Callers(e) /\ Posters(e)' = Posters(e)
    BY DEF Runners, Callers, Posters
  <2>2. TypeOK'
    BY DEF TypeOK
  <2>3. ThreadsAreRight' /\ MailIsRight'
    BY DEF ThreadsAreRight, MailIsRight
  <2>4. LoopsAreRight'
    BY <2>1 DEF LoopsAreRight, LoopIsRight
  <2>5. TokenIsOne'
    BY <2>1 DEF TokenIsOne, Token
  <2>6. CountIsExact'
    BY <2>1, <2>2 DEF CountIsExact
  <2>7. WakeupIsPending'
    BY DEF WakeupIsPending, Pending, WillSee
  <2>8. QED
    BY <2>2, <2>3, <2>4, <2>5, <2>6, <2>7
<1>3. QED
  BY <1>1, <1>2

\* The conjunction above holds in every state, whatever the fairness.
THEOREM Invariance == Spec => []IInv
<1>1. QED
  BY IInvInit, IInvStep, PTL DEF Spec, Safety

\* Every state is well typed: no count is given back below zero.
THEOREM TypeCorrect == Spec => []TypeOK
<1>1. IInv => TypeOK
  BY DEF IInv
<1>2. QED
  BY Invariance, <1>1, PTL

\* One thread, task or suspended mailbox at a time has the right to run an
\* entity, and while a mail waits or a destroy is due somebody has that right or
\* is about to see the work (_queue_flag, flag_ready, flag_finish).
THEOREM RunnersCorrect == Spec => []RunnersAreRight
<1>1. IInv => OneRunner
  BY DEF IInv, OneRunner, TokenIsOne, Token, LoopsAreRight, LoopIsRight, ThreadsAreRight
<1>2. IInv => NoLostWakeup
  <2> SUFFICES ASSUME IInv, NEW e \in Entities, loop[e] \in {"initial", "waiting"},
                      posted[e] = 0, Callers(e) = {}
               PROVE  head[e] = accepted[e] /\ ~destroy[e]
    BY DEF NoLostWakeup
  <2>1. \A t \in Threads : ~WillSee(t, e)
    BY DEF Callers, WillSee
  <2>2. QED
    BY <2>1 DEF IInv, WakeupIsPending, Pending
<1>3. QED
  BY Invariance, <1>1, <1>2, PTL DEF RunnersAreRight

\* An entity is counted by exactly those who use it, its token included, and
\* nobody uses it once it was deleted (entity::acquire, release, _deleter).
THEOREM CountCorrect == Spec => []CountKeepsEntity
<1>1. IInv => CountIsExact
  BY DEF IInv
<1>2. IInv => UseIsSafe
  <2> SUFFICES ASSUME IInv, NEW e \in deleted
               PROVE  /\ Runners(e) = {} /\ Callers(e) = {}
                      /\ posted[e] = 0
                      /\ loop[e] = "done"
    BY DEF UseIsSafe
  <2>1. e \in Entities /\ posted[e] \in Nat
    BY DEF IInv, TypeOK
  <2>2. loop[e] = "done" /\ count[e] = 0
    BY <2>1 DEF IInv, LoopsAreRight, LoopIsRight
  <2>3. \A t \in Threads : run[t] # e /\ target[t] # e
    BY <2>1, <2>2, Counted
  <2>4. posted[e] = 0
    BY <2>1, <2>2 DEF IInv, LoopsAreRight, LoopIsRight
  <2>5. QED
    BY <2>2, <2>3, <2>4 DEF Runners, Callers
<1>3. QED
  BY Invariance, <1>1, <1>2, PTL DEF CountKeepsEntity

-----------------------------------------------------------------------------

\* The entities of Box's busy and ended.
IsBusy(e)  == loop[e] = "mailbox" \/ \E u \in Threads : run[u] = e /\ Handling(u)
IsEnded(e) == loop[e] = "done" \/ \E u \in Threads : run[u] = e /\ pc[u] = "retire"

\* A step that leaves the mails, the requests and those two sets alone is a
\* stutter of Box.
LEMMA BoxStutter ==
  ASSUME UNCHANGED <<accepted, taken, destroy, deleted>>,
         \A e \in Entities : (IsBusy(e)' <=> IsBusy(e)) /\ (IsEnded(e)' <=> IsEnded(e))
  PROVE  UNCHANGED Box!mvars
<1>1. {e \in Entities : loop[e] = "mailbox" \/ \E u \in Runners(e) : Handling(u)}'
        = {e \in Entities : loop[e] = "mailbox" \/ \E u \in Runners(e) : Handling(u)}
  BY DEF IsBusy, Runners
<1>2. {e \in Entities : loop[e] = "done" \/ \E u \in Runners(e) : pc[u] = "retire"}'
        = {e \in Entities : loop[e] = "done" \/ \E u \in Runners(e) : pc[u] = "retire"}
  BY DEF IsEnded, Runners
<1>3. QED
  BY <1>1, <1>2 DEF Box!mvars

\* The actions of Box.
LEMMA BoxNext ==
  ASSUME NEW e \in Entities
  PROVE  /\ Box!Accept(e) => Box!MNext
         /\ Box!Take(e) => Box!MNext
         /\ Box!Handled(e) => Box!MNext
         /\ Box!Refuse(e) => Box!MNext
         /\ Box!Ask(e) => Box!MNext
         /\ Box!End(e) => Box!MNext
         /\ Box!Delete(e) => Box!MNext
BY DEF Box!MNext

\* Each step of the system is a step of Box or a stutter of it.
LEMMA BoxStep ==
  ASSUME IInv, NEW t \in Threads, Move(t)
  PROVE  Box!MNext \/ UNCHANGED Box!mvars
<1> USE DEF IInv, Goto, Return, Running, Calling, Deciding, entityVars, threadVars
<1>a. /\ None \notin Entities
      /\ pc[t] \in Running => run[t] \in Entities
      /\ pc[t] \in Calling <=> target[t] \in Entities
      /\ pc[t] = "idle" => run[t] = None
      /\ run[t] \in Entities => loop[run[t]] = "running"
  BY ActorSystemAssumption DEF TypeOK, ThreadsAreRight
<1>r. \A u \in Threads : run[t] \in Entities /\ run[u] = run[t] => u = t
  BY RunnerIsAlone
<1>f. \A u \in Threads \ {t} : pc'[u] = pc[u] /\ run'[u] = run[u]
  BY Frame
<1>t. TypeOK'
  BY TypeStep
<1>d. target[t] \in Entities => target[t] \notin deleted
  <2>1. target[t] \in Entities => count[target[t]] >= 1
    BY Counted
  <2>2. QED
    BY <2>1 DEF LoopsAreRight, LoopIsRight
<1>s. ASSUME UNCHANGED <<accepted, taken, destroy, deleted>>,
             \A e \in Entities : loop'[e] = loop[e],
             run'[t] = run[t],
             run[t] \in Entities => /\ Handling(t)' <=> Handling(t)
                                    /\ pc'[t] = "retire" <=> pc[t] = "retire"
      PROVE  UNCHANGED Box!mvars
  BY <1>s, <1>f, <1>a, BoxStutter DEF IsBusy, IsEnded, Handling
<1>1. ASSUME NEW e \in Entities, Attach(t, e) PROVE Box!MNext \/ UNCHANGED Box!mvars
  <2>1. \A x \in Entities : (IsBusy(x)' <=> IsBusy(x)) /\ (IsEnded(x)' <=> IsEnded(x))
    BY <1>1, <1>a, <1>r, <1>f DEF TypeOK, IsBusy, IsEnded, Handling, Attach
  <2>2. QED
    BY <1>1, <2>1, BoxStutter DEF Attach
<1>2. ASSUME NEW e \in Entities, EnqueueAcquire(t, e) PROVE Box!MNext \/ UNCHANGED Box!mvars
  BY <1>2, <1>a, <1>s DEF TypeOK, Handling, EnqueueAcquire, Acquire
<1>3. ASSUME NEW e \in Entities, DestroyAcquire(t, e) PROVE Box!MNext \/ UNCHANGED Box!mvars
  BY <1>3, <1>a, <1>s DEF TypeOK, Handling, DestroyAcquire, Acquire
<1>4. ASSUME NEW e \in Entities, Execute(t, e) PROVE Box!MNext \/ UNCHANGED Box!mvars
  <2>1. \A x \in Entities : (IsBusy(x)' <=> IsBusy(x)) /\ (IsEnded(x)' <=> IsEnded(x))
    BY <1>4, <1>a, <1>r, <1>f DEF TypeOK, IsBusy, IsEnded, Handling, Execute
  <2>2. QED
    BY <1>4, <2>1, BoxStutter DEF Execute
<1>5. ASSUME NEW e \in Entities, MailboxResume(t, e) PROVE Box!MNext \/ UNCHANGED Box!mvars
  <2>1. \A x \in Entities : (IsBusy(x)' <=> IsBusy(x)) /\ (IsEnded(x)' <=> IsEnded(x))
    BY <1>5, <1>a, <1>r, <1>f DEF TypeOK, IsBusy, IsEnded, Handling, MailboxResume
  <2>2. QED
    BY <1>5, <2>1, BoxStutter DEF MailboxResume
<1>6. CASE EnqueueEmplace(t)
  <2>1. \A x \in Entities : (IsBusy(x)' <=> IsBusy(x)) /\ (IsEnded(x)' <=> IsEnded(x))
    BY <1>6, <1>a, <1>f DEF TypeOK, IsBusy, IsEnded, Handling, EnqueueEmplace
  <2>s. /\ {x \in Entities : loop[x] = "mailbox" \/ \E u \in Runners(x) : Handling(u)}'
           = {x \in Entities : loop[x] = "mailbox" \/ \E u \in Runners(x) : Handling(u)}
        /\ {x \in Entities : loop[x] = "done" \/ \E u \in Runners(x) : pc[u] = "retire"}'
           = {x \in Entities : loop[x] = "done" \/ \E u \in Runners(x) : pc[u] = "retire"}
    BY <2>1 DEF IsBusy, IsEnded, Runners
  <2>2. Box!Accept(target[t])
    BY <1>6, <2>s, <1>a, <1>d DEF Box!Accept, EnqueueEmplace
  <2>3. QED
    BY <1>6, <2>2, <1>a, BoxNext DEF EnqueueEmplace
<1>7. CASE DestroySet(t)
  <2>1. \A x \in Entities : (IsBusy(x)' <=> IsBusy(x)) /\ (IsEnded(x)' <=> IsEnded(x))
    BY <1>7, <1>a, <1>f DEF TypeOK, IsBusy, IsEnded, Handling, DestroySet
  <2>s. /\ {x \in Entities : loop[x] = "mailbox" \/ \E u \in Runners(x) : Handling(u)}'
           = {x \in Entities : loop[x] = "mailbox" \/ \E u \in Runners(x) : Handling(u)}
        /\ {x \in Entities : loop[x] = "done" \/ \E u \in Runners(x) : pc[u] = "retire"}'
           = {x \in Entities : loop[x] = "done" \/ \E u \in Runners(x) : pc[u] = "retire"}
    BY <2>1 DEF IsBusy, IsEnded, Runners
  <2>2. {x \in Entities : destroy[x]}' = {x \in Entities : destroy[x]} \union {target[t]}
    BY <1>7, <1>a DEF DestroySet, TypeOK
  <2>3. PICK e \in Entities : e = target[t]
    BY <1>7, <1>a DEF DestroySet
  <2>4. Box!Ask(e)
    BY <1>7, <2>s, <2>2, <2>3, <1>a, <1>d DEF Box!Ask, DestroySet
  <2>5. QED
    BY <2>4, BoxNext
<1>8. CASE ReadyDestroy(t)
  BY <1>8, <1>a, <1>s DEF TypeOK, Handling, ReadyDestroy
<1>9. CASE EmptyLoad(t)
  BY <1>9, <1>a, <1>s DEF TypeOK, Handling, EmptyLoad
<1>10. CASE EmptyRead(t)
  BY <1>10, <1>a, <1>s DEF TypeOK, Handling, EmptyRead
<1>11. CASE ReadyExchangeLose(t)
  BY <1>11, <1>a, <1>s DEF TypeOK, Handling, ReadyExchangeLose
<1>12. CASE ReadyExchangeWin(t)
  <2>1. CASE inwait[t]
    <3>0. run[t] = None
      BY <2>1 DEF ThreadsAreRight
    <3>1. ~flag[target[t]] /\ target[t] \in Entities
      BY <1>12, <1>a DEF ReadyExchangeWin
    <3>2. loop[target[t]] \notin {"mailbox", "done"}
      BY <3>1, ClearFlag
    <3>3. /\ pc' = [pc EXCEPT ![t] = "check"] /\ run' = [run EXCEPT ![t] = target[t]]
          /\ loop' = [loop EXCEPT ![target[t]] = "running"]
      BY <1>12, <2>1 DEF ReadyExchangeWin
    <3>4. \A x \in Entities : (IsBusy(x)' <=> IsBusy(x)) /\ (IsEnded(x)' <=> IsEnded(x))
      BY <3>0, <3>1, <3>2, <3>3, <1>a, <1>f DEF TypeOK, IsBusy, IsEnded, Handling
    <3>5. QED
      BY <1>12, <3>4, BoxStutter DEF ReadyExchangeWin
  <2>2. CASE ~inwait[t]
    BY <1>12, <2>2, <1>a, <1>s DEF TypeOK, Handling, ReadyExchangeWin
  <2>3. QED
    BY <2>1, <2>2
<1>13. CASE Post(t)
  BY <1>13, <1>a, <1>s DEF TypeOK, Handling, Post
<1>14. CASE Release(t)
  <2>1. \A x \in Entities : (IsBusy(x)' <=> IsBusy(x)) /\ (IsEnded(x)' <=> IsEnded(x))
    <3>1. \A u \in Threads : run'[u] = run[u] /\ (run[u] \in Entities =>
            (Handling(u)' <=> Handling(u)) /\ (pc'[u] = "retire" <=> pc[u] = "retire"))
      BY <1>14, <1>a, <1>f DEF TypeOK, Handling, Release
    <3>2. loop' = loop
      BY <1>14 DEF Release
    <3>3. QED
      BY <3>1, <3>2 DEF IsBusy, IsEnded
  <2>2. CASE count[target[t]] = 1
    <3>1. target[t] \in Entities
      BY <1>14, <1>a DEF Release
    <3>2. loop[target[t]] = "done"
      BY <2>2, <3>1, Counted
    <3>3. Box!Delete(target[t])
      BY <1>14, <2>1, <2>2, <3>1, <3>2, <1>d DEF Box!Delete, IsBusy, IsEnded, Runners, Release
    <3>4. QED
      BY <3>1, <3>3, BoxNext
  <2>3. CASE count[target[t]] # 1
    BY <1>14, <2>1, <2>3, BoxStutter DEF Release
  <2>4. QED
    BY <2>2, <2>3
<1>15. CASE Finish(t)
  <2>1. \A x \in Entities : (IsBusy(x)' <=> IsBusy(x)) /\ (IsEnded(x)' <=> IsEnded(x))
    BY SMTT(30), <1>15, <1>a, <1>r, <1>f DEF TypeOK, IsBusy, IsEnded, Handling, Finish
  <2>2. QED
    BY <1>15, <2>1, BoxStutter DEF Finish
<1>16. CASE Check(t)
  <2>0. PICK e \in Entities : e = run[t]
    BY <1>16, <1>a DEF Check
  <2>1. CASE destroy[e]
    <3>1. \A x \in Entities : /\ IsBusy(x)' <=> IsBusy(x)
                              /\ IsEnded(x)' <=> IsEnded(x) \/ x = e
      BY <1>16, <2>0, <2>1, <1>a, <1>f DEF TypeOK, IsBusy, IsEnded, Handling, Check
    <3>2. ~IsBusy(e)
      BY <1>16, <2>0, <1>a, <1>r DEF IsBusy, Handling, Check
    <3>3. Box!End(e)
      BY <1>16, <2>0, <2>1, <3>1, <3>2 DEF Box!End, IsBusy, IsEnded, Runners, Check
    <3>4. QED
      BY <3>3, BoxNext
  <2>2. CASE ~destroy[e]
    BY <1>16, <2>0, <2>2, <1>a, <1>s DEF TypeOK, Handling, Check
  <2>3. QED
    BY <2>1, <2>2
<1>17. CASE Drain(t)
  BY <1>17, <1>a, <1>s DEF TypeOK, Handling, Drain
<1>18. CASE PopLoad(t)
  BY <1>18, <1>a, <1>s DEF TypeOK, Handling, PopLoad
<1>19. CASE PopStore(t)
  <2>0. PICK e \in Entities : e = run[t]
    BY <1>19, <1>a DEF PopStore
  <2>1. \A x \in Entities : /\ IsBusy(x)' <=> IsBusy(x) \/ x = e
                            /\ IsEnded(x)' <=> IsEnded(x)
    BY <1>19, <2>0, <1>a, <1>f DEF TypeOK, IsBusy, IsEnded, Handling, PopStore
  <2>2. ~IsBusy(e) /\ ~IsEnded(e)
    BY <1>19, <2>0, <1>a, <1>r DEF IsBusy, IsEnded, Handling, PopStore
  <2>3. /\ Len(taken[e]) = pos[t]
        /\ Len(taken[e]) < accepted[e]
    BY <1>19, <2>0 DEF PopStore, MailIsRight
  <2>4. taken' = [taken EXCEPT ![e] = Append(taken[e], Len(taken[e]) + 1)]
    BY <1>19, <2>0, <2>3 DEF PopStore
  <2>5. Box!Take(e)
    BY <1>19, <2>0, <2>1, <2>2, <2>3, <2>4 DEF Box!Take, IsBusy, IsEnded, Runners, PopStore
  <2>6. QED
    BY <2>5, BoxNext
<1>20. CASE Retire(t)
  <2>1. \A x \in Entities : (IsBusy(x)' <=> IsBusy(x)) /\ (IsEnded(x)' <=> IsEnded(x))
    BY <1>20, <1>a, <1>r, <1>f DEF TypeOK, IsBusy, IsEnded, Handling, Retire
  <2>2. QED
    BY <1>20, <2>1, BoxStutter DEF Retire
<1>21. CASE MailboxReturn(t)
  <2>0. PICK e \in Entities : e = run[t] /\ IsBusy(e)
    BY <1>21, <1>a DEF MailboxReturn, IsBusy, Handling
  <2>1. CASE pc'[t] = "drain"
    <3>1. \A x \in Entities : /\ IsBusy(x)' <=> IsBusy(x) /\ x # e
                              /\ IsEnded(x)' <=> IsEnded(x)
      BY <1>21, <2>0, <2>1, <1>a, <1>r, <1>f DEF TypeOK, IsBusy, IsEnded, Handling, MailboxReturn
    <3>2. Box!Handled(e)
      BY <1>21, <2>0, <3>1 DEF Box!Handled, IsBusy, IsEnded, Runners, MailboxReturn
    <3>3. QED
      BY <3>2, BoxNext
  <2>2. CASE pc'[t] = "retire"
    <3>1. \A x \in Entities : /\ IsBusy(x)' <=> IsBusy(x) /\ x # e
                              /\ IsEnded(x)' <=> IsEnded(x) \/ x = e
      BY <1>21, <2>0, <2>2, <1>a, <1>r, <1>f DEF TypeOK, IsBusy, IsEnded, Handling, MailboxReturn
    <3>2. Box!Refuse(e)
      BY <1>21, <2>0, <3>1 DEF Box!Refuse, IsBusy, IsEnded, Runners, MailboxReturn
    <3>3. QED
      BY <3>2, BoxNext
  <2>3. QED
    BY <1>21, <2>1, <2>2 DEF TypeOK, MailboxReturn
<1>22. CASE MailboxSuspend(t)
  <2>1. \A x \in Entities : (IsBusy(x)' <=> IsBusy(x)) /\ (IsEnded(x)' <=> IsEnded(x))
    BY <1>22, <1>a, <1>r, <1>f DEF TypeOK, IsBusy, IsEnded, Handling, MailboxSuspend
  <2>2. QED
    BY <1>22, <2>1, BoxStutter DEF MailboxSuspend
<1>23. QED
  BY <1>1, <1>2, <1>3, <1>4, <1>5, <1>6, <1>7, <1>8, <1>9, <1>10, <1>11, <1>12,
     <1>13, <1>14, <1>15, <1>16, <1>17, <1>18, <1>19, <1>20, <1>21, <1>22
  DEF Move, Call, Loop
\* The entities deliver mail as module Mailbox says: one mail at a time, in the
\* order of acceptance, none after the entity has ended.
THEOREM MailboxImplemented == Spec => ImplementsMailbox
<1>1. Init => Box!MInit
  BY ActorSystemAssumption DEF Init, Box!MInit, Runners
<1>2. IInv /\ [Next]_vars => [Box!MNext]_(Box!mvars)
  <2> SUFFICES ASSUME IInv, [Next]_vars PROVE Box!MNext \/ UNCHANGED Box!mvars
    OBVIOUS
  <2>1. CASE Next
    BY <2>1, NextIsMove, BoxStep
  <2>2. CASE UNCHANGED vars
    BY <2>2, BoxStutter DEF vars, entityVars, threadVars, IsBusy, IsEnded, Handling
  <2>3. QED
    BY <2>1, <2>2
<1>3. QED
  BY Invariance, <1>1, <1>2, PTL DEF Spec, Safety, ImplementsMailbox, Box!MSpec

=============================================================================
