--------------------------- MODULE SessionProofs ---------------------------
(***************************************************************************)
(* The safety of a session for any number of threads, messages and bytes.   *)
(* The argument for the references: each thread inside the session, each    *)
(* send in flight or finished, and the receive or the coroutine that        *)
(* follows it hold one reference each, and hand it on or give it up.  For   *)
(* the sends: whoever turns _send_time on has the one send in hand until    *)
(* it is turned off, by a thread, in the system or as a packet; and what    *)
(* was sent differs from what has left the queue by that send alone.        *)
(***************************************************************************)
EXTENDS Session, FiniteSetTheorems, SequenceTheorems, TLAPS

One(condition) == IF condition THEN 1 ELSE 0

SequencesAreTyped ==
  /\ queue \in Seq(Nat) /\ accepted \in Seq(Nat) /\ wire \in Seq(Nat)
  /\ flight \in Seq(Seq(Nat)) /\ results \in Seq(BOOLEAN)
  /\ broken \in BOOLEAN /\ stopped \in BOOLEAN

\* The coroutine is a receive under way, or run by one thread.
RolesAreRight ==
  \A t \in Threads :
    /\ pc[t] = "idle" => role[t] = "send"
    /\ pc[t] = "strayReceive" => role[t] = "completion"
    /\ pc[t] \in Coroutine => role[t] = "coroutine"
    /\ role[t] = "coroutine" => receiving = "none"
    /\ \A u \in Threads : role[t] = "coroutine" /\ role[u] = "coroutine" => t = u

\* The send in hand: a thread's, the system's or a packet's.
InHand == Cardinality(OwnsSend) + Len(flight) + Len(results)

\* _send_time is on while a send is in hand, and is left on without one only
\* when nothing can be sent any more.
OneSend ==
  /\ InHand <= One(sending)
  /\ sending /\ ~cancelled /\ ~broken => InHand = 1
  /\ \A t \in Threads : pc[t] \in {"abort", "cancelAbort"} => cancelled
  /\ \A i \in 1 .. Len(results) : ~results[i] => cancelled \/ broken

\* Messages that have left the queue.
Popped == Len(accepted) - Len(queue)

\* The messages in hand have been transferred, not yet taken out of the queue.
Transferred == (\E t \in Threads : pc[t] = "finish") \/ (\E i \in 1 .. Len(results) : results[i])

\* Messages are numbered as they are accepted; the queue is the last of them,
\* and the wire has the first.
MessagesAreRight ==
  /\ \A i \in 1 .. Len(accepted) : accepted[i] = i
  /\ \A i \in 1 .. Len(wire) : wire[i] = i
  /\ Len(queue) <= Len(accepted)
  /\ \A i \in 1 .. Len(queue) : queue[i] = Popped + i
  /\ Len(wire) = Popped + (IF Transferred THEN size ELSE 0)
  /\ Transferred \/ flight # <<>> => size <= Len(queue)
  /\ \A i \in 1 .. Len(flight) :
       Len(flight[i]) = size /\ \A j \in 1 .. size : flight[i][j] = Popped + j

\* The bytes of what is in the queue, or about to be, are counted.
Emplacers == {t \in Threads : pc[t] = "emplace"}
BytesAreRight == Len(queue) + Cardinality(Emplacers) <= byte

IInv ==
  /\ TypeOK
  /\ SequencesAreTyped
  /\ RolesAreRight
  /\ IoKeepsSession
  /\ OneSend
  /\ MessagesAreRight
  /\ BytesAreRight
  /\ NoLostMessage

-----------------------------------------------------------------------------
(* Threads move alone, and sets of threads change by one.                    *)

Kept == /\ TypeOK /\ SequencesAreTyped /\ RolesAreRight /\ IoKeepsSession
        /\ OneSend /\ MessagesAreRight /\ BytesAreRight

\* One thread moves: what it did not do before it may do now, and conversely.
LEMMA OneMoved ==
  ASSUME NEW S \in SUBSET Threads, NEW S2 \in SUBSET Threads, NEW t \in Threads,
         \A u \in Threads \ {t} : u \in S <=> u \in S2
  PROVE  /\ Cardinality(S) \in Nat
         /\ Cardinality(S2) \in Nat
         /\ Cardinality(S2) = Cardinality(S) - One(t \in S) + One(t \in S2)
<1>1. IsFiniteSet(S) /\ IsFiniteSet(S2) /\ IsFiniteSet(S \ {t})
  BY SessionAssumption, FS_Subset DEF Threads
<1>2. Cardinality(S) \in Nat /\ Cardinality(S2) \in Nat /\ Cardinality(S \ {t}) \in Nat
  BY <1>1, FS_CardinalityType
<1>3. Cardinality(S \ {t}) = Cardinality(S2 \ {t})
  <2>1. S \ {t} = S2 \ {t}
    OBVIOUS
  <2>2. QED
    BY <2>1
<1>4. Cardinality(S \ {t}) = IF t \in S THEN Cardinality(S) - 1 ELSE Cardinality(S)
  BY <1>1, FS_RemoveElement
<1>5. Cardinality(S2 \ {t}) = IF t \in S2 THEN Cardinality(S2) - 1 ELSE Cardinality(S2)
  BY <1>1, FS_RemoveElement
<1>6. QED
  BY <1>2, <1>3, <1>4, <1>5 DEF One

Owns(label) == label \in {"recheck", "post", "finish", "clear"}

\* The three counts when one thread moves.
LEMMA Counts ==
  ASSUME NEW t \in Threads, \A u \in Threads \ {t} : pc'[u] = pc[u]
  PROVE  /\ Cardinality(HoldsReference) \in Nat /\ Cardinality(HoldsReference') \in Nat
         /\ Cardinality(HoldsReference') =
              Cardinality(HoldsReference) - One(pc[t] \in Counted) + One(pc'[t] \in Counted)
         /\ Cardinality(OwnsSend) \in Nat /\ Cardinality(OwnsSend') \in Nat
         /\ Cardinality(OwnsSend') = Cardinality(OwnsSend) - One(Owns(pc[t])) + One(Owns(pc'[t]))
         /\ Cardinality(Emplacers) \in Nat /\ Cardinality(Emplacers') \in Nat
         /\ Cardinality(Emplacers') =
              Cardinality(Emplacers) - One(pc[t] = "emplace") + One(pc'[t] = "emplace")
<1>1. /\ Cardinality(HoldsReference) \in Nat /\ Cardinality(HoldsReference') \in Nat
      /\ Cardinality(HoldsReference') = Cardinality(HoldsReference) - One(pc[t] \in Counted) + One(pc'[t] \in Counted)
  <2>1. /\ HoldsReference \in SUBSET Threads /\ HoldsReference' \in SUBSET Threads
        /\ \A u \in Threads \ {t} : u \in HoldsReference <=> u \in HoldsReference'
        /\ t \in HoldsReference <=> pc[t] \in Counted
        /\ t \in HoldsReference' <=> pc'[t] \in Counted
    BY DEF HoldsReference
  <2>2. QED
    BY <2>1, OneMoved DEF One
<1>2. /\ Cardinality(OwnsSend) \in Nat /\ Cardinality(OwnsSend') \in Nat
      /\ Cardinality(OwnsSend') = Cardinality(OwnsSend) - One(Owns(pc[t])) + One(Owns(pc'[t]))
  <2>1. /\ OwnsSend \in SUBSET Threads /\ OwnsSend' \in SUBSET Threads
        /\ \A u \in Threads \ {t} : u \in OwnsSend <=> u \in OwnsSend'
        /\ t \in OwnsSend <=> Owns(pc[t])
        /\ t \in OwnsSend' <=> Owns(pc'[t])
    BY DEF OwnsSend, Owns
  <2>2. QED
    BY <2>1, OneMoved DEF One
<1>3. /\ Cardinality(Emplacers) \in Nat /\ Cardinality(Emplacers') \in Nat
      /\ Cardinality(Emplacers') = Cardinality(Emplacers) - One(pc[t] = "emplace") + One(pc'[t] = "emplace")
  <2>1. /\ Emplacers \in SUBSET Threads /\ Emplacers' \in SUBSET Threads
        /\ \A u \in Threads \ {t} : u \in Emplacers <=> u \in Emplacers'
        /\ t \in Emplacers <=> pc[t] = "emplace"
        /\ t \in Emplacers' <=> pc'[t] = "emplace"
    BY DEF Emplacers
  <2>2. QED
    BY <2>1, OneMoved DEF One
<1>4. QED
  BY <1>1, <1>2, <1>3

\* A thread moves itself alone.
LEMMA Alone ==
  ASSUME TypeOK, NEW t \in Threads, SessionSend(t) \/ SessionTimeout(t) \/ Step(t)
  PROVE  /\ \A u \in Threads \ {t} : pc'[u] = pc[u] /\ role'[u] = role[u]
         /\ pc' \in [Threads -> Counted \union Coroutine
                                  \union {"idle", "stray", "strayReceive", "cancelAcquire"}]
         /\ role' \in [Threads -> {"send", "coroutine", "completion", "timer"}]
<1> USE DEF TypeOK, Counted, Looping, Coroutine, send, node, kernel, ends, thread, Goto, Start, Idle, Return, AtEnd
<1>1. CASE SessionSend(t)
  BY <1>1 DEF SessionSend, Acquire
<1>2. CASE SessionTimeout(t)
  BY <1>2 DEF SessionTimeout, Acquire
<1>3. CASE Release(t)
  BY <1>3 DEF Release, Drop
<1>4. CASE CancelRelease(t)
  BY <1>4 DEF CancelRelease, Drop
<1>5. CASE SendEnqueue(t)
  BY <1>5 DEF SendEnqueue
<1>6. CASE Emplace(t)
  BY <1>6 DEF Emplace
<1>7. CASE SendReady(t)
  BY <1>7 DEF SendReady
<1>8. CASE Claim(t)
  BY <1>8 DEF Claim
<1>9. CASE Recheck(t)
  BY <1>9 DEF Recheck
<1>10. CASE SendPost(t)
  BY <1>10 DEF SendPost
<1>11. CASE SendFinish(t)
  BY <1>11 DEF SendFinish, Finish
<1>12. CASE SendClear(t)
  BY <1>12 DEF SendClear, Clear
<1>13. CASE Stray(t)
  BY <1>13 DEF Stray, CancelFlagRead
<1>14. CASE SessionCancel(t)
  BY <1>14 DEF SessionCancel, Acquire
<1>15. CASE Cancel(t)
  BY <1>15 DEF Cancel, Following
<1>16. CASE CancelIo(t)
  BY <1>16 DEF CancelIo, Following
<1>17. CASE SendCompletion(t)
  BY <1>17 DEF SendCompletion
<1>18. CASE ReceiveCompletion(t)
  BY <1>18 DEF ReceiveCompletion, EndCoroutine
<1>19. CASE SessionReceive(t)
  BY <1>19 DEF SessionReceive, EndCoroutine
<1>20. CASE ReceivePost(t)
  BY <1>20 DEF ReceivePost, EndCoroutine
<1>21. CASE StrayReceive(t)
  BY <1>21 DEF StrayReceive, CancelFlagRead
<1>22. QED
  BY <1>1, <1>2, <1>3, <1>4, <1>5, <1>6, <1>7, <1>8, <1>9, <1>10, <1>11, <1>12, <1>13, <1>14,
     <1>15, <1>16, <1>17, <1>18, <1>19, <1>20, <1>21 DEF Step

\* The coroutine and the receive own the reference of attach.
LEMMA Attached ==
  ASSUME Kept
  PROVE  /\ refs \in Nat /\ Cardinality(HoldsReference) \in Nat
         /\ Len(flight) \in Nat /\ Len(results) \in Nat
         /\ \A t \in Threads : pc[t] \in Counted => refs > 0 /\ alive
         /\ AttachHeld => refs > 0 /\ alive
         /\ \A t \in Threads : role[t] = "coroutine" => AttachHeld /\ alive
<1>1. IsFiniteSet(HoldsReference)
  BY SessionAssumption, FS_Subset DEF Threads, HoldsReference
<1>2. Cardinality(HoldsReference) \in Nat /\ (HoldsReference # {} => Cardinality(HoldsReference) # 0)
  BY <1>1, FS_CardinalityType, FS_EmptySet
<1>3. Len(flight) \in Nat /\ Len(results) \in Nat
  BY DEF Kept, SequencesAreTyped
<1>4. refs \in Nat /\ (alive <=> refs > 0)
  BY DEF Kept, TypeOK, IoKeepsSession
<1>5. refs = Cardinality(HoldsReference) + Len(flight) + Len(results) + (IF AttachHeld THEN 1 ELSE 0)
  BY DEF Kept, IoKeepsSession
<1>6. \A t \in Threads : role[t] = "coroutine" => AttachHeld
  BY DEF AttachHeld
<1>7. \A t \in Threads : pc[t] \in Counted => HoldsReference # {}
  BY DEF HoldsReference
<1>8. QED
  BY <1>2, <1>3, <1>4, <1>5, <1>6, <1>7

\* The coroutine goes on from one to the next of those that run it.
LEMMA RolesStep ==
  ASSUME Kept, NEW t \in Threads, SessionSend(t) \/ SessionTimeout(t) \/ Step(t)
  PROVE  RolesAreRight'
<1>0. /\ \A u \in Threads \ {t} : pc'[u] = pc[u] /\ role'[u] = role[u]
      /\ RolesAreRight /\ TypeOK
  BY Alone DEF Kept
<1>a. role[t] = "coroutine" => alive
  BY Attached
<1> SUFFICES /\ pc'[t] = "idle" => role'[t] = "send"
             /\ pc'[t] = "strayReceive" => role'[t] = "completion"
             /\ pc'[t] \in Coroutine => role'[t] = "coroutine"
             /\ receiving' # "none" => receiving # "none" \/ role[t] = "coroutine"
             /\ role'[t] = "coroutine" => receiving' = "none"
             /\ role'[t] = "coroutine" =>
                  role[t] = "coroutine" \/ \A u \in Threads : role[u] # "coroutine"
  BY <1>0 DEF RolesAreRight
<1> HIDE DEF Kept
<1> USE DEF TypeOK, Counted, Looping, Coroutine, RolesAreRight, send, node, kernel, ends, thread, Goto, Start, Idle, Return, AtEnd
<1>1. CASE SessionSend(t)
  BY <1>0, <1>a, <1>1 DEF SessionSend, Acquire
<1>2. CASE SessionTimeout(t)
  BY <1>0, <1>a, <1>2 DEF SessionTimeout, Acquire
<1>3. CASE Release(t)
  BY <1>0, <1>a, <1>3 DEF Release, Drop
<1>4. CASE CancelRelease(t)
  BY <1>0, <1>a, <1>4 DEF CancelRelease, Drop
<1>5. CASE SendEnqueue(t)
  BY <1>0, <1>a, <1>5 DEF SendEnqueue
<1>6. CASE Emplace(t)
  BY <1>0, <1>a, <1>6 DEF Emplace
<1>7. CASE SendReady(t)
  BY <1>0, <1>a, <1>7 DEF SendReady
<1>8. CASE Claim(t)
  BY <1>0, <1>a, <1>8 DEF Claim
<1>9. CASE Recheck(t)
  BY <1>0, <1>a, <1>9 DEF Recheck
<1>10. CASE SendPost(t)
  BY <1>0, <1>a, <1>10 DEF SendPost
<1>11. CASE SendFinish(t)
  BY <1>0, <1>a, <1>11 DEF SendFinish, Finish
<1>12. CASE SendClear(t)
  BY <1>0, <1>a, <1>12 DEF SendClear, Clear
<1>13. CASE Stray(t)
  BY <1>0, <1>a, <1>13 DEF Stray, CancelFlagRead
<1>14. CASE SessionCancel(t)
  BY <1>0, <1>a, <1>14 DEF SessionCancel, Acquire
<1>15. CASE Cancel(t)
  BY <1>0, <1>a, <1>15 DEF Cancel, Following
<1>16. CASE CancelIo(t)
  BY <1>0, <1>a, <1>16 DEF CancelIo, Following
<1>17. CASE SendCompletion(t)
  BY <1>0, <1>a, <1>17 DEF SendCompletion
<1>18. CASE ReceiveCompletion(t)
  BY <1>0, <1>a, <1>18 DEF ReceiveCompletion, EndCoroutine
<1>19. CASE SessionReceive(t)
  BY <1>0, <1>a, <1>19 DEF SessionReceive, EndCoroutine
<1>20. CASE ReceivePost(t)
  BY <1>0, <1>a, <1>20 DEF ReceivePost, EndCoroutine
<1>21. CASE StrayReceive(t)
  BY <1>0, <1>a, <1>21 DEF StrayReceive, CancelFlagRead
<1>22. QED
  BY <1>1, <1>2, <1>3, <1>4, <1>5, <1>6, <1>7, <1>8, <1>9, <1>10, <1>11, <1>12, <1>13, <1>14,
     <1>15, <1>16, <1>17, <1>18, <1>19, <1>20, <1>21 DEF Step

\* What is in flight ends with as many packets that say no.
LEMMA Fails ==
  ASSUME NEW T, NEW q \in Seq(T)
  PROVE  /\ [i \in DOMAIN q |-> FALSE] \in Seq(BOOLEAN)
         /\ Len([i \in DOMAIN q |-> FALSE]) = Len(q)
<1>1. DOMAIN q = 1 .. Len(q) /\ Len(q) \in Nat
  OBVIOUS
<1>2. [i \in 1 .. Len(q) |-> FALSE] \in Seq(BOOLEAN)
  BY <1>1
<1>3. QED
  BY <1>1, <1>2

\* Two sequences in one.
LEMMA Joined ==
  ASSUME NEW T, NEW p \in Seq(T), NEW q \in Seq(T)
  PROVE  /\ p \o q \in Seq(T)
         /\ Len(p \o q) = Len(p) + Len(q)
         /\ \A i \in 1 .. Len(p) : (p \o q)[i] = p[i]
         /\ \A i \in 1 .. Len(q) : (p \o q)[Len(p) + i] = q[i]
         /\ \A i \in 1 .. Len(p \o q) : i > Len(p) => i - Len(p) \in 1 .. Len(q) /\ (p \o q)[i] = q[i - Len(p)]
OBVIOUS

\* A sequence without its first element.
LEMMA Shorter ==
  ASSUME NEW T, NEW q \in Seq(T), q # <<>>
  PROVE  /\ Len(q) \in Nat /\ Len(q) > 0 /\ Head(q) = q[1] /\ q[1] \in T
         /\ Tail(q) \in Seq(T) /\ Len(Tail(q)) = Len(q) - 1
         /\ \A i \in 1 .. Len(Tail(q)) : Tail(q)[i] = q[i + 1]
OBVIOUS

\* The packets there will be when nothing is in flight any more.
LEMMA FailsJoined ==
  ASSUME NEW p \in Seq(BOOLEAN), NEW T, NEW q \in Seq(T)
  PROVE  LET r == p \o [i \in DOMAIN q |-> FALSE] IN
         /\ r \in Seq(BOOLEAN)
         /\ Len(r) = Len(p) + Len(q)
         /\ \A i \in 1 .. Len(r) : r[i] <=> i <= Len(p) /\ p[i]
<1> DEFINE f == [i \in DOMAIN q |-> FALSE]
<1>1. f \in Seq(BOOLEAN) /\ Len(f) = Len(q)
  BY Fails
<1>2. \A i \in 1 .. Len(f) : f[i] = FALSE
  BY <1>1
<1> HIDE DEF f
<1>3. /\ p \o f \in Seq(BOOLEAN)
      /\ Len(p \o f) = Len(p) + Len(f)
      /\ \A i \in 1 .. Len(p) : (p \o f)[i] = p[i]
      /\ \A i \in 1 .. Len(p \o f) :
           i > Len(p) => i - Len(p) \in 1 .. Len(f) /\ (p \o f)[i] = f[i - Len(p)]
  <2>1. p \in Seq(BOOLEAN) /\ f \in Seq(BOOLEAN)
    BY <1>1
  <2>2. \A U : \A r1, r2 \in Seq(U) :
          /\ r1 \o r2 \in Seq(U)
          /\ Len(r1 \o r2) = Len(r1) + Len(r2)
          /\ \A i \in 1 .. Len(r1) : (r1 \o r2)[i] = r1[i]
          /\ \A i \in 1 .. Len(r1 \o r2) :
               i > Len(r1) => i - Len(r1) \in 1 .. Len(r2) /\ (r1 \o r2)[i] = r2[i - Len(r1)]
    BY Joined, ZenonT(40)
  <2>3. QED
    BY <2>1, <2>2, Zenon
<1>4. ASSUME NEW i \in 1 .. Len(p \o f) PROVE (p \o f)[i] <=> i <= Len(p) /\ p[i]
  <2>1. Len(p) \in Nat /\ i \in Nat
    BY <1>3
  <2>2. CASE i <= Len(p)
    BY <1>3, <2>1, <2>2
  <2>3. CASE ~(i <= Len(p))
    <3>1. i > Len(p)
      BY <2>1, <2>3
    <3>2. (p \o f)[i] = FALSE
      BY <1>2, <1>3, <3>1
    <3>3. QED
      BY <2>3, <3>2
  <2>4. QED
    BY <2>2, <2>3
<1>5. QED
  BY <1>1, <1>3, <1>4 DEF f

\* What is to be taken out of the queue is in it.
LEMMA FinishFits ==
  ASSUME Kept, NEW t \in Threads, pc[t] = "finish"
  PROVE  size \in Nat /\ size <= Len(queue)
BY DEF Kept, TypeOK, MessagesAreRight, Transferred

\* The sequences stay sequences of messages.
LEMMA TypedStep ==
  ASSUME Kept, NEW t \in Threads, SessionSend(t) \/ SessionTimeout(t) \/ Step(t)
  PROVE  SequencesAreTyped'
<1>0. SequencesAreTyped /\ TypeOK
  BY DEF Kept
<1> USE DEF SequencesAreTyped, send, node, kernel, ends, thread, Goto, Start, Idle, Return, AtEnd
<1>1. CASE SessionSend(t)
  BY <1>0, <1>1 DEF SessionSend, Acquire
<1>2. CASE SessionTimeout(t)
  BY <1>0, <1>2 DEF SessionTimeout, Acquire
<1>3. CASE Release(t)
  BY <1>0, <1>3 DEF Release, Drop
<1>4. CASE CancelRelease(t)
  BY <1>0, <1>4 DEF CancelRelease, Drop
<1>5. CASE SendEnqueue(t)
  BY <1>0, <1>5 DEF SendEnqueue
<1>6. CASE Emplace(t)
  <2>1. Len(accepted) + 1 \in Nat
    BY <1>0
  <2>2. QED
    BY <1>0, <1>6, <2>1 DEF Emplace
<1>7. CASE SendReady(t)
  BY <1>0, <1>7 DEF SendReady
<1>8. CASE Claim(t)
  BY <1>0, <1>8 DEF Claim
<1>9. CASE Recheck(t)
  BY <1>0, <1>9 DEF Recheck
<1>10. CASE SendPost(t)
  <2>1. flight' = flight \/ flight' = Append(flight, queue)
    BY <1>10 DEF SendPost
  <2>2. flight' \in Seq(Seq(Nat))
    <3>1. flight \in Seq(Seq(Nat)) /\ queue \in Seq(Nat)
      BY <1>0
    <3> DEFINE r == Append(flight, queue)
    <3>2. r \in Seq(Seq(Nat))
      BY <3>1
    <3> HIDE DEF r
    <3>3. flight' = flight \/ flight' = r
      BY <2>1 DEF r
    <3>4. QED
      BY <3>1, <3>2, <3>3
  <2>3. wire' = wire \/ wire' = wire \o queue
    BY <1>10 DEF SendPost
  <2>4. wire' \in Seq(Nat)
    <3>1. wire \in Seq(Nat) /\ queue \in Seq(Nat)
      BY <1>0
    <3> DEFINE r == wire \o queue
    <3>2. r \in Seq(Nat)
      BY <3>1
    <3> HIDE DEF r
    <3>3. wire' = wire \/ wire' = r
      BY <2>3 DEF r
    <3>4. QED
      BY <3>1, <3>2, <3>3
  <2>5. QED
    BY <1>0, <1>10, <2>2, <2>4 DEF SendPost
<1>11. CASE SendFinish(t)
  <2>1. queue' = SubSeq(queue, size + 1, Len(queue))
    BY <1>11 DEF SendFinish, Finish
  <2>2. size + 1 \in 1 .. Len(queue) + 1
    BY <1>11, FinishFits DEF SendFinish, Finish
  <2>3. queue' \in Seq(Nat)
    BY <1>0, <2>1, <2>2
  <2>4. QED
    BY <1>0, <1>11, <2>3 DEF SendFinish, Finish
<1>12. CASE SendClear(t)
  BY <1>0, <1>12 DEF SendClear, Clear
<1>13. CASE Stray(t)
  BY <1>0, <1>13 DEF Stray, CancelFlagRead
<1>14. CASE SessionCancel(t)
  BY <1>0, <1>14 DEF SessionCancel, Acquire
<1>15. CASE Cancel(t)
  BY <1>0, <1>15 DEF Cancel, Following
<1>16. CASE CancelIo(t)
  <2>1. [i \in DOMAIN flight |-> FALSE] \in Seq(BOOLEAN)
    BY <1>0, Fails
  <2>2. QED
    BY <1>0, <1>16, <2>1 DEF CancelIo, Following
<1>17. CASE SendCompletion(t)
  <2>1. results' = Tail(results) /\ results # <<>>
    BY <1>17 DEF SendCompletion
  <2>2. results' \in Seq(BOOLEAN)
    BY <1>0, <2>1, Shorter
  <2>3. QED
    BY <1>0, <1>17, <2>2 DEF SendCompletion
<1>18. CASE ReceiveCompletion(t)
  BY <1>0, <1>18 DEF ReceiveCompletion, EndCoroutine
<1>19. CASE SessionReceive(t)
  BY <1>0, <1>19 DEF SessionReceive, EndCoroutine
<1>20. CASE ReceivePost(t)
  BY <1>0, <1>20 DEF ReceivePost, EndCoroutine
<1>21. CASE StrayReceive(t)
  BY <1>0, <1>21 DEF StrayReceive, CancelFlagRead
<1>22. QED
  BY <1>1, <1>2, <1>3, <1>4, <1>5, <1>6, <1>7, <1>8, <1>9, <1>10, <1>11, <1>12, <1>13, <1>14,
     <1>15, <1>16, <1>17, <1>18, <1>19, <1>20, <1>21 DEF Step

\* What a step of a thread changes of what holds a reference.
Balance(t) ==
  /\ refs' = refs - One(pc[t] \in Counted) + One(pc'[t] \in Counted)
             - Len(flight) - Len(results) + Len(flight') + Len(results')
             - One(AttachHeld) + One(AttachHeld')
  /\ alive' <=> refs' > 0

\* A thread takes a reference, gives one up, or hands one on to the system.
LEMMA BalanceStep ==
  ASSUME Kept, NEW t \in Threads, SessionSend(t) \/ SessionTimeout(t) \/ Step(t)
  PROVE  Balance(t)
<1> DEFINE others == \E u \in Threads \ {t} : role[u] = "coroutine"
<1>0. /\ AttachHeld <=> receiving # "none" \/ role[t] = "coroutine" \/ others
      /\ AttachHeld' <=> receiving' # "none" \/ role'[t] = "coroutine" \/ others
      /\ others => receiving = "none" /\ role[t] # "coroutine"
      /\ role[t] = "coroutine" => receiving = "none"
      /\ pc[t] = "idle" => role[t] = "send"
      /\ pc[t] = "strayReceive" => role[t] = "completion"
      /\ pc[t] \in Coroutine => role[t] = "coroutine"
  BY Alone DEF Kept, AttachHeld, RolesAreRight
<1> HIDE DEF others
<1>a. /\ refs \in Nat /\ (alive <=> refs > 0) /\ TypeOK
      /\ Len(flight) \in Nat /\ Len(results) \in Nat
      /\ pc[t] \in Counted => refs > 0
      /\ AttachHeld => refs > 0
  BY Attached DEF Kept, IoKeepsSession
<1>b. flight \in Seq(Seq(Nat)) /\ results \in Seq(BOOLEAN)
  BY DEF Kept, SequencesAreTyped
<1> USE DEF TypeOK, Counted, Looping, Coroutine, send, node, kernel, ends, thread, Goto, Start, Idle, Return, AtEnd
<1>1. CASE SessionSend(t)
  <2>1. flight' = flight /\ results' = results
    BY <1>1 DEF SessionSend, Acquire
  <2>2. /\ refs' = refs - One(pc[t] \in Counted) + One(pc'[t] \in Counted)
                    - One(AttachHeld) + One(AttachHeld')
        /\ alive' <=> refs' > 0
    BY <1>0, <1>a, <1>1 DEF SessionSend, Acquire, One
  <2>3. QED
    BY <1>a, <2>1, <2>2 DEF Balance, One
<1>2. CASE SessionTimeout(t)
  <2>1. flight' = flight /\ results' = results
    BY <1>2 DEF SessionTimeout, Acquire
  <2>2. /\ refs' = refs - One(pc[t] \in Counted) + One(pc'[t] \in Counted)
                    - One(AttachHeld) + One(AttachHeld')
        /\ alive' <=> refs' > 0
    BY <1>0, <1>a, <1>2 DEF SessionTimeout, Acquire, One
  <2>3. QED
    BY <1>a, <2>1, <2>2 DEF Balance, One
<1>3. CASE Release(t)
  <2>a. /\ flight' = flight /\ results' = results /\ refs' = refs - 1
        /\ alive' <=> alive /\ refs # 1
        /\ receiving' = receiving
    BY <1>3 DEF Release, Drop
  <2>b. pc[t] \in Counted /\ pc'[t] \notin Counted
    BY <1>a, <1>3 DEF Release
  <2>c. role'[t] = "coroutine" <=> role[t] = "coroutine"
    BY <1>a, <1>3 DEF Release
  <2>1. /\ flight' = flight /\ results' = results /\ refs' = refs - 1
        /\ alive' <=> alive /\ refs # 1
        /\ pc[t] \in Counted /\ pc'[t] \notin Counted /\ (AttachHeld' <=> AttachHeld)
    BY <1>0, <2>a, <2>b, <2>c
  <2>2. alive' <=> refs' > 0
    BY <1>a, <2>1
  <2>3. QED
    BY <1>a, <2>1, <2>2 DEF Balance, One
<1>4. CASE CancelRelease(t)
  <2>a. /\ flight' = flight /\ results' = results /\ refs' = refs - 1
        /\ alive' <=> alive /\ refs # 1
        /\ receiving' = receiving
    BY <1>4 DEF CancelRelease, Drop
  <2>b. pc[t] \in Counted /\ pc'[t] \notin Counted
    BY <1>a, <1>4 DEF CancelRelease
  <2>c. role'[t] = "coroutine" <=> role[t] = "coroutine"
    BY <1>a, <1>4 DEF CancelRelease
  <2>1. /\ flight' = flight /\ results' = results /\ refs' = refs - 1
        /\ alive' <=> alive /\ refs # 1
        /\ pc[t] \in Counted /\ pc'[t] \notin Counted /\ (AttachHeld' <=> AttachHeld)
    BY <1>0, <2>a, <2>b, <2>c
  <2>2. alive' <=> refs' > 0
    BY <1>a, <2>1
  <2>3. QED
    BY <1>a, <2>1, <2>2 DEF Balance, One
<1>5. CASE SendEnqueue(t)
  <2>1. flight' = flight /\ results' = results
    BY <1>5 DEF SendEnqueue
  <2>2. /\ refs' = refs - One(pc[t] \in Counted) + One(pc'[t] \in Counted)
                    - One(AttachHeld) + One(AttachHeld')
        /\ alive' <=> refs' > 0
    BY <1>0, <1>a, <1>5 DEF SendEnqueue, One
  <2>3. QED
    BY <1>a, <2>1, <2>2 DEF Balance, One
<1>6. CASE Emplace(t)
  <2>1. flight' = flight /\ results' = results
    BY <1>6 DEF Emplace
  <2>2. /\ refs' = refs - One(pc[t] \in Counted) + One(pc'[t] \in Counted)
                    - One(AttachHeld) + One(AttachHeld')
        /\ alive' <=> refs' > 0
    BY <1>0, <1>a, <1>6 DEF Emplace, One
  <2>3. QED
    BY <1>a, <2>1, <2>2 DEF Balance, One
<1>7. CASE SendReady(t)
  <2>1. flight' = flight /\ results' = results
    BY <1>7 DEF SendReady
  <2>2. /\ refs' = refs - One(pc[t] \in Counted) + One(pc'[t] \in Counted)
                    - One(AttachHeld) + One(AttachHeld')
        /\ alive' <=> refs' > 0
    BY <1>0, <1>a, <1>7 DEF SendReady, One
  <2>3. QED
    BY <1>a, <2>1, <2>2 DEF Balance, One
<1>8. CASE Claim(t)
  <2>1. flight' = flight /\ results' = results
    BY <1>8 DEF Claim
  <2>2. /\ refs' = refs - One(pc[t] \in Counted) + One(pc'[t] \in Counted)
                    - One(AttachHeld) + One(AttachHeld')
        /\ alive' <=> refs' > 0
    BY <1>0, <1>a, <1>8 DEF Claim, One
  <2>3. QED
    BY <1>a, <2>1, <2>2 DEF Balance, One
<1>9. CASE Recheck(t)
  <2>1. flight' = flight /\ results' = results
    BY <1>9 DEF Recheck
  <2>2. /\ refs' = refs - One(pc[t] \in Counted) + One(pc'[t] \in Counted)
                    - One(AttachHeld) + One(AttachHeld')
        /\ alive' <=> refs' > 0
    BY <1>0, <1>a, <1>9 DEF Recheck, One
  <2>3. QED
    BY <1>a, <2>1, <2>2 DEF Balance, One
<1>10. CASE SendPost(t)
  <2>1. /\ refs' = refs /\ alive' = alive /\ results' = results
        /\ pc[t] = "post" /\ receiving' = receiving /\ role' = role
        /\ \/ pc'[t] \in {"release", "finish"} /\ flight' = flight
           \/ pc'[t] = "stray" /\ flight' = Append(flight, queue)
        /\ AttachHeld' <=> AttachHeld
    BY <1>0, <1>a, <1>10 DEF SendPost
  <2>2. Len(Append(flight, queue)) = Len(flight) + 1
    BY <1>b
  <2>3. (alive' <=> refs' > 0) /\ One(AttachHeld') = One(AttachHeld)
    BY <1>a, <2>1 DEF One
  <2>4. refs' = refs - One(pc[t] \in Counted) + One(pc'[t] \in Counted)
                  - Len(flight) - Len(results) + Len(flight') + Len(results')
    BY <1>a, <2>1, <2>2 DEF One
  <2> DEFINE a == One(pc[t] \in Counted)
             b == One(pc'[t] \in Counted)
             c == One(AttachHeld)
             x == Len(flight')
             y == Len(results')
  <2>5. a \in Nat /\ b \in Nat /\ c \in Nat /\ x \in Nat /\ y \in Nat
    BY <1>a, <2>1, <2>2 DEF One
  <2>6. refs' = refs - a + b - Len(flight) - Len(results) + x + y
    BY <2>4
  <2> HIDE DEF a, b, c, x, y
  <2>7. refs' = refs - a + b - Len(flight) - Len(results) + x + y - c + c
    BY <1>a, <2>5, <2>6
  <2>8. QED
    BY <2>3, <2>7 DEF a, b, c, x, y, Balance
<1>11. CASE SendFinish(t)
  <2>1. flight' = flight /\ results' = results
    BY <1>11 DEF SendFinish, Finish
  <2>2. /\ refs' = refs - One(pc[t] \in Counted) + One(pc'[t] \in Counted)
                    - One(AttachHeld) + One(AttachHeld')
        /\ alive' <=> refs' > 0
    BY <1>0, <1>a, <1>11 DEF SendFinish, Finish, One
  <2>3. QED
    BY <1>a, <2>1, <2>2 DEF Balance, One
<1>12. CASE SendClear(t)
  <2>1. flight' = flight /\ results' = results
    BY <1>12 DEF SendClear, Clear
  <2>2. /\ refs' = refs - One(pc[t] \in Counted) + One(pc'[t] \in Counted)
                    - One(AttachHeld) + One(AttachHeld')
        /\ alive' <=> refs' > 0
    BY <1>0, <1>a, <1>12 DEF SendClear, Clear, One
  <2>3. QED
    BY <1>a, <2>1, <2>2 DEF Balance, One
<1>13. CASE Stray(t)
  <2>1. flight' = flight /\ results' = results
    BY <1>13 DEF Stray, CancelFlagRead
  <2>2. /\ refs' = refs - One(pc[t] \in Counted) + One(pc'[t] \in Counted)
                    - One(AttachHeld) + One(AttachHeld')
        /\ alive' <=> refs' > 0
    BY <1>0, <1>a, <1>13 DEF Stray, CancelFlagRead, One
  <2>3. QED
    BY <1>a, <2>1, <2>2 DEF Balance, One
<1>14. CASE SessionCancel(t)
  <2>1. flight' = flight /\ results' = results
    BY <1>14 DEF SessionCancel, Acquire
  <2>2. /\ refs' = refs - One(pc[t] \in Counted) + One(pc'[t] \in Counted)
                    - One(AttachHeld) + One(AttachHeld')
        /\ alive' <=> refs' > 0
    BY <1>0, <1>a, <1>14 DEF SessionCancel, Acquire, One
  <2>3. QED
    BY <1>a, <2>1, <2>2 DEF Balance, One
<1>15. CASE Cancel(t)
  <2>1. flight' = flight /\ results' = results
    BY <1>15 DEF Cancel, Following
  <2>2. /\ refs' = refs - One(pc[t] \in Counted) + One(pc'[t] \in Counted)
                    - One(AttachHeld) + One(AttachHeld')
        /\ alive' <=> refs' > 0
    BY <1>0, <1>a, <1>15 DEF Cancel, Following, One
  <2>3. QED
    BY <1>a, <2>1, <2>2 DEF Balance, One
<1>16. CASE CancelIo(t)
  <2>1. /\ refs' = refs /\ alive' = alive /\ flight' = <<>>
        /\ results' = results \o [i \in DOMAIN flight |-> FALSE]
        /\ pc[t] \in Counted /\ pc'[t] \in Counted /\ (AttachHeld' <=> AttachHeld)
    BY <1>0, <1>a, <1>16 DEF CancelIo, Following
  <2>2. Len(results') = Len(results) + Len(flight) /\ Len(flight') = 0
    <3>1. [i \in DOMAIN flight |-> FALSE] \in Seq(BOOLEAN)
          /\ Len([i \in DOMAIN flight |-> FALSE]) = Len(flight)
      BY <1>b, Fails
    <3> DEFINE r == [i \in DOMAIN flight |-> FALSE]
    <3> HIDE DEF r
    <3>2. r \in Seq(BOOLEAN) /\ Len(r) = Len(flight)
      BY <3>1 DEF r
    <3>3. Len(results \o r) = Len(results) + Len(r)
      BY <1>b, <3>2, Joined
    <3>4. results' = results \o r
      BY <2>1 DEF r
    <3>5. Len(<<>>) = 0
      OBVIOUS
    <3>6. QED
      BY <2>1, <3>2, <3>3, <3>4, <3>5
  <2>3. (alive' <=> refs' > 0) /\ One(AttachHeld') = One(AttachHeld)
    BY <1>a, <2>1 DEF One
  <2>4. refs' = refs - One(pc[t] \in Counted) + One(pc'[t] \in Counted)
                  - Len(flight) - Len(results) + Len(flight') + Len(results')
    <3>1. One(pc[t] \in Counted) = 1 /\ One(pc'[t] \in Counted) = 1
      BY <2>1 DEF One
    <3>2. Len(flight) \in Nat /\ Len(results) \in Nat /\ refs \in Nat /\ refs' = refs
      BY <1>a, <2>1
    <3>3. refs = refs - 1 + 1 - Len(flight) - Len(results) + 0 + (Len(results) + Len(flight))
      BY <3>2
    <3>4. QED
      BY <2>2, <3>1, <3>2, <3>3
  <2> DEFINE a == One(pc[t] \in Counted)
             b == One(pc'[t] \in Counted)
             c == One(AttachHeld)
             x == Len(flight')
             y == Len(results')
  <2>5. a \in Nat /\ b \in Nat /\ c \in Nat /\ x \in Nat /\ y \in Nat
    BY <1>a, <2>1, <2>2 DEF One
  <2>6. refs' = refs - a + b - Len(flight) - Len(results) + x + y
    BY <2>4
  <2> HIDE DEF a, b, c, x, y
  <2>7. refs' = refs - a + b - Len(flight) - Len(results) + x + y - c + c
    BY <1>a, <2>5, <2>6
  <2>8. QED
    BY <2>3, <2>7 DEF a, b, c, x, y, Balance
<1>17. CASE SendCompletion(t)
  <2>1. /\ refs' = refs /\ alive' = alive /\ flight' = flight /\ results # <<>>
        /\ results' = Tail(results) /\ receiving' = receiving
        /\ pc[t] = "idle" /\ pc'[t] \in {"finish", "release"} /\ (AttachHeld' <=> AttachHeld)
    BY <1>0, <1>a, <1>17 DEF SendCompletion
  <2>2. Len(Tail(results)) = Len(results) - 1
    BY <1>b, <2>1
  <2>3. (alive' <=> refs' > 0) /\ One(AttachHeld') = One(AttachHeld)
    BY <1>a, <2>1 DEF One
  <2>4. refs' = refs - One(pc[t] \in Counted) + One(pc'[t] \in Counted)
                  - Len(flight) - Len(results) + Len(flight') + Len(results')
    BY <1>a, <2>1, <2>2 DEF One
  <2> DEFINE a == One(pc[t] \in Counted)
             b == One(pc'[t] \in Counted)
             c == One(AttachHeld)
             x == Len(flight')
             y == Len(results')
  <2>5. a \in Nat /\ b \in Nat /\ c \in Nat /\ x \in Nat /\ y \in Nat
    BY <1>a, <2>1, <2>2 DEF One
  <2>6. refs' = refs - a + b - Len(flight) - Len(results) + x + y
    BY <2>4
  <2> HIDE DEF a, b, c, x, y
  <2>7. refs' = refs - a + b - Len(flight) - Len(results) + x + y - c + c
    BY <1>a, <2>5, <2>6
  <2>8. QED
    BY <2>3, <2>7 DEF a, b, c, x, y, Balance
<1>18. CASE ReceiveCompletion(t)
  <2>1. flight' = flight /\ results' = results
    BY <1>18 DEF ReceiveCompletion, EndCoroutine
  <2>2. /\ refs' = refs - One(pc[t] \in Counted) + One(pc'[t] \in Counted)
                    - One(AttachHeld) + One(AttachHeld')
        /\ alive' <=> refs' > 0
    BY <1>0, <1>a, <1>18 DEF ReceiveCompletion, EndCoroutine, One
  <2>3. QED
    BY <1>a, <2>1, <2>2 DEF Balance, One
<1>19. CASE SessionReceive(t)
  <2>1. flight' = flight /\ results' = results
    BY <1>19 DEF SessionReceive, EndCoroutine
  <2>2. /\ refs' = refs - One(pc[t] \in Counted) + One(pc'[t] \in Counted)
                    - One(AttachHeld) + One(AttachHeld')
        /\ alive' <=> refs' > 0
    BY <1>0, <1>a, <1>19 DEF SessionReceive, EndCoroutine, One
  <2>3. QED
    BY <1>a, <2>1, <2>2 DEF Balance, One
<1>20. CASE ReceivePost(t)
  <2>1. flight' = flight /\ results' = results
    BY <1>20 DEF ReceivePost, EndCoroutine
  <2>2. /\ refs' = refs - One(pc[t] \in Counted) + One(pc'[t] \in Counted)
                    - One(AttachHeld) + One(AttachHeld')
        /\ alive' <=> refs' > 0
    BY <1>0, <1>a, <1>20 DEF ReceivePost, EndCoroutine, One
  <2>3. QED
    BY <1>a, <2>1, <2>2 DEF Balance, One
<1>21. CASE StrayReceive(t)
  <2>1. flight' = flight /\ results' = results
    BY <1>21 DEF StrayReceive, CancelFlagRead
  <2>2. /\ refs' = refs - One(pc[t] \in Counted) + One(pc'[t] \in Counted)
                    - One(AttachHeld) + One(AttachHeld')
        /\ alive' <=> refs' > 0
    BY <1>0, <1>a, <1>21 DEF StrayReceive, CancelFlagRead, One
  <2>3. QED
    BY <1>a, <2>1, <2>2 DEF Balance, One
<1>22. QED
  BY <1>1, <1>2, <1>3, <1>4, <1>5, <1>6, <1>7, <1>8, <1>9, <1>10, <1>11, <1>12, <1>13, <1>14,
     <1>15, <1>16, <1>17, <1>18, <1>19, <1>20, <1>21 DEF Step

\* So the references are counted exactly.
LEMMA ReferencesStep ==
  ASSUME Kept, NEW t \in Threads, SessionSend(t) \/ SessionTimeout(t) \/ Step(t)
  PROVE  IoKeepsSession' /\ refs' \in Nat
<1>1. /\ Cardinality(HoldsReference) \in Nat /\ Cardinality(HoldsReference') \in Nat
      /\ Cardinality(HoldsReference') =
           Cardinality(HoldsReference) - One(pc[t] \in Counted) + One(pc'[t] \in Counted)
  BY Alone, Counts DEF Kept
<1>2. Balance(t)
  BY BalanceStep
<1>3. /\ refs \in Nat /\ Len(flight) \in Nat /\ Len(results) \in Nat
      /\ refs = Cardinality(HoldsReference) + Len(flight) + Len(results) + One(AttachHeld)
  BY Attached DEF Kept, IoKeepsSession, One
<1>4. Len(flight') \in Nat /\ Len(results') \in Nat
  BY TypedStep DEF SequencesAreTyped
<1> DEFINE a == One(pc[t] \in Counted)
           b == One(pc'[t] \in Counted)
           c == One(AttachHeld)
           d == One(AttachHeld')
           h == Cardinality(HoldsReference)
           k == Cardinality(HoldsReference')
           x == Len(flight')
           y == Len(results')
           v == Len(flight)
           w == Len(results)
<1>a. /\ a \in Nat /\ b \in Nat /\ c \in Nat /\ d \in Nat
      /\ h \in Nat /\ k \in Nat /\ x \in Nat /\ y \in Nat /\ v \in Nat /\ w \in Nat
  BY <1>1, <1>3, <1>4 DEF One
<1>b. /\ k = h - a + b
      /\ refs = h + v + w + c
      /\ refs' = refs - a + b - v - w + x + y - c + d
      /\ alive' <=> refs' > 0
  BY <1>1, <1>2, <1>3 DEF Balance
<1> HIDE DEF a, b, c, d, h, k, x, y, v, w
<1>c. /\ refs' = k + x + y + d
      /\ refs' \in Nat
  BY <1>a, <1>b
<1>5. /\ refs' = Cardinality(HoldsReference') + Len(flight') + Len(results') + One(AttachHeld')
      /\ alive' <=> refs' > 0
      /\ refs' \in Nat
  BY <1>b, <1>c DEF d, k, x, y
<1>6. QED
  BY <1>5 DEF IoKeepsSession, One

-----------------------------------------------------------------------------
(* One send is in hand.                                                      *)

\* Whoever has the send in hand has it alone.
LEMMA OneInHand ==
  ASSUME Kept
  PROVE  /\ Cardinality(OwnsSend) \in Nat /\ Len(flight) \in Nat /\ Len(results) \in Nat
         /\ InHand \in Nat /\ InHand <= 1
         /\ InHand = 1 => sending
         /\ \A t \in Threads : Owns(pc[t]) =>
              /\ InHand = 1 /\ Len(flight) = 0 /\ Len(results) = 0
              /\ \A u \in Threads : Owns(pc[u]) => u = t
         /\ Len(flight) > 0 =>
              /\ InHand = 1 /\ Len(flight) = 1 /\ Len(results) = 0
              /\ \A u \in Threads : ~Owns(pc[u])
         /\ Len(results) > 0 =>
              /\ InHand = 1 /\ Len(results) = 1 /\ Len(flight) = 0
              /\ \A u \in Threads : ~Owns(pc[u])
         /\ InHand = 1 =>
              Len(flight) > 0 \/ Len(results) > 0 \/ \E t \in Threads : Owns(pc[t])
<1>1. IsFiniteSet(OwnsSend)
  BY SessionAssumption, FS_Subset DEF Threads, OwnsSend
<1>2. Cardinality(OwnsSend) \in Nat /\ (OwnsSend # {} <=> Cardinality(OwnsSend) # 0)
  BY <1>1, FS_CardinalityType, FS_EmptySet
<1>3. Len(flight) \in Nat /\ Len(results) \in Nat
  BY DEF Kept, SequencesAreTyped
<1>4. Cardinality(OwnsSend) + Len(flight) + Len(results) <= 1
      /\ (Cardinality(OwnsSend) + Len(flight) + Len(results) = 1 => sending)
  BY <1>2, <1>3 DEF Kept, OneSend, InHand, One
<1>5. \A t, u \in Threads : Owns(pc[t]) /\ Owns(pc[u]) => u = t
  <2>1. SUFFICES ASSUME NEW t \in Threads, NEW u \in Threads, t \in OwnsSend, u \in OwnsSend
                 PROVE  u = t
    BY DEF Owns, OwnsSend
  <2>2. /\ IsFiniteSet(OwnsSend \ {t})
        /\ Cardinality(OwnsSend \ {t}) = Cardinality(OwnsSend) - 1
    BY <1>1, <2>1, FS_RemoveElement
  <2>3. Cardinality(OwnsSend \ {t}) = 0
    BY <1>2, <1>3, <1>4, <2>1, <2>2
  <2>4. OwnsSend \ {t} = {}
    BY <2>2, <2>3, FS_EmptySet
  <2>5. QED
    BY <2>1, <2>4
<1>6. (\E t \in Threads : Owns(pc[t])) <=> OwnsSend # {}
  BY DEF Owns, OwnsSend
<1> DEFINE n == Cardinality(OwnsSend)
           v == Len(flight)
           w == Len(results)
<1>7. /\ n \in Nat /\ n + Len(flight) + Len(results) <= 1
      /\ InHand = n + Len(flight) + Len(results)
      /\ n + Len(flight) + Len(results) = 1 => sending
      /\ (\E t \in Threads : Owns(pc[t])) <=> n # 0
  BY <1>2, <1>4, <1>6 DEF InHand
<1>8. \A t \in Threads : Owns(pc[t]) => n # 0
  BY <1>7
<1>c. v \in Nat /\ w \in Nat
  BY <1>3
<1> HIDE DEF n, v, w
<1>9. n \in Nat /\ v \in Nat /\ w \in Nat /\ n + v + w <= 1 /\ InHand = n + v + w
  BY <1>7, <1>c DEF v, w
<1>a. /\ n # 0 => InHand = 1 /\ v = 0 /\ w = 0
      /\ v > 0 => InHand = 1 /\ v = 1 /\ w = 0 /\ n = 0
      /\ w > 0 => InHand = 1 /\ w = 1 /\ v = 0 /\ n = 0
      /\ InHand \in Nat /\ InHand <= 1
      /\ InHand = 1 => v > 0 \/ w > 0 \/ n # 0
  BY <1>9
<1>b. InHand = 1 => sending
  BY <1>7
<1>10. QED
  BY <1>2, <1>3, <1>5, <1>7, <1>8, <1>a, <1>b DEF v, w

\* How a step of a thread moves the send in hand.
LEMMA HandMoves ==
  ASSUME Kept, NEW t \in Threads, SessionSend(t) \/ SessionTimeout(t) \/ Step(t),
         Len(flight') \in Nat, Len(results') \in Nat
  PROVE  /\ InHand' \in Nat
         /\ InHand' = InHand - One(Owns(pc[t])) + One(Owns(pc'[t]))
                      - Len(flight) - Len(results) + Len(flight') + Len(results')
<1>1. /\ Cardinality(OwnsSend) \in Nat /\ Cardinality(OwnsSend') \in Nat
      /\ Cardinality(OwnsSend') = Cardinality(OwnsSend) - One(Owns(pc[t])) + One(Owns(pc'[t]))
  BY Alone, Counts DEF Kept
<1>2. Len(flight) \in Nat /\ Len(results) \in Nat
  BY DEF Kept, SequencesAreTyped
<1> DEFINE a == One(Owns(pc[t]))
           b == One(Owns(pc'[t]))
           h == Cardinality(OwnsSend)
           k == Cardinality(OwnsSend')
<1>3. a \in Nat /\ b \in Nat /\ h \in Nat /\ k \in Nat /\ k = h - a + b
  BY <1>1 DEF One
<1>4. /\ InHand = h + Len(flight) + Len(results)
      /\ InHand' = k + Len(flight') + Len(results')
  BY DEF InHand
<1> HIDE DEF a, b, h, k
<1>5. /\ InHand' \in Nat
      /\ InHand' = InHand - a + b - Len(flight) - Len(results) + Len(flight') + Len(results')
  BY <1>2, <1>3, <1>4
<1>6. QED
  BY <1>5 DEF a, b

\* A step that leaves the send in hand where it is.
LEMMA HandStays ==
  ASSUME Kept, NEW t \in Threads, SessionSend(t) \/ SessionTimeout(t) \/ Step(t),
         flight' = flight, results' = results, Owns(pc[t]) <=> Owns(pc'[t]),
         sending' = sending, cancelled => cancelled', broken' = broken,
         pc'[t] \in {"abort", "cancelAbort"} => cancelled'
  PROVE  OneSend'
<1>1. OneSend /\ InHand \in Nat /\ Len(flight) \in Nat /\ Len(results) \in Nat
  BY OneInHand DEF Kept
<1>2. One(Owns(pc[t])) = One(Owns(pc'[t])) /\ One(Owns(pc[t])) \in Nat
  BY DEF One
<1>3. InHand' = InHand
  BY <1>1, <1>2, HandMoves
<1>4. \A u \in Threads : pc'[u] \in {"abort", "cancelAbort"} => cancelled'
  BY <1>1, Alone DEF OneSend, Kept
<1>5. InHand' <= One(sending)'
  BY <1>1, <1>3 DEF OneSend, One
<1>6. sending' /\ ~cancelled' /\ ~broken' => InHand' = 1
  BY <1>1, <1>3 DEF OneSend
<1>7. \A i \in 1 .. Len(results') : ~results'[i] => cancelled' \/ broken'
  BY <1>1 DEF OneSend
<1>8. QED
  BY <1>4, <1>5, <1>6, <1>7 DEF OneSend

\* _send_time goes on with the send in hand and off without it.
LEMMA OneSendStep ==
  ASSUME Kept, NEW t \in Threads, SessionSend(t) \/ SessionTimeout(t) \/ Step(t)
  PROVE  OneSend'
<1>0. /\ \A u \in Threads \ {t} : pc'[u] = pc[u]
      /\ OneSend /\ TypeOK /\ SequencesAreTyped
  BY Alone DEF Kept
<1>a. Len(flight') \in Nat /\ Len(results') \in Nat
  BY TypedStep DEF SequencesAreTyped
<1>b. /\ InHand' \in Nat
      /\ InHand' = InHand - One(Owns(pc[t])) + One(Owns(pc'[t]))
                   - Len(flight) - Len(results) + Len(flight') + Len(results')
  BY <1>a, HandMoves
<1> USE DEF send, node, kernel, ends, thread, Goto, Start, Idle, Return, AtEnd
<1>1. CASE SessionSend(t)
  <2>1. /\ flight' = flight /\ results' = results /\ broken' = broken
        /\ sending' = sending /\ (cancelled => cancelled')
    BY <1>1 DEF SessionSend, Acquire
  <2>2. /\ Owns(pc[t]) <=> Owns(pc'[t])
        /\ pc'[t] \in {"abort", "cancelAbort"} => cancelled'
    BY <1>0, <1>1 DEF SessionSend, Acquire, TypeOK, Owns
  <2>3. QED
    BY <2>1, <2>2, HandStays
<1>2. CASE SessionTimeout(t)
  <2>1. /\ flight' = flight /\ results' = results /\ broken' = broken
        /\ sending' = sending /\ (cancelled => cancelled')
    BY <1>2 DEF SessionTimeout, Acquire
  <2>2. /\ Owns(pc[t]) <=> Owns(pc'[t])
        /\ pc'[t] \in {"abort", "cancelAbort"} => cancelled'
    BY <1>0, <1>2 DEF SessionTimeout, Acquire, TypeOK, Owns
  <2>3. QED
    BY <2>1, <2>2, HandStays
<1>3. CASE Release(t)
  <2>1. /\ flight' = flight /\ results' = results /\ broken' = broken
        /\ sending' = sending /\ (cancelled => cancelled')
    BY <1>3 DEF Release, Drop
  <2>2. /\ Owns(pc[t]) <=> Owns(pc'[t])
        /\ pc'[t] \in {"abort", "cancelAbort"} => cancelled'
    BY <1>0, <1>3 DEF Release, Drop, TypeOK, Owns
  <2>3. QED
    BY <2>1, <2>2, HandStays
<1>4. CASE CancelRelease(t)
  <2>1. /\ flight' = flight /\ results' = results /\ broken' = broken
        /\ sending' = sending /\ (cancelled => cancelled')
    BY <1>4 DEF CancelRelease, Drop
  <2>2. /\ Owns(pc[t]) <=> Owns(pc'[t])
        /\ pc'[t] \in {"abort", "cancelAbort"} => cancelled'
    BY <1>0, <1>4 DEF CancelRelease, Drop, TypeOK, Owns
  <2>3. QED
    BY <2>1, <2>2, HandStays
<1>5. CASE SendEnqueue(t)
  <2>1. /\ flight' = flight /\ results' = results /\ broken' = broken
        /\ sending' = sending /\ (cancelled => cancelled')
    BY <1>5 DEF SendEnqueue
  <2>2. /\ Owns(pc[t]) <=> Owns(pc'[t])
        /\ pc'[t] \in {"abort", "cancelAbort"} => cancelled'
    BY <1>0, <1>5 DEF SendEnqueue, TypeOK, Owns
  <2>3. QED
    BY <2>1, <2>2, HandStays
<1>6. CASE Emplace(t)
  <2>1. /\ flight' = flight /\ results' = results /\ broken' = broken
        /\ sending' = sending /\ (cancelled => cancelled')
    BY <1>6 DEF Emplace
  <2>2. /\ Owns(pc[t]) <=> Owns(pc'[t])
        /\ pc'[t] \in {"abort", "cancelAbort"} => cancelled'
    BY <1>0, <1>6 DEF Emplace, TypeOK, Owns
  <2>3. QED
    BY <2>1, <2>2, HandStays
<1>7. CASE SendReady(t)
  <2>1. /\ flight' = flight /\ results' = results /\ broken' = broken
        /\ sending' = sending /\ (cancelled => cancelled')
    BY <1>7 DEF SendReady
  <2>2. /\ Owns(pc[t]) <=> Owns(pc'[t])
        /\ pc'[t] \in {"abort", "cancelAbort"} => cancelled'
    BY <1>0, <1>7 DEF SendReady, TypeOK, Owns
  <2>3. QED
    BY <2>1, <2>2, HandStays
<1>8. CASE Claim(t)
  <2>1. /\ flight' = flight /\ results' = results /\ broken' = broken
        /\ sending' = TRUE /\ cancelled' = cancelled
        /\ pc[t] = "claim" /\ pc'[t] = IF sending THEN "release" ELSE "recheck"
    BY <1>0, <1>8 DEF Claim, TypeOK
  <2>2. CASE sending
    <3>1. /\ Owns(pc[t]) <=> Owns(pc'[t])
          /\ pc'[t] \in {"abort", "cancelAbort"} => cancelled'
      BY <2>1, <2>2 DEF Owns
    <3>2. sending' = sending
      BY <1>0, <2>1, <2>2 DEF TypeOK
    <3>3. QED
      BY <2>1, <3>1, <3>2, HandStays
  <2>3. CASE ~sending
    <3>1. One(Owns(pc[t])) = 0 /\ One(Owns(pc'[t])) = 1
      BY <2>1, <2>3 DEF Owns, One
    <3>2. InHand \in Nat /\ InHand <= 1 /\ (InHand = 1 => sending)
      BY OneInHand
    <3>3. InHand' = 1
      BY <1>a, <1>b, <2>1, <2>3, <3>1, <3>2
    <3>4. /\ \A u \in Threads : pc'[u] \in {"abort", "cancelAbort"} => cancelled'
          /\ \A i \in 1 .. Len(results') : ~results'[i] => cancelled' \/ broken'
      BY <1>0, <2>1 DEF OneSend
    <3>5. One(sending)' = 1
      BY <2>1 DEF One
    <3>6. QED
      BY <3>3, <3>4, <3>5 DEF OneSend
  <2>4. QED
    BY <2>2, <2>3
<1>9. CASE Recheck(t)
  <2>1. /\ flight' = flight /\ results' = results /\ broken' = broken
        /\ sending' = sending /\ (cancelled => cancelled')
    BY <1>9 DEF Recheck
  <2>2. /\ Owns(pc[t]) <=> Owns(pc'[t])
        /\ pc'[t] \in {"abort", "cancelAbort"} => cancelled'
    BY <1>0, <1>9 DEF Recheck, TypeOK, Owns
  <2>3. QED
    BY <2>1, <2>2, HandStays
<1>10. CASE SendPost(t)
  <2>1. /\ results' = results /\ broken' = broken /\ sending' = sending
        /\ cancelled' = cancelled /\ pc[t] = "post"
    BY <1>10 DEF SendPost
  <2>2. \/ broken /\ flight' = flight /\ pc'[t] = "release"
        \/ flight' = flight /\ pc'[t] = "finish"
        \/ flight' = Append(flight, queue) /\ pc'[t] = "stray"
    BY <1>0, <1>10 DEF SendPost, TypeOK
  <2>3. /\ \A u \in Threads : pc'[u] \in {"abort", "cancelAbort"} => cancelled'
        /\ \A i \in 1 .. Len(results') : ~results'[i] => cancelled' \/ broken'
    BY <1>0, <2>1, <2>2 DEF OneSend
  <2>4. InHand = 1 /\ Len(flight) = 0 /\ Len(results) = 0 /\ sending
    BY <2>1, OneInHand DEF Owns
  <2>5. One(Owns(pc[t])) = 1 /\ One(sending)' = 1
    BY <2>1, <2>4 DEF Owns, One
  <2>6. CASE broken /\ flight' = flight /\ pc'[t] = "release"
    <3>1. One(Owns(pc'[t])) = 0
      BY <2>6 DEF Owns, One
    <3>2. InHand' = 0
      BY <1>b, <2>1, <2>4, <2>5, <2>6, <3>1
    <3>3. broken'
      BY <2>1, <2>6
    <3>4. QED
      BY <2>3, <2>5, <3>2, <3>3 DEF OneSend
  <2>7. CASE flight' = flight /\ pc'[t] = "finish"
    <3>1. One(Owns(pc'[t])) = 1
      BY <2>7 DEF Owns, One
    <3>2. InHand' = 1
      BY <1>b, <2>1, <2>4, <2>5, <2>7, <3>1
    <3>3. QED
      BY <2>3, <2>5, <3>2 DEF OneSend
  <2>8. CASE flight' = Append(flight, queue) /\ pc'[t] = "stray"
    <3>1. One(Owns(pc'[t])) = 0
      BY <2>8 DEF Owns, One
    <3>2. Len(Append(flight, queue)) = Len(flight) + 1
      BY <1>0 DEF SequencesAreTyped
    <3>3. InHand' = 1
      BY <1>b, <2>1, <2>4, <2>5, <2>8, <3>1, <3>2
    <3>4. QED
      BY <2>3, <2>5, <3>3 DEF OneSend
  <2>9. QED
    BY <2>2, <2>6, <2>7, <2>8
<1>11. CASE SendFinish(t)
  <2>1. /\ flight' = flight /\ results' = results /\ broken' = broken
        /\ sending' = sending /\ (cancelled => cancelled')
    BY <1>11 DEF SendFinish, Finish
  <2>2. /\ Owns(pc[t]) <=> Owns(pc'[t])
        /\ pc'[t] \in {"abort", "cancelAbort"} => cancelled'
    BY <1>0, <1>11 DEF SendFinish, Finish, TypeOK, Owns
  <2>3. QED
    BY <2>1, <2>2, HandStays
<1>12. CASE SendClear(t)
  <2>1. /\ flight' = flight /\ results' = results /\ broken' = broken
        /\ sending' = FALSE /\ cancelled' = cancelled
        /\ pc[t] = "clear" /\ pc'[t] = "ready"
    BY <1>0, <1>12 DEF SendClear, Clear, TypeOK
  <2>2. InHand = 1 /\ Len(flight) = 0 /\ Len(results) = 0
    BY <2>1, OneInHand DEF Owns
  <2>3. One(Owns(pc[t])) = 1 /\ One(Owns(pc'[t])) = 0 /\ One(sending)' = 0
    BY <2>1 DEF Owns, One
  <2>4. InHand' = 0
    BY <1>b, <2>1, <2>2, <2>3
  <2>5. /\ \A u \in Threads : pc'[u] \in {"abort", "cancelAbort"} => cancelled'
        /\ \A i \in 1 .. Len(results') : ~results'[i] => cancelled' \/ broken'
    BY <1>0, <2>1 DEF OneSend
  <2>6. QED
    BY <2>1, <2>3, <2>4, <2>5 DEF OneSend
<1>13. CASE Stray(t)
  <2>1. /\ flight' = flight /\ results' = results /\ broken' = broken
        /\ sending' = sending /\ (cancelled => cancelled')
    BY <1>13 DEF Stray, CancelFlagRead
  <2>2. /\ Owns(pc[t]) <=> Owns(pc'[t])
        /\ pc'[t] \in {"abort", "cancelAbort"} => cancelled'
    BY <1>0, <1>13 DEF Stray, CancelFlagRead, TypeOK, Owns
  <2>3. QED
    BY <2>1, <2>2, HandStays
<1>14. CASE SessionCancel(t)
  <2>1. /\ flight' = flight /\ results' = results /\ broken' = broken
        /\ sending' = sending /\ (cancelled => cancelled')
    BY <1>14 DEF SessionCancel, Acquire
  <2>2. /\ Owns(pc[t]) <=> Owns(pc'[t])
        /\ pc'[t] \in {"abort", "cancelAbort"} => cancelled'
    BY <1>0, <1>14 DEF SessionCancel, Acquire, TypeOK, Owns
  <2>3. QED
    BY <2>1, <2>2, HandStays
<1>15. CASE Cancel(t)
  <2>1. /\ flight' = flight /\ results' = results /\ broken' = broken
        /\ sending' = sending /\ (cancelled => cancelled')
    BY <1>15 DEF Cancel, Following
  <2>2. /\ Owns(pc[t]) <=> Owns(pc'[t])
        /\ pc'[t] \in {"abort", "cancelAbort"} => cancelled'
    BY <1>0, <1>15 DEF Cancel, Following, TypeOK, Owns
  <2>3. QED
    BY <2>1, <2>2, HandStays
<1>16. CASE CancelIo(t)
  <2>1. /\ flight' = <<>> /\ results' = results \o [i \in DOMAIN flight |-> FALSE]
        /\ broken' = broken /\ sending' = sending /\ cancelled' = cancelled
        /\ pc[t] \in {"abort", "cancelAbort"} /\ pc'[t] \in {"release", "cancelRelease"}
    BY <1>0, <1>16 DEF CancelIo, Following, TypeOK
  <2>2. cancelled
    BY <1>0, <2>1 DEF OneSend
  <2>3. One(Owns(pc[t])) = 0 /\ One(Owns(pc'[t])) = 0
    BY <2>1 DEF Owns, One
  <2>4. Len(flight') = 0 /\ Len(results') = Len(results) + Len(flight)
    BY <1>0, <2>1, FailsJoined DEF SequencesAreTyped
  <2>5. InHand' = InHand /\ InHand \in Nat
    BY <1>b, <2>3, <2>4, OneInHand
  <2>6. InHand' <= One(sending)'
    BY <1>0, <2>1, <2>5 DEF OneSend, One
  <2>7. \A u \in Threads : pc'[u] \in {"abort", "cancelAbort"} => cancelled'
    BY <1>0, <2>1 DEF OneSend
  <2>8. QED
    BY <2>1, <2>2, <2>6, <2>7 DEF OneSend
<1>17. CASE SendCompletion(t)
  <2>1. /\ flight' = flight /\ results # <<>> /\ results' = Tail(results)
        /\ broken' = broken /\ sending' = sending /\ cancelled' = cancelled
        /\ pc[t] = "idle" /\ pc'[t] = IF Head(results) THEN "finish" ELSE "release"
    BY <1>0, <1>17 DEF SendCompletion, TypeOK
  <2>2. Len(results) > 0 /\ Len(Tail(results)) = Len(results) - 1 /\ Head(results) = results[1]
        /\ Len(results) \in Nat
    BY <1>0, <2>1, Shorter DEF SequencesAreTyped
  <2>3. InHand = 1 /\ Len(results) = 1 /\ Len(flight) = 0 /\ sending
    BY <2>2, OneInHand
  <2>4. One(Owns(pc[t])) = 0 /\ One(sending)' = 1
    BY <2>1, <2>3 DEF Owns, One
  <2>9. Len(results') = 0 /\ Len(flight') = 0
    <3>1. results' = Tail(results) /\ flight' = flight
      BY <2>1
    <3>2. Len(Tail(results)) = 0
      BY <2>2, <2>3
    <3>3. QED
      BY <2>3, <3>1, <3>2
  <2>5. /\ \A u \in Threads : pc'[u] \in {"abort", "cancelAbort"} => cancelled'
        /\ \A i \in 1 .. Len(results') : ~results'[i] => cancelled' \/ broken'
    <3>1. \A i \in 1 .. Len(results') : FALSE
      BY <2>9
    <3>2. QED
      BY <1>0, <2>1, <3>1 DEF OneSend
  <2>6. CASE results[1]
    <3>1. One(Owns(pc'[t])) = 1
      BY <2>1, <2>2, <2>6 DEF Owns, One
    <3>2. InHand' = 1
      BY <1>b, <2>3, <2>4, <2>9, <3>1
    <3>3. QED
      BY <2>4, <2>5, <3>2 DEF OneSend
  <2>7. CASE ~results[1]
    <3>1. One(Owns(pc'[t])) = 0
      BY <2>1, <2>2, <2>7 DEF Owns, One
    <3>2. InHand' = 0
      BY <1>b, <2>3, <2>4, <2>9, <3>1
    <3>3. 1 \in 1 .. Len(results)
      BY <2>3
    <3>4. cancelled' \/ broken'
      BY <1>0, <2>1, <2>7, <3>3 DEF OneSend
    <3>5. QED
      BY <2>4, <2>5, <3>2, <3>4 DEF OneSend
  <2>8. QED
    BY <2>6, <2>7
<1>18. CASE ReceiveCompletion(t)
  <2>1. /\ flight' = flight /\ results' = results /\ broken' = broken
        /\ sending' = sending /\ (cancelled => cancelled')
    BY <1>18 DEF ReceiveCompletion, EndCoroutine
  <2>2. /\ Owns(pc[t]) <=> Owns(pc'[t])
        /\ pc'[t] \in {"abort", "cancelAbort"} => cancelled'
    BY <1>0, <1>18 DEF ReceiveCompletion, EndCoroutine, TypeOK, Owns
  <2>3. QED
    BY <2>1, <2>2, HandStays
<1>19. CASE SessionReceive(t)
  <2>1. /\ flight' = flight /\ results' = results /\ broken' = broken
        /\ sending' = sending /\ (cancelled => cancelled')
    BY <1>19 DEF SessionReceive, EndCoroutine
  <2>2. /\ Owns(pc[t]) <=> Owns(pc'[t])
        /\ pc'[t] \in {"abort", "cancelAbort"} => cancelled'
    BY <1>0, <1>19 DEF SessionReceive, EndCoroutine, TypeOK, Owns
  <2>3. QED
    BY <2>1, <2>2, HandStays
<1>20. CASE ReceivePost(t)
  <2>1. /\ flight' = flight /\ results' = results /\ broken' = broken
        /\ sending' = sending /\ (cancelled => cancelled')
    BY <1>20 DEF ReceivePost, EndCoroutine
  <2>2. /\ Owns(pc[t]) <=> Owns(pc'[t])
        /\ pc'[t] \in {"abort", "cancelAbort"} => cancelled'
    BY <1>0, <1>20 DEF ReceivePost, EndCoroutine, TypeOK, Owns
  <2>3. QED
    BY <2>1, <2>2, HandStays
<1>21. CASE StrayReceive(t)
  <2>1. /\ flight' = flight /\ results' = results /\ broken' = broken
        /\ sending' = sending /\ (cancelled => cancelled')
    BY <1>21 DEF StrayReceive, CancelFlagRead
  <2>2. /\ Owns(pc[t]) <=> Owns(pc'[t])
        /\ pc'[t] \in {"abort", "cancelAbort"} => cancelled'
    BY <1>0, <1>21 DEF StrayReceive, CancelFlagRead, TypeOK, Owns
  <2>3. QED
    BY <2>1, <2>2, HandStays
<1>22. QED
  BY <1>1, <1>2, <1>3, <1>4, <1>5, <1>6, <1>7, <1>8, <1>9, <1>10, <1>11, <1>12, <1>13, <1>14,
     <1>15, <1>16, <1>17, <1>18, <1>19, <1>20, <1>21 DEF Step

-----------------------------------------------------------------------------
(* The messages.                                                             *)

\* A step of a thread that moves no message.
LEMMA MessagesStay ==
  ASSUME Kept, NEW t \in Threads, SessionSend(t) \/ SessionTimeout(t) \/ Step(t),
         queue' = queue, accepted' = accepted, wire' = wire, flight' = flight,
         results' = results, size' = size, pc[t] = "finish" <=> pc'[t] = "finish"
  PROVE  MessagesAreRight'
<1>1. MessagesAreRight /\ \A u \in Threads \ {t} : pc'[u] = pc[u]
  BY Alone DEF Kept
<1>2. (\E u \in Threads : pc[u] = "finish") <=> (\E u \in Threads : pc'[u] = "finish")
  BY <1>1
<1>3. Transferred' <=> Transferred
  BY <1>2 DEF Transferred
<1>4. QED
  BY <1>1, <1>3 DEF MessagesAreRight, Popped

\* Nothing has been transferred while the send in hand is a thread's that has
\* not posted it, or the system's.
LEMMA NotTransferred ==
  ASSUME Kept, Len(flight) > 0 \/ \E t \in Threads : Owns(pc[t]) /\ pc[t] # "finish"
  PROVE  ~Transferred /\ Len(results) = 0 /\ Len(wire) = Popped
<1>1. Len(results) = 0 /\ \A u \in Threads : pc[u] # "finish"
  BY OneInHand DEF Owns
<1>2. ~Transferred
  BY <1>1 DEF Transferred
<1>3. Popped \in Nat /\ Len(wire) = Popped
  BY <1>2 DEF Kept, SequencesAreTyped, MessagesAreRight, Popped
<1>4. QED
  BY <1>1, <1>2, <1>3

\* Nothing is in flight any more, and what was comes back with nothing.
LEMMA EndedMessages ==
  ASSUME MessagesAreRight, results \in Seq(BOOLEAN), flight \in Seq(Seq(Nat)),
         queue' = queue, accepted' = accepted, wire' = wire, size' = size, flight' = <<>>,
         results' = results \o [i \in DOMAIN flight |-> FALSE],
         (\E u \in Threads : pc[u] = "finish") <=> (\E u \in Threads : pc'[u] = "finish")
  PROVE  MessagesAreRight'
<1> DEFINE r == results \o [i \in DOMAIN flight |-> FALSE]
<1>1. /\ Len(r) = Len(results) + Len(flight)
      /\ \A i \in 1 .. Len(r) : r[i] <=> i <= Len(results) /\ results[i]
  BY FailsJoined
<1>2. results' = r
  OBVIOUS
<1> HIDE DEF r
<1>3. 1 .. Len(results) \subseteq 1 .. Len(r)
  BY <1>1
<1>4. \A i \in 1 .. Len(r) : i <= Len(results) => i \in 1 .. Len(results)
  BY <1>1
<1>5. \A i \in 1 .. Len(results) : i <= Len(results)
  OBVIOUS
<1>6. (\E i \in 1 .. Len(r) : r[i]) <=> (\E i \in 1 .. Len(results) : results[i])
  BY <1>1, <1>3, <1>4, <1>5, Zenon
<1>7. Transferred' <=> Transferred
  BY <1>2, <1>6 DEF Transferred
<1>8. \A i \in 1 .. Len(flight') : FALSE
  OBVIOUS
<1>9. QED
  BY <1>7, <1>8 DEF MessagesAreRight, Popped

\* The messages stay numbered, in the queue, in flight and on the wire.
LEMMA MessagesStep ==
  ASSUME Kept, NEW t \in Threads, SessionSend(t) \/ SessionTimeout(t) \/ Step(t)
  PROVE  MessagesAreRight'
<1>0. /\ \A u \in Threads \ {t} : pc'[u] = pc[u]
      /\ MessagesAreRight /\ TypeOK /\ SequencesAreTyped
  BY Alone DEF Kept
<1>a. /\ Len(queue) \in Nat /\ Len(accepted) \in Nat /\ Len(wire) \in Nat
      /\ Len(queue) <= Len(accepted) /\ size \in Nat
      /\ Popped \in Nat /\ Popped + Len(queue) = Len(accepted)
  BY <1>0 DEF SequencesAreTyped, MessagesAreRight, TypeOK, Popped
<1>b. /\ queue \in Seq(Nat) /\ accepted \in Seq(Nat) /\ wire \in Seq(Nat)
      /\ flight \in Seq(Seq(Nat)) /\ results \in Seq(BOOLEAN)
  BY <1>0 DEF SequencesAreTyped
<1> USE DEF send, node, kernel, ends, thread, Goto, Start, Idle, Return, AtEnd
<1>1. CASE SessionSend(t)
  <2>1. /\ queue' = queue /\ accepted' = accepted /\ wire' = wire
        /\ flight' = flight /\ results' = results /\ size' = size
    BY <1>1 DEF SessionSend, Acquire
  <2>2. pc[t] = "finish" <=> pc'[t] = "finish"
    BY <1>0, <1>1 DEF SessionSend, Acquire, TypeOK
  <2>3. QED
    BY <2>1, <2>2, MessagesStay
<1>2. CASE SessionTimeout(t)
  <2>1. /\ queue' = queue /\ accepted' = accepted /\ wire' = wire
        /\ flight' = flight /\ results' = results /\ size' = size
    BY <1>2 DEF SessionTimeout, Acquire
  <2>2. pc[t] = "finish" <=> pc'[t] = "finish"
    BY <1>0, <1>2 DEF SessionTimeout, Acquire, TypeOK
  <2>3. QED
    BY <2>1, <2>2, MessagesStay
<1>3. CASE Release(t)
  <2>1. /\ queue' = queue /\ accepted' = accepted /\ wire' = wire
        /\ flight' = flight /\ results' = results /\ size' = size
    BY <1>3 DEF Release, Drop
  <2>2. pc[t] = "finish" <=> pc'[t] = "finish"
    BY <1>0, <1>3 DEF Release, Drop, TypeOK
  <2>3. QED
    BY <2>1, <2>2, MessagesStay
<1>4. CASE CancelRelease(t)
  <2>1. /\ queue' = queue /\ accepted' = accepted /\ wire' = wire
        /\ flight' = flight /\ results' = results /\ size' = size
    BY <1>4 DEF CancelRelease, Drop
  <2>2. pc[t] = "finish" <=> pc'[t] = "finish"
    BY <1>0, <1>4 DEF CancelRelease, Drop, TypeOK
  <2>3. QED
    BY <2>1, <2>2, MessagesStay
<1>5. CASE SendEnqueue(t)
  <2>1. /\ queue' = queue /\ accepted' = accepted /\ wire' = wire
        /\ flight' = flight /\ results' = results /\ size' = size
    BY <1>5 DEF SendEnqueue
  <2>2. pc[t] = "finish" <=> pc'[t] = "finish"
    BY <1>0, <1>5 DEF SendEnqueue, TypeOK
  <2>3. QED
    BY <2>1, <2>2, MessagesStay
<1>6. CASE Emplace(t)
  <2> DEFINE m == Len(accepted) + 1
             r == Append(accepted, m)
             s == Append(queue, m)
  <2>1. /\ accepted' = r /\ queue' = s /\ wire' = wire /\ flight' = flight
        /\ results' = results /\ size' = size
    BY <1>6 DEF Emplace
  <2>2. pc[t] = "emplace" /\ pc'[t] = "ready"
    BY <1>0, <1>6 DEF Emplace, TypeOK
  <2>3. /\ m \in Nat /\ Len(r) = m /\ Len(s) = Len(queue) + 1
        /\ \A i \in 1 .. Len(accepted) : r[i] = accepted[i]
        /\ \A i \in 1 .. Len(queue) : s[i] = queue[i]
        /\ r[m] = m /\ s[Len(queue) + 1] = m
    BY <1>a, <1>b
  <2>4. Popped' = Popped
    <3>1. Popped' = Len(r) - Len(s)
      BY <2>1 DEF Popped
    <3>2. QED
      BY <1>a, <2>3, <3>1
  <2>5. Transferred' <=> Transferred
    <3>1. (\E u \in Threads : pc[u] = "finish") <=> (\E u \in Threads : pc'[u] = "finish")
      BY <1>0, <2>2
    <3>2. QED
      BY <2>1, <3>1 DEF Transferred
  <2> HIDE DEF r, s
  <2>6. ASSUME NEW i \in 1 .. Len(r) PROVE r[i] = i
    <3>1. \A j \in 1 .. Len(accepted) : accepted[j] = j
      BY <1>0 DEF MessagesAreRight
    <3>2. i \in 1 .. Len(accepted) \/ i = m
      BY <1>a, <2>3
    <3>3. QED
      BY <2>3, <3>1, <3>2
  <2>7. ASSUME NEW i \in 1 .. Len(s) PROVE s[i] = Popped + i
    <3>1. \A j \in 1 .. Len(queue) : queue[j] = Popped + j
      BY <1>0 DEF MessagesAreRight
    <3>2. i \in 1 .. Len(queue) \/ i = Len(queue) + 1
      BY <1>a, <2>3
    <3>3. Popped + (Len(queue) + 1) = m
      BY <1>a
    <3>4. QED
      BY <2>3, <3>1, <3>2, <3>3
  <2>8. Len(s) <= Len(r)
    BY <1>a, <2>3
  <2>9. Transferred \/ flight # <<>> => size <= Len(s)
    BY <1>0, <1>a, <2>3 DEF MessagesAreRight
  <2>10. QED
    BY <1>0, <2>1, <2>4, <2>5, <2>6, <2>7, <2>8, <2>9 DEF MessagesAreRight
<1>7. CASE SendReady(t)
  <2>1. /\ queue' = queue /\ accepted' = accepted /\ wire' = wire
        /\ flight' = flight /\ results' = results /\ size' = size
    BY <1>7 DEF SendReady
  <2>2. pc[t] = "finish" <=> pc'[t] = "finish"
    BY <1>0, <1>7 DEF SendReady, TypeOK
  <2>3. QED
    BY <2>1, <2>2, MessagesStay
<1>8. CASE Claim(t)
  <2>1. /\ queue' = queue /\ accepted' = accepted /\ wire' = wire
        /\ flight' = flight /\ results' = results /\ size' = size
    BY <1>8 DEF Claim
  <2>2. pc[t] = "finish" <=> pc'[t] = "finish"
    BY <1>0, <1>8 DEF Claim, TypeOK
  <2>3. QED
    BY <2>1, <2>2, MessagesStay
<1>9. CASE Recheck(t)
  <2>1. /\ queue' = queue /\ accepted' = accepted /\ wire' = wire
        /\ flight' = flight /\ results' = results /\ size' = size
    BY <1>9 DEF Recheck
  <2>2. pc[t] = "finish" <=> pc'[t] = "finish"
    BY <1>0, <1>9 DEF Recheck, TypeOK
  <2>3. QED
    BY <2>1, <2>2, MessagesStay
<1>10. CASE SendPost(t)
  <2>1. /\ queue' = queue /\ accepted' = accepted /\ results' = results
        /\ size' = Len(queue) /\ pc[t] = "post"
    BY <1>10 DEF SendPost
  <2>2. \/ flight' = flight /\ wire' = wire /\ pc'[t] = "release"
        \/ flight' = flight /\ wire' = wire \o queue /\ pc'[t] = "finish"
        \/ flight' = Append(flight, queue) /\ wire' = wire /\ pc'[t] = "stray"
    BY <1>0, <1>10 DEF SendPost, TypeOK
  <2>3. ~Transferred /\ Len(results) = 0 /\ Len(wire) = Popped
    BY <2>1, NotTransferred DEF Owns
  <2>4. Len(flight) = 0 /\ \A u \in Threads \ {t} : pc'[u] # "finish"
    BY <1>0, <2>1, OneInHand DEF Owns
  <2>5. Transferred' <=> pc'[t] = "finish"
    BY <2>1, <2>3, <2>4 DEF Transferred
  <2>6. Popped' = Popped
    BY <2>1 DEF Popped
  <2>7. /\ \A i \in 1 .. Len(accepted') : accepted'[i] = i
        /\ Len(queue') <= Len(accepted')
        /\ \A i \in 1 .. Len(queue') : queue'[i] = Popped' + i
        /\ size' <= Len(queue')
    BY <1>0, <1>a, <2>1, <2>6 DEF MessagesAreRight
  <2>8. CASE flight' = flight /\ wire' = wire /\ pc'[t] = "release"
    <3>1. Len(wire') = Popped' + (IF Transferred' THEN size' ELSE 0)
      BY <1>a, <2>3, <2>5, <2>6, <2>8
    <3>2. /\ \A i \in 1 .. Len(wire') : wire'[i] = i
          /\ \A i \in 1 .. Len(flight') : FALSE
      BY <1>0, <2>4, <2>8 DEF MessagesAreRight
    <3>3. QED
      BY <2>7, <3>1, <3>2 DEF MessagesAreRight
  <2>9. CASE flight' = flight /\ wire' = wire \o queue /\ pc'[t] = "finish"
    <3> DEFINE r == wire \o queue
    <3>1. /\ Len(r) = Len(wire) + Len(queue)
          /\ \A i \in 1 .. Len(wire) : r[i] = wire[i]
          /\ \A i \in 1 .. Len(r) :
               i > Len(wire) => i - Len(wire) \in 1 .. Len(queue) /\ r[i] = queue[i - Len(wire)]
      BY <1>b, Joined
    <3>2. wire' = r
      BY <2>9
    <3> HIDE DEF r
    <3>3. ASSUME NEW i \in 1 .. Len(r) PROVE r[i] = i
      <4>1. i \in Nat /\ i >= 1
        BY <1>a, <3>1
      <4>2. CASE i <= Len(wire)
        <5>1. i \in 1 .. Len(wire)
          BY <1>a, <4>1, <4>2
        <5>2. wire[i] = i
          BY <1>0, <5>1 DEF MessagesAreRight
        <5>3. QED
          BY <3>1, <5>1, <5>2
      <4>3. CASE i > Len(wire)
        <5>1. i - Len(wire) \in 1 .. Len(queue) /\ r[i] = queue[i - Len(wire)]
          BY <3>1, <4>3
        <5>2. r[i] = Popped + (i - Len(wire))
          BY <1>0, <5>1 DEF MessagesAreRight
        <5>3. QED
          BY <1>a, <2>3, <4>1, <5>2
      <4>4. QED
        BY <1>a, <4>1, <4>2, <4>3
    <3>4. Len(wire') = Popped' + (IF Transferred' THEN size' ELSE 0)
      BY <1>a, <2>1, <2>3, <2>5, <2>6, <2>9, <3>1, <3>2
    <3>5. \A i \in 1 .. Len(flight') : FALSE
      BY <2>4, <2>9
    <3>6. QED
      BY <2>7, <3>2, <3>3, <3>4, <3>5 DEF MessagesAreRight
  <2>10. CASE flight' = Append(flight, queue) /\ wire' = wire /\ pc'[t] = "stray"
    <3>1. Len(wire') = Popped' + (IF Transferred' THEN size' ELSE 0)
      BY <1>a, <2>3, <2>5, <2>6, <2>10
    <3> DEFINE r == Append(flight, queue)
    <3>2. Len(r) = 1 /\ r[1] = queue
      BY <1>b, <2>4
    <3>3. flight' = r
      BY <2>10
    <3> HIDE DEF r
    <3>4. /\ \A i \in 1 .. Len(wire') : wire'[i] = i
          /\ \A i \in 1 .. Len(r) : i = 1
      BY <1>0, <2>10, <3>2 DEF MessagesAreRight
    <3>5. \A j \in 1 .. Len(queue) : queue[j] = Popped + j
      BY <1>0 DEF MessagesAreRight
    <3>6. \A i \in 1 .. Len(r) : Len(r[i]) = size' /\ \A j \in 1 .. size' : r[i][j] = Popped' + j
      BY <2>1, <2>6, <3>2, <3>4, <3>5
    <3>7. QED
      BY <2>7, <3>1, <3>3, <3>4, <3>6 DEF MessagesAreRight
  <2>11. QED
    BY <2>2, <2>8, <2>9, <2>10
<1>11. CASE SendFinish(t)
  <2> DEFINE r == SubSeq(queue, size + 1, Len(queue))
  <2>1. /\ queue' = r /\ accepted' = accepted /\ wire' = wire /\ flight' = flight
        /\ results' = results /\ size' = size /\ pc[t] = "finish"
    BY <1>11 DEF SendFinish, Finish
  <2>2. pc'[t] = "clear"
    BY <1>0, <1>11 DEF SendFinish, Finish, TypeOK
  <2>3. size <= Len(queue)
    BY <2>1, FinishFits
  <2>4. /\ Len(r) = Len(queue) - size
        /\ \A i \in 1 .. Len(r) : size + i \in 1 .. Len(queue) /\ r[i] = queue[size + i]
    BY <1>a, <1>b, <2>3
  <2> HIDE DEF r
  <2>5. Popped' = Popped + size
    <3>1. Popped' = Len(accepted) - Len(r)
      BY <2>1 DEF Popped
    <3>2. Len(r) = Len(queue) - size
      BY <2>4
    <3>3. Len(accepted) - (Len(queue) - size) = Popped + size
      BY <1>a
    <3>4. QED
      BY <3>1, <3>2, <3>3
  <2>6. /\ Len(results) = 0 /\ Len(flight) = 0 /\ flight = <<>>
        /\ \A u \in Threads \ {t} : pc[u] # "finish"
    <3>1. Owns(pc[t])
      BY <2>1 DEF Owns
    <3>2. Len(results) = 0 /\ Len(flight) = 0 /\ \A u \in Threads : Owns(pc[u]) => u = t
      BY <3>1, OneInHand
    <3>3. \A u \in Threads \ {t} : pc[u] # "finish"
      BY <3>2 DEF Owns
    <3>4. flight = <<>>
      BY <1>b, <3>2
    <3>5. QED
      BY <3>2, <3>3, <3>4
  <2>7. ~Transferred'
    BY <1>0, <2>1, <2>2, <2>6 DEF Transferred
  <2>8. Transferred
    BY <2>1 DEF Transferred
  <2>9. Len(wire) = Popped + size
    BY <1>0, <2>8 DEF MessagesAreRight
  <2>10. Len(wire') = Popped' + (IF Transferred' THEN size' ELSE 0)
    BY <1>a, <2>1, <2>5, <2>7, <2>9
  <2>11. \A i \in 1 .. Len(r) : r[i] = Popped' + i
    <3>1. ASSUME NEW i \in 1 .. Len(r) PROVE r[i] = Popped + (size + i) /\ i \in Nat
      BY <1>0, <1>a, <2>3, <2>4 DEF MessagesAreRight
    <3>2. QED
      BY <1>a, <2>5, <3>1
  <2>12. Len(r) <= Len(accepted)
    BY <1>a, <2>3, <2>4
  <2>13. /\ \A i \in 1 .. Len(accepted') : accepted'[i] = i
         /\ \A i \in 1 .. Len(wire') : wire'[i] = i
         /\ \A i \in 1 .. Len(flight') : FALSE
    BY <1>0, <2>1, <2>6 DEF MessagesAreRight
  <2>14. QED
    BY <2>1, <2>6, <2>7, <2>10, <2>11, <2>12, <2>13 DEF MessagesAreRight
<1>12. CASE SendClear(t)
  <2>1. /\ queue' = queue /\ accepted' = accepted /\ wire' = wire
        /\ flight' = flight /\ results' = results /\ size' = size
    BY <1>12 DEF SendClear, Clear
  <2>2. pc[t] = "finish" <=> pc'[t] = "finish"
    BY <1>0, <1>12 DEF SendClear, Clear, TypeOK
  <2>3. QED
    BY <2>1, <2>2, MessagesStay
<1>13. CASE Stray(t)
  <2>1. /\ queue' = queue /\ accepted' = accepted /\ wire' = wire
        /\ flight' = flight /\ results' = results /\ size' = size
    BY <1>13 DEF Stray, CancelFlagRead
  <2>2. pc[t] = "finish" <=> pc'[t] = "finish"
    BY <1>0, <1>13 DEF Stray, CancelFlagRead, TypeOK
  <2>3. QED
    BY <2>1, <2>2, MessagesStay
<1>14. CASE SessionCancel(t)
  <2>1. /\ queue' = queue /\ accepted' = accepted /\ wire' = wire
        /\ flight' = flight /\ results' = results /\ size' = size
    BY <1>14 DEF SessionCancel, Acquire
  <2>2. pc[t] = "finish" <=> pc'[t] = "finish"
    BY <1>0, <1>14 DEF SessionCancel, Acquire, TypeOK
  <2>3. QED
    BY <2>1, <2>2, MessagesStay
<1>15. CASE Cancel(t)
  <2>1. /\ queue' = queue /\ accepted' = accepted /\ wire' = wire
        /\ flight' = flight /\ results' = results /\ size' = size
    BY <1>15 DEF Cancel, Following
  <2>2. pc[t] = "finish" <=> pc'[t] = "finish"
    BY <1>0, <1>15 DEF Cancel, Following, TypeOK
  <2>3. QED
    BY <2>1, <2>2, MessagesStay
<1>16. CASE CancelIo(t)
  <2> DEFINE r == results \o [i \in DOMAIN flight |-> FALSE]
  <2>1. /\ queue' = queue /\ accepted' = accepted /\ wire' = wire /\ size' = size
        /\ flight' = <<>> /\ results' = r
    BY <1>16 DEF CancelIo, Following
  <2>2. pc[t] # "finish" /\ pc'[t] # "finish"
    BY <1>0, <1>16 DEF CancelIo, Following, TypeOK
  <2>3. (\E u \in Threads : pc[u] = "finish") <=> (\E u \in Threads : pc'[u] = "finish")
    BY <1>0, <2>2
  <2>4. MessagesAreRight' 
    BY <1>b, <2>1, <2>3, EndedMessages DEF Kept
  <2>5. QED
    BY <2>4
<1>17. CASE SendCompletion(t)
  <2>1. /\ queue' = queue /\ accepted' = accepted /\ wire' = wire /\ size' = size
        /\ flight' = flight /\ results' = Tail(results)
    BY <1>17 DEF SendCompletion
  <2>2. results # <<>>
    BY <1>17 DEF SendCompletion
  <2>3. pc'[t] = "finish" <=> Head(results)
    BY <1>0, <1>17 DEF SendCompletion, TypeOK
  <2>4. /\ Len(results) > 0 /\ Head(results) = results[1] /\ Len(Tail(results)) = Len(results) - 1
        /\ Len(results) \in Nat
    BY <1>b, <2>2, Shorter
  <2>5. Len(results) = 1 /\ Len(flight) = 0 /\ \A u \in Threads : pc[u] # "finish"
    BY <2>4, OneInHand DEF Owns
  <2>6. Transferred <=> results[1]
    <3>1. \A i \in 1 .. Len(results) : i = 1
      BY <2>5
    <3>2. 1 \in 1 .. Len(results)
      BY <2>5
    <3>3. QED
      BY <2>5, <3>1, <3>2 DEF Transferred
  <2>7. Transferred' <=> pc'[t] = "finish"
    <3>1. Len(results') = 0
      BY <2>1, <2>4, <2>5
    <3>2. \A i \in 1 .. Len(results') : FALSE
      BY <3>1
    <3>3. \A u \in Threads : pc'[u] = "finish" => u = t
      BY <1>0, <2>5
    <3>4. QED
      BY <3>2, <3>3 DEF Transferred
  <2>8. Transferred' <=> Transferred
    BY <2>3, <2>4, <2>6, <2>7
  <2>9. QED
    BY <1>0, <2>1, <2>8 DEF MessagesAreRight, Popped
<1>18. CASE ReceiveCompletion(t)
  <2>1. /\ queue' = queue /\ accepted' = accepted /\ wire' = wire
        /\ flight' = flight /\ results' = results /\ size' = size
    BY <1>18 DEF ReceiveCompletion, EndCoroutine
  <2>2. pc[t] = "finish" <=> pc'[t] = "finish"
    BY <1>0, <1>18 DEF ReceiveCompletion, EndCoroutine, TypeOK
  <2>3. QED
    BY <2>1, <2>2, MessagesStay
<1>19. CASE SessionReceive(t)
  <2>1. /\ queue' = queue /\ accepted' = accepted /\ wire' = wire
        /\ flight' = flight /\ results' = results /\ size' = size
    BY <1>19 DEF SessionReceive, EndCoroutine
  <2>2. pc[t] = "finish" <=> pc'[t] = "finish"
    BY <1>0, <1>19 DEF SessionReceive, EndCoroutine, TypeOK
  <2>3. QED
    BY <2>1, <2>2, MessagesStay
<1>20. CASE ReceivePost(t)
  <2>1. /\ queue' = queue /\ accepted' = accepted /\ wire' = wire
        /\ flight' = flight /\ results' = results /\ size' = size
    BY <1>20 DEF ReceivePost, EndCoroutine
  <2>2. pc[t] = "finish" <=> pc'[t] = "finish"
    BY <1>0, <1>20 DEF ReceivePost, EndCoroutine, TypeOK
  <2>3. QED
    BY <2>1, <2>2, MessagesStay
<1>21. CASE StrayReceive(t)
  <2>1. /\ queue' = queue /\ accepted' = accepted /\ wire' = wire
        /\ flight' = flight /\ results' = results /\ size' = size
    BY <1>21 DEF StrayReceive, CancelFlagRead
  <2>2. pc[t] = "finish" <=> pc'[t] = "finish"
    BY <1>0, <1>21 DEF StrayReceive, CancelFlagRead, TypeOK
  <2>3. QED
    BY <2>1, <2>2, MessagesStay
<1>22. QED
  BY <1>1, <1>2, <1>3, <1>4, <1>5, <1>6, <1>7, <1>8, <1>9, <1>10, <1>11, <1>12, <1>13, <1>14,
     <1>15, <1>16, <1>17, <1>18, <1>19, <1>20, <1>21 DEF Step

-----------------------------------------------------------------------------
(* The bytes, and the variables that are not sequences.                      *)

\* A step that moves no bytes.
LEMMA BytesStay ==
  ASSUME Kept, NEW t \in Threads, SessionSend(t) \/ SessionTimeout(t) \/ Step(t),
         queue' = queue, byte' = byte, pc[t] = "emplace" <=> pc'[t] = "emplace"
  PROVE  byte' \in Nat /\ BytesAreRight'
<1>1. /\ Cardinality(Emplacers) \in Nat
      /\ Cardinality(Emplacers') = Cardinality(Emplacers) - One(pc[t] = "emplace") + One(pc'[t] = "emplace")
  BY Alone, Counts DEF Kept
<1>2. One(pc[t] = "emplace") = One(pc'[t] = "emplace") /\ One(pc[t] = "emplace") \in Nat
  BY DEF One
<1>3. Cardinality(Emplacers') = Cardinality(Emplacers)
  BY <1>1, <1>2
<1>4. QED
  BY <1>3 DEF Kept, TypeOK, BytesAreRight

\* Bytes are added before the message, and taken back with what was sent.
LEMMA BytesStep ==
  ASSUME Kept, NEW t \in Threads, SessionSend(t) \/ SessionTimeout(t) \/ Step(t)
  PROVE  byte' \in Nat /\ BytesAreRight'
<1> DEFINE e == Cardinality(Emplacers)
           f == Cardinality(Emplacers')
<1>0. TypeOK
  BY DEF Kept
<1>a. /\ Len(queue) \in Nat /\ byte \in Nat /\ e \in Nat /\ f \in Nat
      /\ f = e - One(pc[t] = "emplace") + One(pc'[t] = "emplace")
      /\ Len(queue) + e <= byte
      /\ queue \in Seq(Nat)
  BY Alone, Counts DEF Kept, TypeOK, SequencesAreTyped, BytesAreRight
<1>b. BytesAreRight' <=> Len(queue') + f <= byte'
  BY DEF BytesAreRight
<1> HIDE DEF e, f
<1> USE DEF send, node, kernel, ends, thread, Goto, Start, Idle, Return, AtEnd
<1>1. CASE SessionSend(t)
  <2>1. queue' = queue /\ byte' = byte
    BY <1>1 DEF SessionSend, Acquire
  <2>2. pc[t] = "emplace" <=> pc'[t] = "emplace"
    BY <1>0, <1>1 DEF SessionSend, Acquire, TypeOK
  <2>3. QED
    BY <2>1, <2>2, BytesStay
<1>2. CASE SessionTimeout(t)
  <2>1. queue' = queue /\ byte' = byte
    BY <1>2 DEF SessionTimeout, Acquire
  <2>2. pc[t] = "emplace" <=> pc'[t] = "emplace"
    BY <1>0, <1>2 DEF SessionTimeout, Acquire, TypeOK
  <2>3. QED
    BY <2>1, <2>2, BytesStay
<1>3. CASE Release(t)
  <2>1. queue' = queue /\ byte' = byte
    BY <1>3 DEF Release, Drop
  <2>2. pc[t] = "emplace" <=> pc'[t] = "emplace"
    BY <1>0, <1>3 DEF Release, Drop, TypeOK
  <2>3. QED
    BY <2>1, <2>2, BytesStay
<1>4. CASE CancelRelease(t)
  <2>1. queue' = queue /\ byte' = byte
    BY <1>4 DEF CancelRelease, Drop
  <2>2. pc[t] = "emplace" <=> pc'[t] = "emplace"
    BY <1>0, <1>4 DEF CancelRelease, Drop, TypeOK
  <2>3. QED
    BY <2>1, <2>2, BytesStay
<1>5. CASE SendEnqueue(t)
  <2>1. queue' = queue /\ byte' = byte + 1 /\ pc[t] = "enqueue"
    BY <1>5 DEF SendEnqueue
  <2>2. One(pc[t] = "emplace") = 0 /\ One(pc'[t] = "emplace") \in {0, 1}
    BY <2>1 DEF One
  <2>3. f <= e + 1
    BY <1>a, <2>2
  <2>4. Len(queue') + f <= byte' /\ byte' \in Nat
    BY <1>a, <2>1, <2>3
  <2>5. QED
    BY <1>b, <2>4
<1>6. CASE Emplace(t)
  <2>1. queue' = Append(queue, Len(accepted) + 1) /\ byte' = byte
    BY <1>6 DEF Emplace
  <2>2. pc[t] = "emplace" /\ pc'[t] = "ready"
    BY <1>0, <1>6 DEF Emplace, TypeOK
  <2>3. One(pc[t] = "emplace") = 1 /\ One(pc'[t] = "emplace") = 0
    BY <2>2 DEF One
  <2>4. f = e - 1
    BY <1>a, <2>3
  <2>5. Len(queue') = Len(queue) + 1
    BY <1>a, <2>1
  <2>6. Len(queue') + f <= byte' /\ byte' \in Nat
    BY <1>a, <2>1, <2>4, <2>5
  <2>7. QED
    BY <1>b, <2>6
<1>7. CASE SendReady(t)
  <2>1. queue' = queue /\ byte' = byte
    BY <1>7 DEF SendReady
  <2>2. pc[t] = "emplace" <=> pc'[t] = "emplace"
    BY <1>0, <1>7 DEF SendReady, TypeOK
  <2>3. QED
    BY <2>1, <2>2, BytesStay
<1>8. CASE Claim(t)
  <2>1. queue' = queue /\ byte' = byte
    BY <1>8 DEF Claim
  <2>2. pc[t] = "emplace" <=> pc'[t] = "emplace"
    BY <1>0, <1>8 DEF Claim, TypeOK
  <2>3. QED
    BY <2>1, <2>2, BytesStay
<1>9. CASE Recheck(t)
  <2>1. queue' = queue /\ byte' = byte
    BY <1>9 DEF Recheck
  <2>2. pc[t] = "emplace" <=> pc'[t] = "emplace"
    BY <1>0, <1>9 DEF Recheck, TypeOK
  <2>3. QED
    BY <2>1, <2>2, BytesStay
<1>10. CASE SendPost(t)
  <2>1. queue' = queue /\ byte' = byte
    BY <1>10 DEF SendPost
  <2>2. pc[t] = "emplace" <=> pc'[t] = "emplace"
    BY <1>0, <1>10 DEF SendPost, TypeOK
  <2>3. QED
    BY <2>1, <2>2, BytesStay
<1>11. CASE SendFinish(t)
  <2>1. queue' = SubSeq(queue, size + 1, Len(queue)) /\ byte' = byte - size /\ pc[t] = "finish"
    BY <1>11 DEF SendFinish, Finish
  <2>2. pc'[t] = "clear"
    BY <1>0, <1>11 DEF SendFinish, Finish, TypeOK
  <2>3. One(pc[t] = "emplace") = 0 /\ One(pc'[t] = "emplace") = 0
    BY <2>1, <2>2 DEF One
  <2>4. f = e
    BY <1>a, <2>3
  <2>5. size \in Nat /\ size <= Len(queue)
    BY <2>1, FinishFits
  <2>6. Len(queue') = Len(queue) - size
    BY <1>a, <2>1, <2>5
  <2>7. Len(queue') + f <= byte' /\ byte' \in Nat
    BY <1>a, <2>1, <2>4, <2>5, <2>6
  <2>8. QED
    BY <1>b, <2>7
<1>12. CASE SendClear(t)
  <2>1. queue' = queue /\ byte' = byte
    BY <1>12 DEF SendClear, Clear
  <2>2. pc[t] = "emplace" <=> pc'[t] = "emplace"
    BY <1>0, <1>12 DEF SendClear, Clear, TypeOK
  <2>3. QED
    BY <2>1, <2>2, BytesStay
<1>13. CASE Stray(t)
  <2>1. queue' = queue /\ byte' = byte
    BY <1>13 DEF Stray, CancelFlagRead
  <2>2. pc[t] = "emplace" <=> pc'[t] = "emplace"
    BY <1>0, <1>13 DEF Stray, CancelFlagRead, TypeOK
  <2>3. QED
    BY <2>1, <2>2, BytesStay
<1>14. CASE SessionCancel(t)
  <2>1. queue' = queue /\ byte' = byte
    BY <1>14 DEF SessionCancel, Acquire
  <2>2. pc[t] = "emplace" <=> pc'[t] = "emplace"
    BY <1>0, <1>14 DEF SessionCancel, Acquire, TypeOK
  <2>3. QED
    BY <2>1, <2>2, BytesStay
<1>15. CASE Cancel(t)
  <2>1. queue' = queue /\ byte' = byte
    BY <1>15 DEF Cancel, Following
  <2>2. pc[t] = "emplace" <=> pc'[t] = "emplace"
    BY <1>0, <1>15 DEF Cancel, Following, TypeOK
  <2>3. QED
    BY <2>1, <2>2, BytesStay
<1>16. CASE CancelIo(t)
  <2>1. queue' = queue /\ byte' = byte
    BY <1>16 DEF CancelIo, Following
  <2>2. pc[t] = "emplace" <=> pc'[t] = "emplace"
    BY <1>0, <1>16 DEF CancelIo, Following, TypeOK
  <2>3. QED
    BY <2>1, <2>2, BytesStay
<1>17. CASE SendCompletion(t)
  <2>1. queue' = queue /\ byte' = byte
    BY <1>17 DEF SendCompletion
  <2>2. pc[t] = "emplace" <=> pc'[t] = "emplace"
    BY <1>0, <1>17 DEF SendCompletion, TypeOK
  <2>3. QED
    BY <2>1, <2>2, BytesStay
<1>18. CASE ReceiveCompletion(t)
  <2>1. queue' = queue /\ byte' = byte
    BY <1>18 DEF ReceiveCompletion, EndCoroutine
  <2>2. pc[t] = "emplace" <=> pc'[t] = "emplace"
    BY <1>0, <1>18 DEF ReceiveCompletion, EndCoroutine, TypeOK
  <2>3. QED
    BY <2>1, <2>2, BytesStay
<1>19. CASE SessionReceive(t)
  <2>1. queue' = queue /\ byte' = byte
    BY <1>19 DEF SessionReceive, EndCoroutine
  <2>2. pc[t] = "emplace" <=> pc'[t] = "emplace"
    BY <1>0, <1>19 DEF SessionReceive, EndCoroutine, TypeOK
  <2>3. QED
    BY <2>1, <2>2, BytesStay
<1>20. CASE ReceivePost(t)
  <2>1. queue' = queue /\ byte' = byte
    BY <1>20 DEF ReceivePost, EndCoroutine
  <2>2. pc[t] = "emplace" <=> pc'[t] = "emplace"
    BY <1>0, <1>20 DEF ReceivePost, EndCoroutine, TypeOK
  <2>3. QED
    BY <2>1, <2>2, BytesStay
<1>21. CASE StrayReceive(t)
  <2>1. queue' = queue /\ byte' = byte
    BY <1>21 DEF StrayReceive, CancelFlagRead
  <2>2. pc[t] = "emplace" <=> pc'[t] = "emplace"
    BY <1>0, <1>21 DEF StrayReceive, CancelFlagRead, TypeOK
  <2>3. QED
    BY <2>1, <2>2, BytesStay
<1>22. QED
  BY <1>1, <1>2, <1>3, <1>4, <1>5, <1>6, <1>7, <1>8, <1>9, <1>10, <1>11, <1>12, <1>13, <1>14,
     <1>15, <1>16, <1>17, <1>18, <1>19, <1>20, <1>21 DEF Step

\* The variables keep their types.
LEMMA VariablesStep ==
  ASSUME Kept, NEW t \in Threads, SessionSend(t) \/ SessionTimeout(t) \/ Step(t)
  PROVE  TypeOK'
<1>0. TypeOK /\ Len(queue) \in Nat
  BY DEF Kept, SequencesAreTyped
<1>a. /\ pc' \in [Threads -> Counted \union Coroutine
                               \union {"idle", "stray", "strayReceive", "cancelAcquire"}]
      /\ role' \in [Threads -> {"send", "coroutine", "completion", "timer"}]
  BY Alone DEF Kept
<1>b. refs' \in Nat /\ byte' \in Nat
  BY ReferencesStep, BytesStep
<1> SUFFICES /\ alive' \in BOOLEAN /\ cancelled' \in BOOLEAN /\ sending' \in BOOLEAN
             /\ size' \in Nat /\ receiving' \in {"none", "pending", "data", "empty"}
  BY <1>a, <1>b DEF TypeOK
<1>c. /\ alive \in BOOLEAN /\ cancelled \in BOOLEAN /\ sending \in BOOLEAN
      /\ size \in Nat /\ receiving \in {"none", "pending", "data", "empty"}
  BY <1>0 DEF TypeOK
<1> USE DEF send, node, kernel, ends, thread, Goto, Start, Idle, Return, AtEnd
<1>1. CASE SessionSend(t)
  BY <1>0, <1>c, <1>1 DEF SessionSend, Acquire
<1>2. CASE SessionTimeout(t)
  BY <1>0, <1>c, <1>2 DEF SessionTimeout, Acquire
<1>3. CASE Release(t)
  BY <1>0, <1>c, <1>3 DEF Release, Drop
<1>4. CASE CancelRelease(t)
  BY <1>0, <1>c, <1>4 DEF CancelRelease, Drop
<1>5. CASE SendEnqueue(t)
  BY <1>0, <1>c, <1>5 DEF SendEnqueue
<1>6. CASE Emplace(t)
  BY <1>0, <1>c, <1>6 DEF Emplace
<1>7. CASE SendReady(t)
  BY <1>0, <1>c, <1>7 DEF SendReady
<1>8. CASE Claim(t)
  BY <1>0, <1>c, <1>8 DEF Claim
<1>9. CASE Recheck(t)
  BY <1>0, <1>c, <1>9 DEF Recheck
<1>10. CASE SendPost(t)
  BY <1>0, <1>c, <1>10 DEF SendPost
<1>11. CASE SendFinish(t)
  BY <1>0, <1>c, <1>11 DEF SendFinish, Finish
<1>12. CASE SendClear(t)
  BY <1>0, <1>c, <1>12 DEF SendClear, Clear
<1>13. CASE Stray(t)
  BY <1>0, <1>c, <1>13 DEF Stray, CancelFlagRead
<1>14. CASE SessionCancel(t)
  BY <1>0, <1>c, <1>14 DEF SessionCancel, Acquire
<1>15. CASE Cancel(t)
  BY <1>0, <1>c, <1>15 DEF Cancel, Following
<1>16. CASE CancelIo(t)
  BY <1>0, <1>c, <1>16 DEF CancelIo, Following
<1>17. CASE SendCompletion(t)
  BY <1>0, <1>c, <1>17 DEF SendCompletion
<1>18. CASE ReceiveCompletion(t)
  BY <1>0, <1>c, <1>18 DEF ReceiveCompletion, EndCoroutine
<1>19. CASE SessionReceive(t)
  BY <1>0, <1>c, <1>19 DEF SessionReceive, EndCoroutine
<1>20. CASE ReceivePost(t)
  BY <1>0, <1>c, <1>20 DEF ReceivePost, EndCoroutine
<1>21. CASE StrayReceive(t)
  BY <1>0, <1>c, <1>21 DEF StrayReceive, CancelFlagRead
<1>22. QED
  BY <1>1, <1>2, <1>3, <1>4, <1>5, <1>6, <1>7, <1>8, <1>9, <1>10, <1>11, <1>12, <1>13, <1>14,
     <1>15, <1>16, <1>17, <1>18, <1>19, <1>20, <1>21 DEF Step

-----------------------------------------------------------------------------
(* No message is lost.                                                       *)

\* Who leaves the loop has sent, or leaves the queue to somebody else.
LEMMA LostStep ==
  ASSUME Kept, NoLostMessage, NEW t \in Threads, SessionSend(t) \/ SessionTimeout(t) \/ Step(t)
  PROVE  NoLostMessage'
<1>0. /\ \A u \in Threads \ {t} : pc'[u] = pc[u]
      /\ TypeOK /\ SequencesAreTyped
  BY Alone DEF Kept
<1>a. \A u \in Threads : u \in InLoop <=> pc[u] \in Looping
  BY DEF InLoop
<1>b. \A u \in Threads : u \in InLoop' <=> pc'[u] \in Looping
  BY DEF InLoop
<1>c. (\E u \in Threads \ {t} : pc[u] \in Looping) \/ pc'[t] \in Looping => InLoop' # {}
  BY <1>0, <1>b
<1>d. ASSUME pc[t] \in Looping => pc'[t] \in Looping, queue' # <<>> => queue # <<>> \/ pc'[t] \in Looping,
             ~cancelled' => ~cancelled, broken' = broken,
             flight' = flight, results' = results
      PROVE  NoLostMessage'
  <2>1. ASSUME NEW u \in InLoop PROVE InLoop' # {}
    <3>1. u \in Threads /\ pc[u] \in Looping
      BY DEF InLoop
    <3>2. CASE u = t
      BY <1>c, <1>d, <3>1, <3>2
    <3>3. CASE u # t
      BY <1>c, <3>1, <3>3
    <3>4. QED
      BY <3>2, <3>3
  <2>2. QED
    BY <1>c, <1>d, <2>1 DEF NoLostMessage
<1> USE DEF send, node, kernel, ends, thread, Goto, Start, Idle, Return, AtEnd
<1>1. CASE SessionSend(t)
  <2>1. /\ flight' = flight /\ results' = results /\ broken' = broken
        /\ cancelled => cancelled'
    BY <1>1 DEF SessionSend, Acquire
  <2>2. queue' = queue
    BY <1>1 DEF SessionSend, Acquire
  <2>3. pc[t] \in Looping => pc'[t] \in Looping
    BY <1>0, <1>1 DEF SessionSend, Acquire, TypeOK, Looping
  <2>4. QED
    BY <1>d, <2>1, <2>2, <2>3
<1>2. CASE SessionTimeout(t)
  <2>1. /\ flight' = flight /\ results' = results /\ broken' = broken
        /\ cancelled => cancelled'
    BY <1>2 DEF SessionTimeout, Acquire
  <2>2. queue' = queue
    BY <1>2 DEF SessionTimeout, Acquire
  <2>3. pc[t] \in Looping => pc'[t] \in Looping
    BY <1>0, <1>2 DEF SessionTimeout, Acquire, TypeOK, Looping
  <2>4. QED
    BY <1>d, <2>1, <2>2, <2>3
<1>3. CASE Release(t)
  <2>1. /\ flight' = flight /\ results' = results /\ broken' = broken
        /\ cancelled => cancelled'
    BY <1>3 DEF Release, Drop
  <2>2. queue' = queue
    BY <1>3 DEF Release, Drop
  <2>3. pc[t] \in Looping => pc'[t] \in Looping
    BY <1>0, <1>3 DEF Release, Drop, TypeOK, Looping
  <2>4. QED
    BY <1>d, <2>1, <2>2, <2>3
<1>4. CASE CancelRelease(t)
  <2>1. /\ flight' = flight /\ results' = results /\ broken' = broken
        /\ cancelled => cancelled'
    BY <1>4 DEF CancelRelease, Drop
  <2>2. queue' = queue
    BY <1>4 DEF CancelRelease, Drop
  <2>3. pc[t] \in Looping => pc'[t] \in Looping
    BY <1>0, <1>4 DEF CancelRelease, Drop, TypeOK, Looping
  <2>4. QED
    BY <1>d, <2>1, <2>2, <2>3
<1>5. CASE SendEnqueue(t)
  <2>1. /\ flight' = flight /\ results' = results /\ broken' = broken
        /\ cancelled => cancelled'
    BY <1>5 DEF SendEnqueue
  <2>2. queue' = queue
    BY <1>5 DEF SendEnqueue
  <2>3. pc[t] \in Looping => pc'[t] \in Looping
    BY <1>0, <1>5 DEF SendEnqueue, TypeOK, Looping
  <2>4. QED
    BY <1>d, <2>1, <2>2, <2>3
<1>6. CASE Emplace(t)
  <2>1. /\ flight' = flight /\ results' = results /\ broken' = broken
        /\ cancelled => cancelled'
    BY <1>6 DEF Emplace
  <2>2. pc'[t] \in Looping
    BY <1>0, <1>6 DEF Emplace, TypeOK, Looping
  <2>3. QED
    BY <1>d, <2>1, <2>2
<1>7. CASE SendReady(t)
  <2>1. /\ flight' = flight /\ results' = results /\ broken' = broken
        /\ cancelled' = cancelled /\ queue' = queue
    BY <1>7 DEF SendReady
  <2>2. pc'[t] = IF cancelled \/ queue = <<>> THEN "release" ELSE "claim"
    BY <1>0, <1>7 DEF SendReady, TypeOK
  <2>3. CASE cancelled \/ queue = <<>>
    BY <2>1, <2>3 DEF NoLostMessage
  <2>4. CASE ~(cancelled \/ queue = <<>>)
    <3>1. pc'[t] \in Looping
      BY <2>2, <2>4 DEF Looping
    <3>2. QED
      BY <1>d, <2>1, <3>1
  <2>5. QED
    BY <2>3, <2>4
<1>8. CASE Claim(t)
  <2>1. /\ flight' = flight /\ results' = results /\ broken' = broken
        /\ cancelled' = cancelled /\ queue' = queue
    BY <1>8 DEF Claim
  <2>2. pc[t] = "claim" /\ pc'[t] = IF sending THEN "release" ELSE "recheck"
    BY <1>0, <1>8 DEF Claim, TypeOK
  <2>3. CASE sending
    <3>1. SUFFICES ASSUME ~cancelled, ~broken
                   PROVE  InLoop' # {} \/ flight # <<>> \/ results # <<>>
      BY <2>1 DEF NoLostMessage
    <3>2. InHand = 1
      BY <2>3, <3>1 DEF Kept, OneSend
    <3>3. Len(flight) > 0 \/ Len(results) > 0 \/ \E u \in Threads : Owns(pc[u])
      BY <3>2, OneInHand
    <3>4. ASSUME NEW u \in Threads, Owns(pc[u]) PROVE InLoop' # {}
      <4>1. u # t /\ pc[u] \in Looping
        BY <2>2, <3>4 DEF Owns, Looping
      <4>2. QED
        BY <1>c, <4>1
    <3>5. Len(<<>>) = 0
      OBVIOUS
    <3>6. QED
      BY <3>3, <3>4, <3>5
  <2>4. CASE ~sending
    <3>1. pc'[t] \in Looping
      BY <2>2, <2>4 DEF Looping
    <3>2. QED
      BY <1>d, <2>1, <3>1
  <2>5. QED
    BY <2>3, <2>4
<1>9. CASE Recheck(t)
  <2>1. /\ flight' = flight /\ results' = results /\ broken' = broken
        /\ cancelled => cancelled'
    BY <1>9 DEF Recheck
  <2>2. queue' = queue
    BY <1>9 DEF Recheck
  <2>3. pc[t] \in Looping => pc'[t] \in Looping
    BY <1>0, <1>9 DEF Recheck, TypeOK, Looping
  <2>4. QED
    BY <1>d, <2>1, <2>2, <2>3
<1>10. CASE SendPost(t)
  <2>1. results' = results /\ broken' = broken /\ cancelled' = cancelled /\ queue' = queue
    BY <1>10 DEF SendPost
  <2>2. \/ broken
        \/ flight' = flight /\ pc'[t] = "finish"
        \/ flight' = Append(flight, queue)
    BY <1>0, <1>10 DEF SendPost, TypeOK
  <2>3. CASE broken
    BY <2>1, <2>3 DEF NoLostMessage
  <2>4. CASE flight' = flight /\ pc'[t] = "finish"
    <3>1. pc'[t] \in Looping
      BY <2>4 DEF Looping
    <3>2. QED
      BY <1>c, <3>1 DEF NoLostMessage
  <2>5. CASE flight' = Append(flight, queue)
    <3> DEFINE r == Append(flight, queue)
    <3>1. Len(r) = Len(flight) + 1 /\ Len(flight) \in Nat
      BY <1>0 DEF SequencesAreTyped
    <3>2. Len(<<>>) = 0
      OBVIOUS
    <3>3. flight' = r
      BY <2>5
    <3> HIDE DEF r
    <3>4. flight' # <<>>
      BY <3>1, <3>2, <3>3
    <3>5. QED
      BY <3>4 DEF NoLostMessage
  <2>6. QED
    BY <2>2, <2>3, <2>4, <2>5
<1>11. CASE SendFinish(t)
  <2>1. pc'[t] \in Looping
    BY <1>0, <1>11 DEF SendFinish, Finish, TypeOK, Looping
  <2>2. QED
    BY <1>c, <2>1 DEF NoLostMessage
<1>12. CASE SendClear(t)
  <2>1. /\ flight' = flight /\ results' = results /\ broken' = broken
        /\ cancelled => cancelled'
    BY <1>12 DEF SendClear, Clear
  <2>2. queue' = queue
    BY <1>12 DEF SendClear, Clear
  <2>3. pc[t] \in Looping => pc'[t] \in Looping
    BY <1>0, <1>12 DEF SendClear, Clear, TypeOK, Looping
  <2>4. QED
    BY <1>d, <2>1, <2>2, <2>3
<1>13. CASE Stray(t)
  <2>1. /\ flight' = flight /\ results' = results /\ broken' = broken
        /\ cancelled => cancelled'
    BY <1>13 DEF Stray, CancelFlagRead
  <2>2. queue' = queue
    BY <1>13 DEF Stray, CancelFlagRead
  <2>3. pc[t] \in Looping => pc'[t] \in Looping
    BY <1>0, <1>13 DEF Stray, CancelFlagRead, TypeOK, Looping
  <2>4. QED
    BY <1>d, <2>1, <2>2, <2>3
<1>14. CASE SessionCancel(t)
  <2>1. /\ flight' = flight /\ results' = results /\ broken' = broken
        /\ cancelled => cancelled'
    BY <1>14 DEF SessionCancel, Acquire
  <2>2. queue' = queue
    BY <1>14 DEF SessionCancel, Acquire
  <2>3. pc[t] \in Looping => pc'[t] \in Looping
    BY <1>0, <1>14 DEF SessionCancel, Acquire, TypeOK, Looping
  <2>4. QED
    BY <1>d, <2>1, <2>2, <2>3
<1>15. CASE Cancel(t)
  <2>1. /\ flight' = flight /\ results' = results /\ broken' = broken
        /\ cancelled => cancelled'
    BY <1>15 DEF Cancel, Following
  <2>2. queue' = queue
    BY <1>15 DEF Cancel, Following
  <2>3. pc[t] \in Looping => pc'[t] \in Looping
    BY <1>0, <1>15 DEF Cancel, Following, TypeOK, Looping
  <2>4. QED
    BY <1>d, <2>1, <2>2, <2>3
<1>16. CASE CancelIo(t)
  <2>1. cancelled' = cancelled /\ pc[t] \in {"abort", "cancelAbort"}
    BY <1>16 DEF CancelIo, Following
  <2>2. cancelled
    BY <2>1 DEF Kept, OneSend
  <2>3. QED
    BY <2>1, <2>2 DEF NoLostMessage
<1>17. CASE SendCompletion(t)
  <2>1. /\ results # <<>> /\ broken' = broken /\ cancelled' = cancelled
    BY <1>17 DEF SendCompletion
  <2>2. pc'[t] = IF Head(results) THEN "finish" ELSE "release"
    BY <1>0, <1>17 DEF SendCompletion, TypeOK
  <2>3. Len(results) > 0 /\ Len(results) \in Nat /\ Head(results) = results[1]
    BY <1>0, <2>1, Shorter DEF SequencesAreTyped
  <2>4. CASE results[1]
    <3>1. pc'[t] \in Looping
      BY <2>2, <2>3, <2>4 DEF Looping
    <3>2. QED
      BY <1>c, <3>1 DEF NoLostMessage
  <2>5. CASE ~results[1]
    <3>1. 1 \in 1 .. Len(results)
      BY <2>3
    <3>2. cancelled \/ broken
      BY <2>5, <3>1 DEF Kept, OneSend
    <3>3. QED
      BY <2>1, <3>2 DEF NoLostMessage
  <2>6. QED
    BY <2>4, <2>5
<1>18. CASE ReceiveCompletion(t)
  <2>1. /\ flight' = flight /\ results' = results /\ broken' = broken
        /\ cancelled => cancelled'
    BY <1>18 DEF ReceiveCompletion, EndCoroutine
  <2>2. queue' = queue
    BY <1>18 DEF ReceiveCompletion, EndCoroutine
  <2>3. pc[t] \in Looping => pc'[t] \in Looping
    BY <1>0, <1>18 DEF ReceiveCompletion, EndCoroutine, TypeOK, Looping
  <2>4. QED
    BY <1>d, <2>1, <2>2, <2>3
<1>19. CASE SessionReceive(t)
  <2>1. /\ flight' = flight /\ results' = results /\ broken' = broken
        /\ cancelled => cancelled'
    BY <1>19 DEF SessionReceive, EndCoroutine
  <2>2. queue' = queue
    BY <1>19 DEF SessionReceive, EndCoroutine
  <2>3. pc[t] \in Looping => pc'[t] \in Looping
    BY <1>0, <1>19 DEF SessionReceive, EndCoroutine, TypeOK, Looping
  <2>4. QED
    BY <1>d, <2>1, <2>2, <2>3
<1>20. CASE ReceivePost(t)
  <2>1. /\ flight' = flight /\ results' = results /\ broken' = broken
        /\ cancelled => cancelled'
    BY <1>20 DEF ReceivePost, EndCoroutine
  <2>2. queue' = queue
    BY <1>20 DEF ReceivePost, EndCoroutine
  <2>3. pc[t] \in Looping => pc'[t] \in Looping
    BY <1>0, <1>20 DEF ReceivePost, EndCoroutine, TypeOK, Looping
  <2>4. QED
    BY <1>d, <2>1, <2>2, <2>3
<1>21. CASE StrayReceive(t)
  <2>1. /\ flight' = flight /\ results' = results /\ broken' = broken
        /\ cancelled => cancelled'
    BY <1>21 DEF StrayReceive, CancelFlagRead
  <2>2. queue' = queue
    BY <1>21 DEF StrayReceive, CancelFlagRead
  <2>3. pc[t] \in Looping => pc'[t] \in Looping
    BY <1>0, <1>21 DEF StrayReceive, CancelFlagRead, TypeOK, Looping
  <2>4. QED
    BY <1>d, <2>1, <2>2, <2>3
<1>22. QED
  BY <1>1, <1>2, <1>3, <1>4, <1>5, <1>6, <1>7, <1>8, <1>9, <1>10, <1>11, <1>12, <1>13, <1>14,
     <1>15, <1>16, <1>17, <1>18, <1>19, <1>20, <1>21 DEF Step

-----------------------------------------------------------------------------
(* The system, and the theorems.                                             *)

\* A step of the system: it takes no part in who holds what.
Environment == SendDone \/ Arrive \/ Break \/ Fail \/ DestroyPacket

\* What the system does of its own leaves the threads and the queue alone.
LEMMA EnvironmentFrame ==
  ASSUME Environment
  PROVE  /\ alive' = alive /\ refs' = refs /\ cancelled' = cancelled /\ sending' = sending
         /\ byte' = byte /\ queue' = queue /\ size' = size /\ accepted' = accepted
         /\ pc' = pc /\ role' = role
         /\ HoldsReference' = HoldsReference /\ OwnsSend' = OwnsSend
         /\ InLoop' = InLoop /\ Emplacers' = Emplacers
<1>1. /\ alive' = alive /\ refs' = refs /\ cancelled' = cancelled /\ sending' = sending
      /\ byte' = byte /\ queue' = queue /\ size' = size /\ accepted' = accepted
      /\ pc' = pc /\ role' = role
  BY DEF Environment, SendDone, Arrive, Break, Fail, DestroyPacket, node, send, ends, thread, kernel
<1>2. QED
  BY <1>1 DEF HoldsReference, OwnsSend, InLoop, Emplacers

\* A step of the system moves a send from those in flight to the packets.
LEMMA EnvironmentMoves ==
  ASSUME Kept, Environment
  PROVE  /\ SequencesAreTyped' /\ MessagesAreRight'
         /\ Len(flight') \in Nat /\ Len(results') \in Nat
         /\ Len(flight') + Len(results') = Len(flight) + Len(results)
         /\ broken => broken'
         /\ \A i \in 1 .. Len(results') : ~results'[i] => cancelled' \/ broken'
         /\ receiving' \in {"none", "pending", "data", "empty"}
         /\ receiving' = "none" <=> receiving = "none"
<1>0. /\ TypeOK /\ SequencesAreTyped /\ MessagesAreRight /\ OneSend
      /\ cancelled' = cancelled /\ queue' = queue /\ size' = size /\ accepted' = accepted
      /\ pc' = pc
  BY EnvironmentFrame DEF Kept
<1>a. /\ flight \in Seq(Seq(Nat)) /\ results \in Seq(BOOLEAN)
      /\ queue \in Seq(Nat) /\ accepted \in Seq(Nat) /\ wire \in Seq(Nat)
      /\ Len(flight) \in Nat /\ Len(results) \in Nat /\ Len(wire) \in Nat
      /\ broken \in BOOLEAN /\ stopped \in BOOLEAN
  BY <1>0 DEF SequencesAreTyped
<1>b. \A i \in 1 .. Len(results) : ~results[i] => cancelled \/ broken
  BY <1>0 DEF OneSend
<1>c. receiving \in {"none", "pending", "data", "empty"}
  BY <1>0 DEF TypeOK
<1>d. ASSUME flight' = flight, results' = results, wire' = wire, broken => broken',
             broken' \in BOOLEAN, stopped' \in BOOLEAN
      PROVE  /\ SequencesAreTyped' /\ MessagesAreRight'
             /\ Len(flight') \in Nat /\ Len(results') \in Nat
             /\ Len(flight') + Len(results') = Len(flight) + Len(results)
             /\ \A i \in 1 .. Len(results') : ~results'[i] => cancelled' \/ broken'
  <2>1. SequencesAreTyped'
    BY <1>0, <1>a, <1>d DEF SequencesAreTyped
  <2>2. Transferred' <=> Transferred
    BY <1>0, <1>d DEF Transferred
  <2>3. MessagesAreRight'
    BY <1>0, <1>d, <2>2 DEF MessagesAreRight, Popped
  <2>4. \A i \in 1 .. Len(results') : ~results'[i] => cancelled' \/ broken'
    BY <1>0, <1>b, <1>d
  <2>5. QED
    BY <1>a, <1>d, <2>1, <2>3, <2>4
<1>1. CASE SendDone
  <2> DEFINE r == Append(results, TRUE)
             w == wire \o Head(flight)
             f == Tail(flight)
  <2>1. /\ flight # <<>> /\ wire' = w /\ flight' = f /\ results' = r
        /\ broken' = broken /\ receiving' = receiving /\ stopped' = stopped
    BY <1>1 DEF SendDone, ends
  <2>2. /\ Len(flight) > 0 /\ Head(flight) = flight[1] /\ flight[1] \in Seq(Nat)
        /\ f \in Seq(Seq(Nat)) /\ Len(f) = Len(flight) - 1
    BY <1>a, <2>1, Shorter
  <2>3. /\ r \in Seq(BOOLEAN) /\ Len(r) = Len(results) + 1
        /\ \A i \in 1 .. Len(results) : r[i] = results[i]
        /\ r[Len(results) + 1] = TRUE
    BY <1>a
  <2> DEFINE h == flight[1]
  <2>4. w = wire \o h
    BY <2>2
  <2>5. h \in Seq(Nat)
    BY <2>2
  <2> HIDE DEF h
  <2>6. /\ wire \o h \in Seq(Nat)
        /\ Len(wire \o h) = Len(wire) + Len(h)
        /\ \A i \in 1 .. Len(wire) : (wire \o h)[i] = wire[i]
        /\ \A i \in 1 .. Len(wire \o h) :
             i > Len(wire) => i - Len(wire) \in 1 .. Len(h) /\ (wire \o h)[i] = h[i - Len(wire)]
    BY <1>a, <2>5, Joined
  <2>7. /\ w \in Seq(Nat) /\ Len(w) = Len(wire) + Len(h)
        /\ \A i \in 1 .. Len(wire) : w[i] = wire[i]
        /\ \A i \in 1 .. Len(w) :
             i > Len(wire) => i - Len(wire) \in 1 .. Len(h) /\ w[i] = h[i - Len(wire)]
    BY <2>4, <2>6
  <2> HIDE DEF r, w, f
  <2>8. SequencesAreTyped'
    BY <1>0, <1>a, <2>1, <2>2, <2>3, <2>7 DEF SequencesAreTyped
  <2>9. /\ Len(flight) = 1 /\ Len(results) = 0 /\ ~Transferred /\ Len(wire) = Popped
    BY <2>2, NotTransferred, OneInHand
  <2>10. Transferred'
    <3>1. 1 \in 1 .. Len(r) /\ r[1] = TRUE
      BY <2>3, <2>9
    <3>2. QED
      BY <2>1, <3>1 DEF Transferred
  <2>11. 1 \in 1 .. Len(flight)
    BY <2>9
  <2>12. Len(h) = size /\ \A j \in 1 .. size : h[j] = Popped + j
    BY <1>0, <2>11 DEF MessagesAreRight, h
  <2>13. size <= Len(queue) /\ size \in Nat /\ Popped \in Nat
    <3>1. flight # <<>>
      BY <2>1
    <3>2. size <= Len(queue) /\ Len(queue) <= Len(accepted)
      BY <1>0, <3>1 DEF MessagesAreRight
    <3>3. QED
      BY <1>0, <1>a, <3>2 DEF TypeOK, Popped
  <2>14. Popped' = Popped
    BY <1>0 DEF Popped
  <2>15. Len(wire') = Popped' + (IF Transferred' THEN size' ELSE 0)
    BY <1>0, <2>1, <2>7, <2>9, <2>10, <2>12, <2>14
  <2>16. ASSUME NEW i \in 1 .. Len(w) PROVE w[i] = i
    <3>1. i \in Nat /\ i >= 1
      BY <1>a, <2>7
    <3>2. CASE i <= Len(wire)
      <4>1. i \in 1 .. Len(wire)
        BY <1>a, <3>1, <3>2
      <4>2. wire[i] = i
        BY <1>0, <4>1 DEF MessagesAreRight
      <4>3. QED
        BY <2>7, <4>1, <4>2
    <3>3. CASE i > Len(wire)
      <4>1. i - Len(wire) \in 1 .. size /\ w[i] = h[i - Len(wire)]
        BY <2>7, <2>12, <3>3
      <4>2. w[i] = Popped + (i - Len(wire))
        BY <2>12, <4>1
      <4>3. QED
        BY <2>9, <2>13, <3>1, <4>2
    <3>4. QED
      BY <1>a, <3>1, <3>2, <3>3
  <2>17. Len(f) = 0 /\ \A i \in 1 .. Len(f) : FALSE
    BY <2>2, <2>9
  <2>18. MessagesAreRight'
    <3>1. /\ \A i \in 1 .. Len(accepted') : accepted'[i] = i
          /\ Len(queue') <= Len(accepted')
          /\ \A i \in 1 .. Len(queue') : queue'[i] = Popped' + i
          /\ size' <= Len(queue')
      BY <1>0, <2>13, <2>14 DEF MessagesAreRight
    <3>2. /\ \A i \in 1 .. Len(wire') : wire'[i] = i
          /\ \A i \in 1 .. Len(flight') : FALSE
      BY <2>1, <2>16, <2>17
    <3>3. QED
      BY <2>15, <3>1, <3>2 DEF MessagesAreRight
  <2>19. \A i \in 1 .. Len(results') : ~results'[i] => cancelled' \/ broken'
    <3>1. \A i \in 1 .. Len(r) : i = 1
      BY <2>3, <2>9
    <3>2. r[1] = TRUE
      BY <2>3, <2>9
    <3>3. QED
      BY <2>1, <3>1, <3>2
  <2>20. /\ Len(flight') \in Nat /\ Len(results') \in Nat
         /\ Len(flight') + Len(results') = Len(flight) + Len(results)
    BY <2>1, <2>3, <2>9, <2>17
  <2>21. QED
    BY <1>c, <2>1, <2>8, <2>18, <2>19, <2>20
<1>2. CASE Arrive
  <2>1. /\ flight' = flight /\ results' = results /\ wire' = wire /\ broken' = broken
        /\ stopped' = stopped /\ receiving = "pending" /\ receiving' = "data"
    BY <1>2 DEF Arrive, ends
  <2>2. QED
    BY <1>a, <1>d, <2>1
<1>3. CASE Break
  <2>1. /\ flight' = flight /\ results' = results /\ wire' = wire /\ broken' = TRUE
        /\ stopped' = stopped /\ receiving' = receiving
    BY <1>3 DEF Break, ends
  <2>2. QED
    BY <1>a, <1>c, <1>d, <2>1
<1>4. CASE Fail
  <2> DEFINE r == results \o [i \in DOMAIN flight |-> FALSE]
  <2>1. /\ flight' = <<>> /\ results' = r /\ wire' = wire /\ broken' = broken /\ broken
        /\ stopped' = stopped
        /\ receiving' = IF receiving = "pending" THEN "empty" ELSE receiving
    BY <1>4 DEF Fail, ends
  <2>2. r \in Seq(BOOLEAN) /\ Len(r) = Len(results) + Len(flight)
    BY <1>a, FailsJoined
  <2>3. MessagesAreRight'
    BY <1>0, <1>a, <2>1, EndedMessages
  <2> HIDE DEF r
  <2>4. Len(<<>>) = 0 /\ <<>> \in Seq(Seq(Nat))
    OBVIOUS
  <2>5. SequencesAreTyped'
    BY <1>0, <1>a, <2>1, <2>2, <2>4 DEF SequencesAreTyped
  <2>6. /\ Len(flight') \in Nat /\ Len(results') \in Nat
        /\ Len(flight') + Len(results') = Len(flight) + Len(results)
    BY <1>a, <2>1, <2>2, <2>4
  <2>7. /\ receiving' \in {"none", "pending", "data", "empty"}
        /\ receiving' = "none" <=> receiving = "none"
    BY <1>c, <2>1
  <2>8. QED
    BY <2>1, <2>3, <2>5, <2>6, <2>7
<1>5. CASE DestroyPacket
  <2>1. /\ flight' = flight /\ results' = results /\ wire' = wire /\ broken' = broken
        /\ stopped' = TRUE /\ receiving' = receiving
    BY <1>5 DEF DestroyPacket, kernel
  <2>2. QED
    BY <1>a, <1>c, <1>d, <2>1
<1>6. QED
  BY <1>1, <1>2, <1>3, <1>4, <1>5 DEF Environment

\* So a step of the system keeps the invariant.
LEMMA EnvironmentStep ==
  ASSUME IInv, Environment
  PROVE  IInv'
<1>0. Kept /\ NoLostMessage
  BY DEF IInv, Kept
<1>1. SequencesAreTyped' /\ MessagesAreRight'
  BY <1>0, EnvironmentMoves
<1>2. TypeOK'
  BY <1>0, EnvironmentFrame, EnvironmentMoves DEF Kept, TypeOK
<1>3. RolesAreRight'
  BY <1>0, EnvironmentFrame, EnvironmentMoves DEF Kept, RolesAreRight
<1>4. IoKeepsSession'
  <2>1. AttachHeld' <=> AttachHeld
    BY <1>0, EnvironmentFrame, EnvironmentMoves DEF AttachHeld
  <2>2. /\ refs' = refs /\ alive' = alive
        /\ Cardinality(HoldsReference') = Cardinality(HoldsReference)
    BY EnvironmentFrame
  <2>3. /\ Cardinality(HoldsReference) \in Nat /\ Len(flight) \in Nat /\ Len(results) \in Nat
    BY <1>0, Attached
  <2>4. /\ Len(flight') \in Nat /\ Len(results') \in Nat
        /\ Len(flight') + Len(results') = Len(flight) + Len(results)
    BY <1>0, EnvironmentMoves
  <2>5. /\ refs = Cardinality(HoldsReference) + Len(flight) + Len(results)
                  + (IF AttachHeld THEN 1 ELSE 0)
        /\ alive <=> refs > 0
    BY <1>0 DEF Kept, IoKeepsSession
  <2>6. refs = Cardinality(HoldsReference) + Len(flight') + Len(results')
               + (IF AttachHeld THEN 1 ELSE 0)
    BY <2>3, <2>4, <2>5
  <2>7. QED
    BY <2>1, <2>2, <2>5, <2>6 DEF IoKeepsSession
<1>5. OneSend'
  <2>1. /\ Cardinality(OwnsSend') = Cardinality(OwnsSend) /\ sending' = sending
        /\ cancelled' = cancelled /\ pc' = pc
    BY EnvironmentFrame
  <2>2. Cardinality(OwnsSend) \in Nat /\ Len(flight) \in Nat /\ Len(results) \in Nat
    BY <1>0, OneInHand
  <2>3. /\ Len(flight') \in Nat /\ Len(results') \in Nat
        /\ Len(flight') + Len(results') = Len(flight) + Len(results)
    BY <1>0, EnvironmentMoves
  <2>4. InHand' = InHand
    BY <2>1, <2>2, <2>3 DEF InHand
  <2>5. OneSend
    BY <1>0 DEF Kept
  <2>6. InHand' <= One(sending)'
    BY <2>1, <2>4, <2>5 DEF OneSend, One
  <2>7. /\ sending' /\ ~cancelled' /\ ~broken' => InHand' = 1
        /\ \A u \in Threads : pc'[u] \in {"abort", "cancelAbort"} => cancelled'
    BY <1>0, <2>1, <2>4, <2>5, EnvironmentMoves DEF OneSend
  <2>8. \A i \in 1 .. Len(results') : ~results'[i] => cancelled' \/ broken'
    BY <1>0, EnvironmentMoves
  <2>9. QED
    BY <2>6, <2>7, <2>8 DEF OneSend
<1>6. BytesAreRight'
  <2>1. byte' = byte /\ queue' = queue /\ Emplacers' = Emplacers
    BY EnvironmentFrame
  <2>2. QED
    BY <1>0, <2>1 DEF Kept, BytesAreRight
<1>7. NoLostMessage'
  <2>1. /\ queue' = queue /\ cancelled' = cancelled /\ InLoop' = InLoop
    BY EnvironmentFrame
  <2>2. /\ flight \in Seq(Seq(Nat)) /\ results \in Seq(BOOLEAN)
        /\ flight' \in Seq(Seq(Nat)) /\ results' \in Seq(BOOLEAN)
    BY <1>0, <1>1 DEF Kept, SequencesAreTyped
  <2>3. /\ flight # <<>> <=> Len(flight) # 0
        /\ results # <<>> <=> Len(results) # 0
        /\ flight' # <<>> <=> Len(flight') # 0
        /\ results' # <<>> <=> Len(results') # 0
    BY <2>2
  <2>4. /\ Len(flight') \in Nat /\ Len(results') \in Nat
        /\ Len(flight') + Len(results') = Len(flight) + Len(results)
        /\ broken => broken'
    BY <1>0, EnvironmentMoves
  <2>5. Len(flight) \in Nat /\ Len(results) \in Nat
    BY <1>0, OneInHand
  <2>6. flight # <<>> \/ results # <<>> => flight' # <<>> \/ results' # <<>>
    BY <2>3, <2>4, <2>5
  <2>7. QED
    BY <1>0, <2>1, <2>4, <2>6 DEF NoLostMessage
<1>8. QED
  BY <1>1, <1>2, <1>3, <1>4, <1>5, <1>6, <1>7 DEF IInv

\* The session starts with the reference of attach alone and with nothing to
\* send.
LEMMA InitInvariant == Init => IInv
<1> SUFFICES ASSUME Init PROVE IInv
  OBVIOUS
<1>1. TypeOK
  BY DEF Init, TypeOK, Counted, Coroutine
<1>2. SequencesAreTyped
  <2>1. <<>> \in Seq(Nat) /\ <<>> \in Seq(Seq(Nat)) /\ <<>> \in Seq(BOOLEAN)
    OBVIOUS
  <2>2. /\ queue = <<>> /\ accepted = <<>> /\ wire = <<>> /\ flight = <<>> /\ results = <<>>
        /\ broken = FALSE /\ stopped = FALSE
    BY DEF Init
  <2>3. QED
    BY <2>1, <2>2 DEF SequencesAreTyped
<1>3. RolesAreRight
  BY DEF Init, RolesAreRight, Coroutine
<1>4. HoldsReference = {} /\ OwnsSend = {} /\ Emplacers = {}
  BY DEF Init, HoldsReference, OwnsSend, Emplacers, Counted, Looping
<1>5. Cardinality(HoldsReference) = 0 /\ Cardinality(OwnsSend) = 0 /\ Cardinality(Emplacers) = 0
  BY <1>4, FS_EmptySet
<1>6. Len(flight) = 0 /\ Len(results) = 0 /\ Len(queue) = 0 /\ Len(wire) = 0 /\ Len(accepted) = 0
  BY DEF Init
<1>7. AttachHeld /\ refs = 1 /\ alive = TRUE /\ sending = FALSE /\ byte = 0
  BY DEF Init, AttachHeld
<1>8. IoKeepsSession
  BY <1>5, <1>6, <1>7 DEF IoKeepsSession
<1>9. OneSend
  <2>1. InHand = 0
    BY <1>5, <1>6 DEF InHand
  <2>2. \A i \in 1 .. Len(results) : FALSE
    BY <1>6
  <2>3. \A t \in Threads : pc[t] \notin {"abort", "cancelAbort"}
    BY DEF Init
  <2>4. QED
    BY <1>7, <2>1, <2>2, <2>3 DEF OneSend, One
<1>10. MessagesAreRight
  <2>1. ~Transferred
    <3>1. \A i \in 1 .. Len(results) : FALSE
      BY <1>6
    <3>2. \A t \in Threads : pc[t] # "finish"
      BY DEF Init
    <3>3. QED
      BY <3>1, <3>2 DEF Transferred
  <2>2. Popped = 0
    BY <1>6 DEF Popped
  <2>3. /\ \A i \in 1 .. Len(accepted) : FALSE
        /\ \A i \in 1 .. Len(wire) : FALSE
        /\ \A i \in 1 .. Len(queue) : FALSE
        /\ \A i \in 1 .. Len(flight) : FALSE
    BY <1>6
  <2>4. flight = <<>>
    BY DEF Init
  <2>5. QED
    BY <1>6, <2>1, <2>2, <2>3, <2>4 DEF MessagesAreRight
<1>11. BytesAreRight
  BY <1>5, <1>6, <1>7 DEF BytesAreRight
<1>12. NoLostMessage
  BY DEF Init, NoLostMessage
<1>13. QED
  BY <1>1, <1>2, <1>3, <1>8, <1>9, <1>10, <1>11, <1>12 DEF IInv

\* Every step keeps the invariant.
LEMMA StepInvariant == IInv /\ [Next]_sessionVars => IInv'
<1> SUFFICES ASSUME IInv, [Next]_sessionVars PROVE IInv'
  OBVIOUS
<1>1. CASE \E t \in Threads : SessionSend(t) \/ SessionTimeout(t) \/ Step(t)
  <2>1. PICK t \in Threads : SessionSend(t) \/ SessionTimeout(t) \/ Step(t)
    BY <1>1
  <2>2. Kept /\ NoLostMessage
    BY DEF IInv, Kept
  <2>3. TypeOK' /\ SequencesAreTyped' /\ RolesAreRight' /\ IoKeepsSession'
    BY <2>1, <2>2, VariablesStep, TypedStep, RolesStep, ReferencesStep
  <2>4. OneSend' /\ MessagesAreRight' /\ BytesAreRight' /\ NoLostMessage'
    BY <2>1, <2>2, OneSendStep, MessagesStep, BytesStep, LostStep
  <2>5. QED
    BY <2>3, <2>4 DEF IInv
<1>2. CASE Environment
  BY <1>2, EnvironmentStep
<1>3. CASE UNCHANGED sessionVars
  <2>1. /\ alive' = alive /\ refs' = refs /\ cancelled' = cancelled /\ sending' = sending
        /\ byte' = byte /\ queue' = queue /\ size' = size /\ accepted' = accepted
        /\ pc' = pc /\ role' = role /\ flight' = flight /\ results' = results
        /\ receiving' = receiving /\ broken' = broken /\ wire' = wire /\ stopped' = stopped
    BY <1>3 DEF sessionVars, node, send, kernel, ends, thread
  <2>2. /\ HoldsReference' = HoldsReference /\ OwnsSend' = OwnsSend /\ InLoop' = InLoop
        /\ Emplacers' = Emplacers /\ (AttachHeld' <=> AttachHeld) /\ (Transferred' <=> Transferred)
        /\ Popped' = Popped /\ InHand' = InHand
    BY <2>1 DEF HoldsReference, OwnsSend, InLoop, Emplacers, AttachHeld, Transferred, Popped, InHand
  <2>3. TypeOK' /\ SequencesAreTyped' /\ RolesAreRight'
    BY <2>1 DEF IInv, TypeOK, SequencesAreTyped, RolesAreRight
  <2>4. IoKeepsSession' /\ NoLostMessage' /\ BytesAreRight'
    BY <2>1, <2>2 DEF IInv, IoKeepsSession, NoLostMessage, BytesAreRight
  <2>5. OneSend' /\ MessagesAreRight'
    BY <2>1, <2>2 DEF IInv, OneSend, MessagesAreRight, One
  <2>6. QED
    BY <2>3, <2>4, <2>5 DEF IInv
<1>4. QED
  BY <1>1, <1>2, <1>3 DEF Next, Environment

\* The inductive invariant of the session holds in every state.
THEOREM Invariance == Spec => []IInv
<1>1. Init => IInv
  BY InitInvariant
<1>2. IInv /\ [Next]_sessionVars => IInv'
  BY StepInvariant
<1>3. QED
  BY <1>1, <1>2, PTL DEF Spec

\* For any number of threads, messages and bytes: the references of the
\* session are exactly those of the threads inside it, of the sends in flight
\* and of the receive, and it exists while there is one, so the memory a send
\* or a receive in flight uses exists (session_send, send_post, receive).
THEOREM IoCorrect == Spec => []IoKeepsSession
<1>1. IInv => IoKeepsSession
  BY DEF IInv
<1>2. QED
  BY Invariance, <1>1, PTL

\* Two sequences that are the same part of the numbers are equal.
LEMMA Numbered ==
  ASSUME NEW s \in Seq(Nat), NEW a \in Seq(Nat), NEW k \in Nat,
         \A i \in 1 .. Len(a) : a[i] = i, k + Len(s) <= Len(a),
         \A i \in 1 .. Len(s) : s[i] = k + i
  PROVE  s = SubSeq(a, k + 1, k + Len(s))
<1> DEFINE r == SubSeq(a, k + 1, k + Len(s))
<1>1. /\ r \in Seq(Nat) /\ Len(r) = Len(s)
      /\ \A i \in 1 .. Len(r) : k + i \in 1 .. Len(a) /\ r[i] = a[k + i]
  <2>1. k + 1 \in Int /\ k + Len(s) \in Int /\ Len(s) \in Nat /\ Len(a) \in Nat
    OBVIOUS
  <2>2. \A i \in (k + 1) .. (k + Len(s)) : a[i] \in Nat
    BY <2>1
  <2>3. /\ r \in Seq(Nat)
        /\ Len(r) = IF k + 1 <= k + Len(s) THEN (k + Len(s)) - (k + 1) + 1 ELSE 0
        /\ \A i \in 1 .. (k + Len(s)) - (k + 1) + 1 : r[i] = a[k + 1 + i - 1]
    BY <2>1, <2>2, SubSeqProperties
  <2> HIDE DEF r
  <2>4. Len(r) = Len(s)
    BY <2>1, <2>3
  <2>5. ASSUME NEW i \in 1 .. Len(r) PROVE k + i \in 1 .. Len(a) /\ r[i] = a[k + i]
    BY <2>1, <2>3, <2>4
  <2>6. QED
    BY <2>3, <2>4, <2>5
<1> HIDE DEF r
<1>2. \A i \in 1 .. Len(s) : s[i] = r[i]
  BY <1>1
<1>3. s = r
  BY <1>1, <1>2, SeqEqual
<1>4. QED
  BY <1>3 DEF r

\* For any number of threads, messages and bytes: the peer is sent what the
\* queue took in its order and once, one send is in hand at a time, a message
\* leaves the queue only after it was sent, and a queued message is never left
\* with nobody to send it (session_send, send_finish, session.h:49).
THEOREM QueueCorrect == Spec => []QueueIsSent
<1>1. ASSUME IInv PROVE QueueIsSent
  <2>0. Kept
    BY <1>1 DEF IInv, Kept
  <2>1. TypeOK /\ NoLostMessage /\ MessagesAreRight
    BY <1>1 DEF IInv
  <2>2. Cardinality(OwnsSend) + Len(flight) + Len(results) <= 1
    BY <2>0, OneInHand DEF InHand
  <2>3. /\ queue \in Seq(Nat) /\ accepted \in Seq(Nat) /\ wire \in Seq(Nat)
        /\ Len(queue) \in Nat /\ Len(accepted) \in Nat /\ Len(wire) \in Nat /\ size \in Nat
    BY <1>1 DEF IInv, SequencesAreTyped, TypeOK
  <2>4. Len(queue) <= Len(accepted) /\ Popped \in Nat /\ Popped + Len(queue) = Len(accepted)
    BY <2>1, <2>3 DEF MessagesAreRight, Popped
  <2>5. Popped <= Len(wire) /\ Len(wire) <= Len(accepted)
    <3>1. Len(wire) = Popped + (IF Transferred THEN size ELSE 0)
          /\ (Transferred => size <= Len(queue))
      BY <2>1 DEF MessagesAreRight
    <3>2. QED
      BY <2>3, <2>4, <3>1
  <2>6. /\ \A i \in 1 .. Len(accepted) : accepted[i] = i
        /\ \A i \in 1 .. Len(wire) : wire[i] = 0 + i
        /\ \A i \in 1 .. Len(queue) : queue[i] = Popped + i
    BY <2>1, <2>3 DEF MessagesAreRight
  <2>7. wire = SubSeq(accepted, 1, Len(wire))
    <3>1. wire = SubSeq(accepted, 0 + 1, 0 + Len(wire))
      BY <2>3, <2>5, <2>6, Numbered
    <3>2. QED
      BY <2>3, <3>1
  <2>8. queue = SubSeq(accepted, Len(accepted) - Len(queue) + 1, Len(accepted))
    <3> DEFINE k == Popped
    <3>a. /\ k \in Nat /\ k + Len(queue) <= Len(accepted)
          /\ \A i \in 1 .. Len(queue) : queue[i] = k + i
      BY <2>3, <2>4, <2>6
    <3> HIDE DEF k
    <3>b. queue = SubSeq(accepted, k + 1, k + Len(queue))
      BY <2>3, <2>6, <3>a, Numbered
    <3>1. queue = SubSeq(accepted, Popped + 1, Popped + Len(queue))
      BY <3>b DEF k
    <3>2. Popped + Len(queue) = Len(accepted) /\ Popped = Len(accepted) - Len(queue)
      BY <2>4 DEF Popped
    <3>3. QED
      BY <3>1, <3>2
  <2>9. Len(accepted) - Len(queue) <= Len(wire)
    BY <2>5 DEF Popped
  <2>10. QED
    BY <2>1, <2>2, <2>7, <2>8, <2>9 DEF QueueIsSent, SendsInOrder
<1>2. QED
  BY Invariance, <1>1, PTL

=============================================================================
