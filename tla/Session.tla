------------------------------ MODULE Session ------------------------------
(***************************************************************************)
(* One TCP session of tcp::network (library/iocp/tcp/session.h, network.h)  *)
(* from the moment it is attached to its arena node to its destruction:     *)
(* session_send by any thread, the completion of sends, the coroutine that  *)
(* receives, cancellation, and the references that keep the object alive.   *)
(* The bodies are in the compiled library (external); the declarations say  *)
(* what state there is.                                                     *)
(*                                                                          *)
(* The node is used as module HandleTable describes it: acquire by handle   *)
(* succeeds while the object exists, and the last release destroys it.      *)
(* A send or receive that is posted and not finished at once is in flight:  *)
(* the system (external) uses the memory of the session until its packet    *)
(* is on the completion port, and a send in flight owns the reference of    *)
(* the thread that posted it.  Every message is one byte long.              *)
(***************************************************************************)
EXTENDS Naturals, Sequences, FiniteSets

CONSTANTS
  Callers,       \* threads that call session_send or run session_timeout
  Workers,       \* threads of the scheduler
  ByteLimit,     \* _send_bytelimit
  MessageLimit   \* messages sent in a run

ASSUME SessionAssumption ==
  /\ ByteLimit \in Nat /\ MessageLimit \in Nat
  /\ Callers \intersect Workers = {}
  /\ IsFiniteSet(Callers \union Workers)

VARIABLES
  alive,      \* the session exists
  refs,       \* _reference of its node
  cancelled,  \* _cancel_flag
  sending,    \* _send_time holds a time, not the maximum
  byte,       \* _send_byte
  queue,      \* _send_queue
  size,       \* _send_size
  flight,     \* sends the system works on: the messages of each
  results,    \* packets of finished sends: whether bytes were transferred
  receiving,  \* the receive: "none", "pending", "data" or "empty" (its packet)
  broken,     \* the connection is gone: nothing more can be transferred
  pc, role,   \* where a thread is, and on whose behalf
  accepted,   \* messages the queue took, in order (history)
  wire,       \* messages the peer was sent, in order (history)
  made,       \* messages made so far (history, bounds the run)
  doomed,     \* a packet of key "destroy" is on the port
  stopped     \* the program hit __debugbreak

node == <<alive, refs>>
send == <<sending, byte, queue, size, accepted>>
kernel == <<flight, results, receiving, broken, wire>>
ends == <<doomed, stopped>>
thread == <<pc, role>>
sessionVars == <<node, send, cancelled, kernel, made, ends, thread>>

Threads == Callers \union Workers

\* In the loop of session_send and worker_execute that owns or seeks the send.
Looping == {"ready", "claim", "recheck", "post", "finish", "clear"}
\* Reads or writes the session on the strength of a reference it counts.
Counted == Looping \union {"enqueue", "emplace", "flag", "abort", "release",
                           "cancelFlag", "cancelAbort", "cancelRelease"}
\* Runs the receiving coroutine, which owns the reference of attach.
Coroutine == {"handler", "handled", "postReceive"}

TypeOK ==
  /\ alive \in BOOLEAN /\ cancelled \in BOOLEAN /\ sending \in BOOLEAN
  /\ refs \in Nat /\ byte \in Nat /\ size \in Nat
  /\ receiving \in {"none", "pending", "data", "empty"}
  /\ pc \in [Threads -> Counted \union Coroutine
                        \union {"idle", "stray", "strayReceive", "cancelAcquire"}]
  /\ role \in [Threads -> {"send", "coroutine", "completion", "timer"}]

Goto(t, label) == pc' = [pc EXCEPT ![t] = label] /\ UNCHANGED role
Start(t, label, for) ==
  pc' = [pc EXCEPT ![t] = label] /\ role' = [role EXCEPT ![t] = for]
Idle(t) == Start(t, "idle", "send")
Return(t) == IF role[t] = "coroutine" THEN Goto(t, "handled") ELSE Idle(t)
AtEnd(t, label) == pc[t] = label /\ ~stopped

\* attach has made the first reference and the receiving coroutine is posted;
\* the start is shown as an empty handler.
Init ==
  /\ alive = TRUE /\ refs = 1
  /\ cancelled = FALSE /\ sending = FALSE
  /\ byte = 0 /\ queue = <<>> /\ size = 0
  /\ flight = <<>> /\ results = <<>> /\ receiving = "data" /\ broken = FALSE
  /\ pc = [t \in Threads |-> "idle"]
  /\ role = [t \in Threads |-> "send"]
  /\ accepted = <<>> /\ wire = <<>>
  /\ made = 0 /\ doomed = FALSE /\ stopped = FALSE

-----------------------------------------------------------------------------
\* References.

\* acquire(handle): a refusal leaves no trace (module Arena shows that).
Acquire(opened, refused) ==
  IF alive
  THEN refs' = refs + 1 /\ opened /\ UNCHANGED alive
  ELSE refused /\ UNCHANGED node

\* release(): the last one runs the deleter.
Drop ==
  /\ refs' = refs - 1
  /\ alive' = (alive /\ refs # 1)

\* session_send and session_cancel leave the last release to a packet of key
\* "destroy"; the workers and session_timeout give the node back themselves.
Release(t) ==
  /\ AtEnd(t, "release")
  /\ Drop
  /\ doomed' = (doomed \/ (refs = 1 /\ role[t] \in {"send", "coroutine"}))
  /\ Return(t)
  /\ UNCHANGED <<send, cancelled, kernel, made, stopped>>

CancelRelease(t) ==
  /\ AtEnd(t, "cancelRelease")
  /\ Drop
  /\ doomed' = (doomed \/ refs = 1)
  /\ Return(t)
  /\ UNCHANGED <<send, cancelled, kernel, made, stopped>>

\* worker_execute answers that packet with __debugbreak.
DestroyPacket ==
  /\ doomed /\ ~stopped
  /\ stopped' = TRUE
  /\ UNCHANGED <<node, send, cancelled, kernel, made, doomed, thread>>

-----------------------------------------------------------------------------
\* session_send.

SessionSend(t) ==
  /\ ~stopped
  /\ (pc[t] = "idle" /\ t \in Callers) \/ pc[t] = "handler"
  /\ made < MessageLimit
  /\ made' = made + 1
  /\ Acquire(Goto(t, "enqueue"), Idle(t))
  /\ UNCHANGED <<send, cancelled, kernel, ends>>

\* send_enqueue: the bytes are added first and not taken back when refused.
SendEnqueue(t) ==
  /\ AtEnd(t, "enqueue")
  /\ byte' = byte + 1
  /\ Goto(t, IF byte > ByteLimit THEN "flag" ELSE "emplace")
  /\ UNCHANGED <<node, sending, queue, size, accepted, cancelled, kernel, made, ends>>

Emplace(t) ==
  /\ AtEnd(t, "emplace")
  /\ LET message == Len(accepted) + 1 IN
       /\ queue' = Append(queue, message)
       /\ accepted' = Append(accepted, message)
  /\ Goto(t, "ready")
  /\ UNCHANGED <<node, sending, byte, size, cancelled, kernel, made, ends>>

\* send_ready: look, claim the send by _send_time, and look again.
SendReady(t) ==
  /\ AtEnd(t, "ready")
  /\ Goto(t, IF cancelled \/ queue = <<>> THEN "release" ELSE "claim")
  /\ UNCHANGED <<node, send, cancelled, kernel, made, ends>>

ClaimAlways(t) ==
  /\ AtEnd(t, "claim")
  /\ sending' = TRUE
  /\ Goto(t, "recheck")
  /\ UNCHANGED <<node, byte, queue, size, accepted, cancelled, kernel, made, ends>>

Claim(t) ==
  /\ AtEnd(t, "claim")
  /\ sending' = TRUE
  /\ Goto(t, IF sending THEN "release" ELSE "recheck")
  /\ UNCHANGED <<node, byte, queue, size, accepted, cancelled, kernel, made, ends>>

Recheck(t) ==
  /\ AtEnd(t, "recheck")
  /\ Goto(t, IF queue = <<>> THEN "clear" ELSE "post")
  /\ UNCHANGED <<node, send, cancelled, kernel, made, ends>>

\* send_post: all queued messages in one WSASend.  Finished at once, it is
\* followed by send_finish; refused, it leaves _send_time as it is.
SendPost(t) ==
  /\ AtEnd(t, "post")
  /\ size' = Len(queue)
  /\ \/ /\ broken
        /\ Goto(t, "release")
        /\ UNCHANGED <<flight, wire>>
     \/ /\ ~broken
        /\ wire' = wire \o queue
        /\ Goto(t, "finish")
        /\ UNCHANGED flight
     \/ /\ ~broken
        /\ flight' = Append(flight, queue)
        /\ Goto(t, "stray")
        /\ UNCHANGED wire
  /\ UNCHANGED <<node, sending, byte, queue, accepted, cancelled, results,
                 receiving, broken, made, ends>>

Finish(t, popped) ==
  /\ AtEnd(t, "finish")
  /\ byte' = byte - size
  /\ queue' = SubSeq(queue, popped + 1, Len(queue))
  /\ Goto(t, "clear")
  /\ UNCHANGED <<node, sending, size, accepted, cancelled, kernel, made, ends>>

\* send_finish: the messages that were posted leave the queue, ...
SendFinish(t) == Finish(t, size)

Clear(t, next) ==
  /\ AtEnd(t, "clear")
  /\ sending' = FALSE
  /\ Goto(t, next)
  /\ UNCHANGED <<node, byte, queue, size, accepted, cancelled, kernel, made, ends>>

\* ... and then another send may begin; send_ready gives a claim back in the
\* same way when it finds nothing to send.  Both look at the queue again.
SendClear(t) == Clear(t, "ready")

\* A send or receive in flight may end at any time: what the thread that
\* posted it reads of the session then is left to chance when it is gone.
CancelFlagRead == IF alive THEN {cancelled} ELSE BOOLEAN

NoRead(t) ==
  /\ AtEnd(t, "stray")
  /\ Return(t)
  /\ UNCHANGED <<node, send, cancelled, kernel, made, ends>>

StrayReleases(t) == AtEnd(t, "stray") /\ Goto(t, "release")
                    /\ UNCHANGED <<node, send, cancelled, kernel, made, ends>>

Stray(t) ==
  /\ AtEnd(t, "stray")
  /\ \E flag \in CancelFlagRead : IF flag THEN Goto(t, "cancelAcquire") ELSE Return(t)
  /\ UNCHANGED <<node, send, cancelled, kernel, made, ends>>

-----------------------------------------------------------------------------
\* Cancellation.

\* session_cancel, called when the flag is seen after posting.
SessionCancel(t) ==
  /\ AtEnd(t, "cancelAcquire")
  /\ Acquire(Goto(t, "cancelFlag"), Return(t))
  /\ UNCHANGED <<send, cancelled, kernel, made, ends>>

\* session_timeout and session_clear walk the nodes and cancel.
SessionTimeout(t) ==
  /\ t \in Callers /\ AtEnd(t, "idle") /\ alive /\ ~cancelled
  /\ Acquire(Start(t, "flag", "timer"), FALSE)
  /\ UNCHANGED <<send, cancelled, kernel, made, ends>>

Following == [flag |-> "abort", abort |-> "release",
              cancelFlag |-> "cancelAbort", cancelAbort |-> "cancelRelease"]

\* cancel(): the flag first, ...
Cancel(t) ==
  /\ pc[t] \in {"flag", "cancelFlag"} /\ ~stopped
  /\ cancelled' = TRUE
  /\ Goto(t, Following[pc[t]])
  /\ UNCHANGED <<node, send, kernel, made, ends>>

\* ... then CancelIoEx, which ends what is in flight and nothing posted later.
CancelIo(t) ==
  /\ pc[t] \in {"abort", "cancelAbort"} /\ ~stopped
  /\ results' = results \o [i \in DOMAIN flight |-> FALSE]
  /\ flight' = <<>>
  /\ receiving' = IF receiving = "pending" THEN "empty" ELSE receiving
  /\ Goto(t, Following[pc[t]])
  /\ UNCHANGED <<node, send, cancelled, broken, wire, made, ends>>

-----------------------------------------------------------------------------
\* The system.

SendDone ==
  /\ ~stopped /\ flight # <<>> /\ ~broken
  /\ wire' = wire \o Head(flight)
  /\ flight' = Tail(flight)
  /\ results' = Append(results, TRUE)
  /\ UNCHANGED <<node, send, cancelled, receiving, broken, made, ends, thread>>

Arrive ==
  /\ ~stopped /\ receiving = "pending" /\ ~broken
  /\ receiving' = "data"
  /\ UNCHANGED <<node, send, cancelled, flight, results, broken, wire, made, ends, thread>>

Break ==
  /\ ~stopped /\ ~broken
  /\ broken' = TRUE
  /\ UNCHANGED <<node, send, cancelled, flight, results, receiving, wire, made, ends, thread>>

\* What is in flight on a broken connection ends with nothing.
Fail ==
  /\ ~stopped /\ broken /\ (flight # <<>> \/ receiving = "pending")
  /\ results' = results \o [i \in DOMAIN flight |-> FALSE]
  /\ flight' = <<>>
  /\ receiving' = IF receiving = "pending" THEN "empty" ELSE receiving
  /\ UNCHANGED <<node, send, cancelled, broken, wire, made, ends, thread>>

-----------------------------------------------------------------------------
\* The workers.

\* worker_execute of a send: a transfer goes on with send_finish.
SendCompletion(t) ==
  /\ t \in Workers /\ AtEnd(t, "idle") /\ results # <<>>
  /\ results' = Tail(results)
  /\ Start(t, IF Head(results) THEN "finish" ELSE "release", "completion")
  /\ UNCHANGED <<node, send, cancelled, flight, receiving, broken, wire, made, ends>>

EndCoroutine(t) == Start(t, "release", "completion")

\* worker_execute of a receive resumes the coroutine.  When nothing came it
\* ends, and gives up the reference of attach.
ReceiveCompletion(t) ==
  /\ t \in Workers /\ AtEnd(t, "idle") /\ receiving \in {"data", "empty"}
  /\ IF receiving = "data" THEN Start(t, "handler", "coroutine") ELSE EndCoroutine(t)
  /\ receiving' = "none"
  /\ UNCHANGED <<node, send, cancelled, flight, results, broken, wire, made, ends>>

\* session_receive, the handler of the application, returns, with or without
\* a send.  A bad header or its answer false ends the coroutine; it goes on to
\* receive::await_suspend, which receives no more for a cancelled session.
SessionReceive(t) ==
  /\ pc[t] \in {"handler", "handled"} /\ ~stopped
  /\ \/ pc[t] = "handler" /\ EndCoroutine(t)
     \/ cancelled /\ EndCoroutine(t)
     \/ ~cancelled /\ Goto(t, "postReceive")
  /\ UNCHANGED <<node, send, cancelled, kernel, made, ends>>

\* The receive is posted, and ends at once or is in flight; the coroutine is
\* suspended then and the thread goes on alone ...
ReceivePost(t) ==
  /\ AtEnd(t, "postReceive")
  /\ \/ broken /\ EndCoroutine(t) /\ UNCHANGED receiving
     \/ /\ ~broken
        /\ Goto(t, "handler")
        /\ UNCHANGED receiving
     \/ /\ ~broken
        /\ receiving' = "pending"
        /\ Start(t, "strayReceive", "completion")
  /\ UNCHANGED <<node, send, cancelled, flight, results, broken, wire, made, ends>>

\* ... to read the flag once more.
StrayReceive(t) ==
  /\ AtEnd(t, "strayReceive")
  /\ \E flag \in CancelFlagRead : IF flag THEN Goto(t, "cancelAcquire") ELSE Idle(t)
  /\ UNCHANGED <<node, send, cancelled, kernel, made, ends>>

Step(t) ==
  \/ Release(t) \/ CancelRelease(t) \/ SendEnqueue(t) \/ Emplace(t)
  \/ SendReady(t) \/ Claim(t) \/ Recheck(t) \/ SendPost(t) \/ SendFinish(t)
  \/ SendClear(t) \/ Stray(t) \/ SessionCancel(t) \/ Cancel(t) \/ CancelIo(t)
  \/ SendCompletion(t) \/ ReceiveCompletion(t) \/ SessionReceive(t)
  \/ ReceivePost(t) \/ StrayReceive(t)

Next ==
  \/ \E t \in Threads : SessionSend(t) \/ SessionTimeout(t) \/ Step(t)
  \/ SendDone \/ Arrive \/ Break \/ Fail \/ DestroyPacket

\* Threads run, packets are taken, and what cannot be transferred any more is
\* reported; nobody has to call, to send, to time out or to break off.
Spec ==
  /\ Init /\ [][Next]_sessionVars
  /\ \A t \in Threads : WF_sessionVars(Step(t))
  /\ WF_sessionVars(Fail) /\ WF_sessionVars(DestroyPacket)

-----------------------------------------------------------------------------

InLoop == {t \in Threads : pc[t] \in Looping}
OwnsSend == {t \in Threads : pc[t] \in {"recheck", "post", "finish", "clear"}}
HoldsReference == {t \in Threads : pc[t] \in Counted}
AttachHeld == receiving # "none" \/ \E t \in Threads : role[t] = "coroutine"

\* The peer is sent what the queue took, in that order and each message once;
\* a message leaves the queue only after it was sent, and one send is in hand
\* at a time, whoever posts it.
SendsInOrder ==
  /\ TypeOK
  /\ Cardinality(OwnsSend) + Len(flight) + Len(results) <= 1
  /\ wire = SubSeq(accepted, 1, Len(wire))
  /\ queue = SubSeq(accepted, Len(accepted) - Len(queue) + 1, Len(accepted))
  /\ Len(accepted) - Len(queue) <= Len(wire)

\* A queued message is not forgotten: until the session is cancelled or a send
\* fails, a thread or a send in flight has still to look at the queue.
NoLostMessage ==
  queue # <<>> /\ ~cancelled /\ ~broken =>
    InLoop # {} \/ flight # <<>> \/ results # <<>>

\* What session_send put into the queue is sent: in order, once, and without
\* another call to push it on (session.h:49).
QueueIsSent == SendsInOrder /\ NoLostMessage

\* The session outlives its use: every thread that works on it, the coroutine
\* and every send in flight hold one reference, counted exactly, and while a
\* send or a receive is in flight the memory it uses exists.
IoKeepsSession ==
  /\ refs = Cardinality(HoldsReference) + Len(flight) + Len(results)
            + (IF AttachHeld THEN 1 ELSE 0)
  /\ alive <=> refs > 0

\* A session that is cancelled, or whose connection breaks, is destroyed: no
\* send or receive that was being posted at that moment keeps it.
SessionEnds == cancelled \/ broken ~> ~alive \/ stopped

=============================================================================
