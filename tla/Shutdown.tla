------------------------------ MODULE Shutdown ------------------------------
(***************************************************************************)
(* How the applications end (echo-dummy/application.cpp 7-19 and 35-88,    *)
(* echo-server/application.cpp 6-15 and 38-99): the destructor requests a  *)
(* stop, waits on an atomic counter until every loop coroutine has counted *)
(* itself down, and the echo client then cancels its sessions and spins    *)
(* until none is left.  It destroys no dummy: a session that ends under a  *)
(* living one tells it, and that mail is a __debugbreak (dummy.cpp 66, 88) *)
(* which ends the program in its own way.                                  *)
(*                                                                         *)
(* A loop is resumed by the timer of iocp::sleep.  session_clear and the   *)
(* timeouts of the network are the compiled library's: clear cancels the   *)
(* sessions it finds in one pass over the slots and waits for the session  *)
(* counter, and a session that is left alone runs into its timeout.        *)
(***************************************************************************)
EXTENDS Naturals, FiniteSets

CONSTANTS Waker,     \* wake_loop of the client
          Monitors,  \* thread_monitor of the client, monitor of the server
          Slots      \* the dummies, each with the slot of its session: Slots is 1 .. n

Loops == Monitors \union {Waker}

ShutdownAssumption == IsFiniteSet(Loops)

VARIABLES loop,      \* loop -> "check", "body", "asleep", "counted" (after fetch_sub) or "ended"
          stop,      \* the stop was requested
          stopCount, \* _stop_count
          main,      \* the destructor: "running", "load", "wait", "asleep", "clear", "spin", "gone"
          loaded,    \* stop_count, as the destructor read it
          scanned,   \* the slots session_clear has looked at
          dummy,     \* slot -> "absent", "living", "destroyed" (by Stop) or "deleted"
          session,   \* slot -> "none", "ticked", "connecting", "failed", "open", "cancelled" or "ended"
          told,      \* the dummies with a session_disconnect in their mailbox
          halted     \* a __debugbreak ended the program

loopVars == <<loop, stop, stopCount>>
mainVars == <<main, loaded, scanned>>
clientVars == <<dummy, session, told, halted>>
shutdownVars == <<loopVars, mainVars, clientVars>>

\* The constructor starts every loop; each runs up to its first sleep later on.
Init ==
    /\ loop = [l \in Loops |-> "check"]
    /\ stop = FALSE
    /\ stopCount = Cardinality(Loops)
    /\ main = "running" /\ loaded = 0 /\ scanned = 0
    /\ dummy = [s \in Slots |-> "absent"]
    /\ session = [s \in Slots |-> "none"]
    /\ told = {} /\ halted = FALSE

\* The sessions the session counter of the network counts.
Counted == {s \in Slots : session[s] \in {"open", "cancelled"}}

-----------------------------------------------------------------------------
(* The loop coroutines.                                                    *)

\* while (false == stop_token.stop_requested())
Check(l) ==
    /\ loop[l] = "check" /\ ~stop
    /\ loop' = [loop EXCEPT ![l] = "body"]
    /\ UNCHANGED <<stop, stopCount, mainVars, clientVars>>

\* The body of a loop, up to co_await iocp::sleep: wake_loop sends a tick to every
\* dummy, which makes one that never connected begin to.
Body(l) ==
    /\ loop[l] = "body"
    /\ loop' = [loop EXCEPT ![l] = "asleep"]
    /\ session' = [s \in Slots |-> IF l = Waker /\ dummy[s] = "living" /\ session[s] = "none"
                                   THEN "ticked" ELSE session[s]]
    /\ UNCHANGED <<stop, stopCount, mainVars, dummy, told, halted>>

\* The loop leaves without counting itself down.
LeaveUncounted(l) ==
    /\ loop[l] = "check" /\ stop
    /\ loop' = [loop EXCEPT ![l] = "counted"]
    /\ UNCHANGED <<stop, stopCount, mainVars, clientVars>>

\* _stop_count.fetch_sub(1)
Leave(l) ==
    /\ loop[l] = "check" /\ stop
    /\ stopCount' = stopCount - 1
    /\ loop' = [loop EXCEPT ![l] = "counted"]
    /\ UNCHANGED <<stop, mainVars, clientVars>>

\* _stop_count.notify_all(): wakes the destructor if it sleeps. The counter may
\* be gone by now; notify_all uses its address only.
Notify(l) ==
    /\ loop[l] = "counted"
    /\ loop' = [loop EXCEPT ![l] = "ended"]
    /\ main' = IF main = "asleep" THEN "load" ELSE main
    /\ UNCHANGED <<stop, stopCount, loaded, scanned, clientVars>>

\* The timer resumes the loop.
Wake(l) ==
    /\ loop[l] = "asleep"
    /\ loop' = [loop EXCEPT ![l] = "check"]
    /\ UNCHANGED <<stop, stopCount, mainVars, clientVars>>

-----------------------------------------------------------------------------
(* The commands of execute, and the destructor after it.                   *)

\* Start makes a dummy.
Start(s) ==
    /\ main = "running" /\ dummy[s] = "absent"
    /\ dummy' = [dummy EXCEPT ![s] = "living"]
    /\ UNCHANGED <<loopVars, mainVars, session, told, halted>>

\* Stop destroys every dummy the wake loop knows; their sessions stay.
StopCommand ==
    /\ main = "running"
    /\ dummy' = [s \in Slots |-> IF dummy[s] = "living" THEN "destroyed" ELSE dummy[s]]
    /\ UNCHANGED <<loopVars, mainVars, session, told, halted>>

RequestStop ==
    /\ main = "running"
    /\ stop' = TRUE /\ main' = "load"
    /\ UNCHANGED <<loop, stopCount, loaded, scanned, clientVars>>

\* The destructor goes on when it finds one loop less.
LoadOnce ==
    /\ main = "load"
    /\ loaded' = stopCount
    /\ main' = IF stopCount < Cardinality(Loops) THEN "clear" ELSE "wait"
    /\ UNCHANGED <<loopVars, scanned, clientVars>>

\* for (int stop_count; 0 != (stop_count = _stop_count.load()); )
Load ==
    /\ main = "load"
    /\ loaded' = stopCount
    /\ main' = IF stopCount = 0 THEN "clear" ELSE "wait"
    /\ UNCHANGED <<loopVars, scanned, clientVars>>

\* _stop_count.wait(stop_count) sleeps only if the counter still has that value.
Wait ==
    /\ main = "wait"
    /\ main' = IF stopCount = loaded THEN "asleep" ELSE "load"
    /\ UNCHANGED <<loopVars, loaded, scanned, clientVars>>

\* session_clear cancels the session in the next slot, if there is one, ...
Clear ==
    /\ main = "clear" /\ scanned < Cardinality(Slots)
    /\ scanned' = scanned + 1
    /\ session' = IF session[scanned + 1] = "open"
                  THEN [session EXCEPT ![scanned + 1] = "cancelled"] ELSE session
    /\ UNCHANGED <<loopVars, main, loaded, dummy, told, halted>>

EndScan ==
    /\ main = "clear" /\ scanned = Cardinality(Slots)
    /\ main' = "spin"
    /\ UNCHANGED <<loopVars, loaded, scanned, clientVars>>

\* ... and spins until the counter is zero.
Spin ==
    /\ main = "spin" /\ Counted = {}
    /\ main' = "gone"
    /\ UNCHANGED <<loopVars, loaded, scanned, clientVars>>

-----------------------------------------------------------------------------
(* The dummies and their sessions.  A dummy connects once, and nothing     *)
(* holds the destructor back while it does: the connection may be there    *)
(* behind the scan, and when the destructor is through.                    *)

\* The mailbox takes the tick, and is suspended in socket_connect ...
BeginConnect(s) ==
    /\ session[s] = "ticked"
    /\ session' = [session EXCEPT ![s] = "connecting"]
    /\ UNCHANGED <<loopVars, mainVars, dummy, told, halted>>

\* ... until the system answers.
Connect(s) ==
    /\ session[s] = "connecting"
    /\ session' = [session EXCEPT ![s] = "open"]
    /\ UNCHANGED <<loopVars, mainVars, dummy, told, halted>>

ConnectFails(s) ==
    /\ session[s] = "connecting"
    /\ session' = [session EXCEPT ![s] = "failed"]
    /\ UNCHANGED <<loopVars, mainVars, dummy, told, halted>>

\* A cancelled session ends, an open one when its connection breaks or by its
\* timeout.  ~session sends session_disconnect; a destroyed dummy takes no mail.
End(s) ==
    /\ session[s] \in {"open", "cancelled"}
    /\ session' = [session EXCEPT ![s] = "ended"]
    /\ told' = IF dummy[s] = "living" THEN told \union {s} ELSE told
    /\ UNCHANGED <<loopVars, mainVars, dummy, halted>>

\* Its last reference may be that of a session_send or session_cancel: the packet
\* these post instead is a __debugbreak of the worker (module Session).
LastRelease(s) ==
    /\ session[s] \in {"open", "cancelled"}
    /\ halted' = TRUE
    /\ UNCHANGED <<loopVars, mainVars, dummy, session, told>>

\* state_connect and state_interact do not expect the mail.
TakeDisconnect(s) ==
    /\ s \in told
    /\ halted' = TRUE
    /\ UNCHANGED <<loopVars, mainVars, dummy, session, told>>

\* A destroyed entity ends between two mails; what waits is dropped.
Delete(s) ==
    /\ dummy[s] = "destroyed" /\ session[s] # "connecting"
    /\ dummy' = [dummy EXCEPT ![s] = "deleted"]
    /\ session' = [session EXCEPT ![s] = IF @ = "ticked" THEN "none" ELSE @]
    /\ told' = told \ {s}
    /\ UNCHANGED <<loopVars, mainVars, halted>>

LoopStep(l) == Check(l) \/ Body(l) \/ Leave(l) \/ Notify(l) \/ Wake(l)
Command == StopCommand \/ RequestStop \/ \E s \in Slots : Start(s)
MainStep == Load \/ Wait \/ Clear \/ EndScan \/ Spin
SlotStep(s) == BeginConnect(s) \/ Connect(s) \/ ConnectFails(s) \/ End(s)
               \/ LastRelease(s) \/ TakeDisconnect(s) \/ Delete(s)

Next ==
    /\ ~halted
    /\ \/ Command \/ MainStep
       \/ \E l \in Loops : LoopStep(l)
       \/ \E s \in Slots : SlotStep(s)

\* The timer resumes every loop, the thread that ends the program runs, and no
\* session outlives its timeout once the rounds have stopped.
Fairness == /\ WF_shutdownVars(~halted /\ MainStep)
            /\ \A l \in Loops : WF_shutdownVars(~halted /\ LoopStep(l))
            /\ \A s \in Slots : WF_shutdownVars(~halted /\ End(s))

Spec == Init /\ [][Next]_shutdownVars /\ Fairness

-----------------------------------------------------------------------------
\* When the destructor leaves the wait, every loop has counted itself down and
\* none runs its body again, so no tick is sent while sessions are cleared; and
\* every session its scan cancelled has ended when it is through
\* (echo-dummy/application.cpp 14-19, 74-88).
LoopsEndFirst ==
    /\ stopCount = Cardinality({l \in Loops : loop[l] \in {"check", "body", "asleep"}})
    /\ main \in {"clear", "spin", "gone"} => \A l \in Loops : loop[l] \in {"counted", "ended"}
    /\ main = "gone" => \A s \in Slots : session[s] # "cancelled"

\* No dummy has a session, or is about to get one, or has to be told of one.
Quiet == /\ loop[Waker] # "body" /\ told = {}
         /\ \A s \in Slots : session[s] \in {"none", "failed", "ended"}

\* The program that is told to end does, or stops in the breakpoint of a session
\* that ended under its dummy: no loop's last notification is lost between the
\* load and the wait, and the spin does not wait for a session that nobody ends.
\* With no session when it is told to, it does end (echo-dummy/application.cpp 14-19).
ShutdownEnds ==
    /\ stop ~> main = "gone" \/ halted
    /\ stop /\ Quiet /\ ~halted ~> main = "gone"
=============================================================================
