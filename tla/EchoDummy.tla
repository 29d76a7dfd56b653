------------------------------ MODULE EchoDummy ------------------------------
(***************************************************************************)
(* The echo client: every dummy is an actor that connects one session,     *)
(* sends a round of numbers, and checks that the server's echoes come back *)
(* in the order they were sent (echo-dummy/dummy.cpp, session.cpp, and the *)
(* commands and the wake loop of application.cpp).                         *)
(*                                                                         *)
(* The actor system and the network appear as what they promise: the mails *)
(* of an entity are taken one at a time in order (Mailbox), an entity that *)
(* was destroyed accepts no mail, and a session delivers the messages sent *)
(* over it in order until it ends (Session).                               *)
(***************************************************************************)
EXTENDS Naturals, Sequences, FiniteSets

CONSTANTS Dummies,      \* every dummy the commands may create
          Values,       \* the numbers rand() returns
          OverSends,    \* the settings of Over_Send, which a command may change between any two rounds
          Tick, Ended,  \* mails: dummy_tick, session_disconnect; a Value is a receive_mail
          TickLimit     \* bound: ticks waiting in one mailbox

EchoDummyAssumption ==
    /\ OverSends \subseteq Nat
    /\ Tick \notin Values /\ Ended \notin Values /\ Tick # Ended

VARIABLES state,        \* dummy -> "absent", the _state of the dummy, or "deleted"
          held,         \* _dummy_handle: the dummies the wake loop knows
          destroyed,    \* the dummies entity_destroy was called for
          connecting,   \* the dummies whose mailbox is suspended in socket_connect
          mails,        \* dummy -> its mailbox
          expected,     \* dummy -> _send_message
          session,      \* dummy -> "none", "open" or "ended"
          toServer, toClient,  \* dummy -> the numbers under way
          stopped       \* a __debugbreak ended the program

dummyVars == <<state, held, destroyed, connecting, mails, expected, session,
               toServer, toClient, stopped>>

Init ==
    /\ state = [d \in Dummies |-> "absent"]
    /\ held = {} /\ destroyed = {} /\ connecting = {}
    /\ mails = [d \in Dummies |-> <<>>]
    /\ expected = [d \in Dummies |-> <<>>]
    /\ session = [d \in Dummies |-> "none"]
    /\ toServer = [d \in Dummies |-> <<>>]
    /\ toClient = [d \in Dummies |-> <<>>]
    /\ stopped = FALSE

Living == {d \in Dummies : state[d] \notin {"absent", "deleted"}}

\* entity_enqueue: a handle that was destroyed, or never given out, takes no mail.
Enqueued(d, mail) ==
    IF d \in Living \ destroyed THEN [mails EXCEPT ![d] = Append(@, mail)] ELSE mails

-----------------------------------------------------------------------------
(* The commands and the wake loop.                                         *)

\* Start creates Client_Count dummies.
Start(group) ==
    /\ group # {} /\ \A d \in group : state[d] = "absent"
    /\ state' = [d \in Dummies |-> IF d \in group THEN "disconnect" ELSE state[d]]
    /\ held' = held \union group
    /\ UNCHANGED <<destroyed, connecting, mails, expected, session, toServer, toClient, stopped>>

\* Stop destroys every entity it knows; their sessions stay.
Stop ==
    /\ held # {}
    /\ destroyed' = destroyed \union held
    /\ held' = {}
    /\ UNCHANGED <<state, connecting, mails, expected, session, toServer, toClient, stopped>>

TicksOf(d) == Cardinality({i \in DOMAIN mails[d] : mails[d][i] = Tick})

WakeLoop ==
    /\ held # {} /\ \A d \in held : TicksOf(d) < TickLimit
    /\ mails' = [d \in Dummies |-> IF d \in held THEN Append(mails[d], Tick) ELSE mails[d]]
    /\ UNCHANGED <<state, held, destroyed, connecting, expected, session, toServer, toClient, stopped>>

\* The entity of a destroyed dummy ends between two mails; what waits is dropped.
Delete(d) ==
    /\ d \in destroyed \ connecting /\ state[d] # "deleted"
    /\ state' = [state EXCEPT ![d] = "deleted"]
    /\ mails' = [mails EXCEPT ![d] = <<>>]
    /\ expected' = [expected EXCEPT ![d] = <<>>]
    /\ UNCHANGED <<held, destroyed, connecting, session, toServer, toClient, stopped>>

-----------------------------------------------------------------------------
(* The mailbox of a dummy takes the first mail in its state.               *)

Takes(d, status) ==
    /\ d \in Living \ connecting /\ state[d] = status /\ mails[d] # <<>>
    /\ mails' = [mails EXCEPT ![d] = Tail(@)]

\* state_disconnect begins to connect ...
BeginConnect(d) ==
    /\ Takes(d, "disconnect") /\ Head(mails[d]) = Tick
    /\ connecting' = connecting \union {d}
    /\ UNCHANGED <<state, held, destroyed, expected, session, toServer, toClient, stopped>>

\* ... and goes on when the connection is there: the session is in the arena
\* before _state is connect, but the mailbox is busy until then.
Connected(d) ==
    /\ d \in connecting
    /\ connecting' = connecting \ {d}
    /\ session' = [session EXCEPT ![d] = "open"]
    /\ state' = [state EXCEPT ![d] = "connect"]
    /\ UNCHANGED <<held, destroyed, mails, expected, toServer, toClient, stopped>>

ConnectFails(d) ==
    /\ d \in connecting
    /\ connecting' = connecting \ {d}
    /\ state' = [state EXCEPT ![d] = "error"]
    /\ UNCHANGED <<held, destroyed, mails, expected, session, toServer, toClient, stopped>>

\* state_connect: a tick sends a round. Over a session that ended nothing is sent.
SendRound(d, round) ==
    /\ Takes(d, "connect") /\ Head(mails[d]) = Tick
    /\ expected' = [expected EXCEPT ![d] = round]
    /\ toServer' = IF session[d] = "open" THEN [toServer EXCEPT ![d] = @ \o round] ELSE toServer
    /\ state' = [state EXCEPT ![d] = "interact"]
    /\ UNCHANGED <<held, destroyed, connecting, session, toClient, stopped>>

\* state_interact leaves the number it compared in the list.
CompareKeeps(d) ==
    /\ Takes(d, "interact") /\ Head(mails[d]) \in Values
    /\ state' = [state EXCEPT ![d] = IF Head(mails[d]) = Head(expected[d]) THEN "interact" ELSE "error"]
    /\ UNCHANGED <<held, destroyed, connecting, expected, session, toServer, toClient, stopped>>

\* state_interact: an echo is compared with the oldest number not yet echoed.
Compare(d) ==
    /\ Takes(d, "interact") /\ Head(mails[d]) \in Values
    /\ LET right == expected[d] # <<>> /\ Head(mails[d]) = Head(expected[d])
           rest  == IF right THEN Tail(expected[d]) ELSE expected[d]
       IN /\ expected' = [expected EXCEPT ![d] = rest]
          /\ state' = [state EXCEPT ![d] =
                 IF ~right THEN "error" ELSE IF rest = <<>> THEN "connect" ELSE "interact"]
    /\ UNCHANGED <<held, destroyed, connecting, session, toServer, toClient, stopped>>

\* A tick in the middle of a round, and any mail in the state error, changes nothing.
Ignore(d) ==
    /\ \/ Takes(d, "interact") /\ Head(mails[d]) = Tick
       \/ Takes(d, "error")
    /\ UNCHANGED <<state, held, destroyed, connecting, expected, session, toServer, toClient, stopped>>

\* Every other mail is a __debugbreak.
Unexpected(d) ==
    /\ \/ Takes(d, "disconnect") /\ Head(mails[d]) # Tick
       \/ Takes(d, "connect") /\ Head(mails[d]) # Tick
       \/ Takes(d, "interact") /\ Head(mails[d]) = Ended
    /\ stopped' = TRUE
    /\ UNCHANGED <<state, held, destroyed, connecting, expected, session, toServer, toClient>>

-----------------------------------------------------------------------------
(* The server, and the session of a dummy.                                 *)

\* The server answers its newest message first.
EchoNewest(d) ==
    /\ toServer[d] # <<>>
    /\ toClient' = [toClient EXCEPT ![d] = Append(@, toServer[d][Len(toServer[d])])]
    /\ toServer' = [toServer EXCEPT ![d] = SubSeq(@, 1, Len(@) - 1)]
    /\ UNCHANGED <<state, held, destroyed, connecting, mails, expected, session, stopped>>

\* The server sends back the number of every message.
Echo(d) ==
    /\ toServer[d] # <<>>
    /\ toClient' = [toClient EXCEPT ![d] = Append(@, Head(toServer[d]))]
    /\ toServer' = [toServer EXCEPT ![d] = Tail(@)]
    /\ UNCHANGED <<state, held, destroyed, connecting, mails, expected, session, stopped>>

SessionReceive(d) ==
    /\ toClient[d] # <<>>
    /\ mails' = Enqueued(d, Head(toClient[d]))
    /\ toClient' = [toClient EXCEPT ![d] = Tail(@)]
    /\ UNCHANGED <<state, held, destroyed, connecting, expected, session, toServer, stopped>>

\* A session ends by a timeout of either side or a broken connection; its
\* destructor tells the dummy.
SessionEnd(d) ==
    /\ session[d] = "open"
    /\ session' = [session EXCEPT ![d] = "ended"]
    /\ mails' = Enqueued(d, Ended)
    /\ toServer' = [toServer EXCEPT ![d] = <<>>]
    /\ toClient' = [toClient EXCEPT ![d] = <<>>]
    /\ UNCHANGED <<state, held, destroyed, connecting, expected, stopped>>

-----------------------------------------------------------------------------
MailboxStep(d) ==
    \/ BeginConnect(d) \/ Compare(d) \/ Ignore(d) \/ Unexpected(d)
    \/ \E n \in OverSends : \E round \in [1 .. n -> Values] : SendRound(d, round)

Next ==
    /\ ~stopped
    /\ \/ Stop \/ WakeLoop
       \/ \E group \in SUBSET Dummies : Start(group)
       \/ \E d \in Dummies : \/ MailboxStep(d)
                             \/ Connected(d) \/ ConnectFails(d) \/ Delete(d)
                             \/ Echo(d) \/ SessionReceive(d) \/ SessionEnd(d)

\* The workers run the mailbox of a dummy that has mail, the server answers and
\* the network delivers. Nobody has to type a command, and no session has to end.
Fairness == \A d \in Dummies : /\ WF_dummyVars(~stopped /\ MailboxStep(d))
                               /\ WF_dummyVars(~stopped /\ Echo(d))
                               /\ WF_dummyVars(~stopped /\ SessionReceive(d))

Spec == Init /\ [][Next]_dummyVars /\ Fairness

-----------------------------------------------------------------------------
\* How many of the first mails of a queue are echoes.
EchoesIn(queue, first) == Cardinality({i \in 1 .. first : queue[i] \in Values})

\* The echoes in a queue are the oldest of some numbers, in their order.
AreOldest(queue, numbers) ==
    /\ EchoesIn(queue, Len(queue)) <= Len(numbers)
    /\ \A i \in 1 .. Len(queue) : queue[i] \in Values => queue[i] = numbers[EchoesIn(queue, i)]

\* While its session is open, the numbers a dummy still waits for are exactly
\* those on their way, oldest first: in its mailbox, in the answers and in the
\* requests; between two rounds nothing is on its way. So no dummy ever finds a
\* wrong echo (the state error is a failed connect), and the program is stopped
\* by a session that ended under a living dummy and by nothing else (dummy.cpp 26-93).
EchoIsRight ==
    /\ \A d \in Living \ destroyed :
         LET echoes == EchoesIn(mails[d], Len(mails[d]))
         IN /\ session[d] = "open" /\ state[d] # "disconnect" =>
                 /\ AreOldest(mails[d], expected[d])
                 /\ toClient[d] \o toServer[d] = SubSeq(expected[d], echoes + 1, Len(expected[d]))
            /\ state[d] = "connect" => expected[d] = <<>>
            /\ state[d] = "error" => session[d] = "none"
            /\ session[d] = "none" => echoes = 0
    /\ stopped => \E d \in Living : session[d] = "ended"

\* A round that has begun comes back whole, unless the session under it ends,
\* the dummy is destroyed or the program stops: no echo is left lying in a
\* mailbox (dummy.cpp 75-93 with the wake loop's ticks in between).
RoundEnds ==
    \A d \in Dummies : (state[d] = "interact" /\ expected[d] # <<>>)
        ~> (state[d] = "connect" \/ session[d] = "ended" \/ d \in destroyed \/ stopped)
=============================================================================
