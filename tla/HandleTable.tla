---------------------------- MODULE HandleTable ----------------------------
(***************************************************************************)
(* What grc::arena promises to the actors and to the network: a table of   *)
(* objects named by handles.  A handle opens its object or is refused, an   *)
(* open object is not destroyed, and a handle is refused only once its      *)
(* object is gone.  Module Arena, the reference-counted slots of            *)
(* library/grc/arena.h, is checked to implement this specification.         *)
(***************************************************************************)
CONSTANTS
  Threads,   \* callers
  Handles    \* all handles that can ever be issued

VARIABLES
  live,      \* handles whose object exists
  rooted,    \* the live ones that still carry the reference of attach
  status     \* what each caller was last told

hvars == <<live, rooted, status>>

Idle       == [kind |-> "idle"]
Opened(h)  == [kind |-> "opened", handle |-> h]
Refused(h) == [kind |-> "refused", handle |-> h]

HTypeOK ==
  /\ live \subseteq Handles
  /\ rooted \subseteq live
  /\ status \in [Threads -> {Idle} \union {Opened(h) : h \in Handles}
                                   \union {Refused(h) : h \in Handles}]

HInit ==
  /\ live = {}
  /\ rooted = {}
  /\ status = [t \in Threads |-> Idle]

Create(h) ==
  /\ h \notin live
  /\ live' = live \union {h}
  /\ rooted' = rooted \union {h}
  /\ UNCHANGED status

Open(t, h) ==
  /\ status[t] = Idle
  /\ h \in live
  /\ status' = [status EXCEPT ![t] = Opened(h)]
  /\ UNCHANGED <<live, rooted>>

\* A refusal is definite: the object of the handle no longer exists.
Refuse(t, h) ==
  /\ status[t] = Idle
  /\ h \notin live
  /\ status' = [status EXCEPT ![t] = Refused(h)]
  /\ UNCHANGED <<live, rooted>>

Close(t) ==
  /\ status[t] # Idle
  /\ status' = [status EXCEPT ![t] = Idle]
  /\ UNCHANGED <<live, rooted>>

\* The user of an object gives up the reference the object was created with.
Unroot(t, h) ==
  /\ status[t] = Opened(h)
  /\ h \in rooted
  /\ rooted' = rooted \ {h}
  /\ UNCHANGED <<live, status>>

Destroy(h) ==
  /\ h \in live \ rooted
  /\ \A t \in Threads : status[t] # Opened(h)
  /\ live' = live \ {h}
  /\ UNCHANGED <<rooted, status>>

HNext ==
  \/ \E h \in Handles : Create(h) \/ Destroy(h)
  \/ \E t \in Threads : Close(t)
  \/ \E t \in Threads, h \in Handles : Open(t, h) \/ Refuse(t, h) \/ Unroot(t, h)

HSpec == HInit /\ [][HNext]_hvars

=============================================================================
