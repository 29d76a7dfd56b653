------------------------------ MODULE Mailbox ------------------------------
(***************************************************************************)
(* What actor::system promises to the writer of an entity: the mails an     *)
(* entity accepts reach entity_mailbox one at a time and in the order they  *)
(* were accepted, each at most once; the entity ends because somebody       *)
(* destroyed it or because its mailbox answered false, and is deleted only  *)
(* after it has ended.  Module ActorSystem is checked to implement this.    *)
(***************************************************************************)
EXTENDS Naturals, Sequences

CONSTANTS Entities

VARIABLES
  accepted,   \* mails accepted so far, numbered from 1
  taken,      \* numbers of the mails handed to the mailbox, in order
  busy,       \* entities whose mailbox is handling a mail
  asked,      \* entities somebody asked to destroy
  ended,      \* entities that will handle no more mail
  deleted

mvars == <<accepted, taken, busy, asked, ended, deleted>>

MInit ==
  /\ accepted = [e \in Entities |-> 0]
  /\ taken = [e \in Entities |-> <<>>]
  /\ busy = {}
  /\ asked = {}
  /\ ended = {}
  /\ deleted = {}

Accept(e) ==
  /\ e \notin deleted
  /\ accepted' = [accepted EXCEPT ![e] = @ + 1]
  /\ UNCHANGED <<taken, busy, asked, ended, deleted>>

Take(e) ==
  /\ e \notin busy \union ended
  /\ Len(taken[e]) < accepted[e]
  /\ taken' = [taken EXCEPT ![e] = Append(@, Len(@) + 1)]
  /\ busy' = busy \union {e}
  /\ UNCHANGED <<accepted, asked, ended, deleted>>

Handled(e) ==
  /\ e \in busy
  /\ busy' = busy \ {e}
  /\ UNCHANGED <<accepted, taken, asked, ended, deleted>>

\* The mailbox answered false.
Refuse(e) ==
  /\ e \in busy
  /\ busy' = busy \ {e}
  /\ ended' = ended \union {e}
  /\ UNCHANGED <<accepted, taken, asked, deleted>>

Ask(e) ==
  /\ e \notin deleted
  /\ asked' = asked \union {e}
  /\ UNCHANGED <<accepted, taken, busy, ended, deleted>>

End(e) ==
  /\ e \in asked \ busy
  /\ ended' = ended \union {e}
  /\ UNCHANGED <<accepted, taken, busy, asked, deleted>>

Delete(e) ==
  /\ e \in ended \ deleted
  /\ deleted' = deleted \union {e}
  /\ UNCHANGED <<accepted, taken, busy, asked, ended>>

MNext ==
  \E e \in Entities :
    Accept(e) \/ Take(e) \/ Handled(e) \/ Refuse(e) \/ Ask(e) \/ End(e) \/ Delete(e)

MSpec == MInit /\ [][MNext]_mvars

=============================================================================
