-------------------------------- MODULE Fifo --------------------------------
(***************************************************************************)
(* What library::circle_queue promises: values leave in the order in which  *)
(* they came, and none is lost but by clear, at whatever place of its array *)
(* the queue stands when it has to move to a longer one.  Module            *)
(* CircleQueue is checked to implement this.                                *)
(***************************************************************************)
EXTENDS Sequences

CONSTANT Values

VARIABLE contents

fvars == <<contents>>

FInit == contents = <<>>

Put(v) == contents' = Append(contents, v)

Take ==
  /\ contents # <<>>
  /\ contents' = Tail(contents)

Drop == contents' = <<>>

FNext == Take \/ Drop \/ \E v \in Values : Put(v)

FSpec == FInit /\ [][FNext]_fvars

=============================================================================
