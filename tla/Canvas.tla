------------------------------- MODULE Canvas -------------------------------
(***************************************************************************)
(* What a stream of drawing orders promises: the server means a sequence   *)
(* of effects, and the client shows exactly these, in this order.          *)
(***************************************************************************)
EXTENDS Integers, Sequences

CONSTANT Nothing  \* the effect of an order that draws nothing

VARIABLES
  pending,        \* the effects meant and not yet shown, the oldest first
  shown           \* the effect shown last

vars == <<pending, shown>>

Init == pending = <<>> /\ shown = Nothing

\* The server means one more effect.
Mean ==
  /\ Len(pending') = Len(pending) + 1
  /\ SubSeq(pending', 1, Len(pending)) = pending
  /\ UNCHANGED shown

\* The client shows the oldest.
Show ==
  /\ pending # <<>>
  /\ shown' = Head(pending) /\ pending' = Tail(pending)

Next == Mean \/ Show

Spec == Init /\ [][Next]_vars
=============================================================================
