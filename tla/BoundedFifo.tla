---------------------------- MODULE BoundedFifo ----------------------------
(***************************************************************************)
(* What a bucket promises: a first-in first-out queue of whole messages    *)
(* that never holds more than Capacity units.  A receiver takes the oldest *)
(* message out of the queue and then hands it on; one longer than MaxEntry *)
(* is taken out and dropped.  A message is a sequence of units.            *)
(***************************************************************************)
EXTENDS Naturals, Sequences

CONSTANTS Values, Capacity, MaxEntry

VARIABLES queue,  \* accepted and not yet taken
          used,   \* units the queue occupies
          hand,   \* the message taken and not yet handed on, if any
          out     \* handed on, in order

fifoVars == <<queue, used, hand, out>>

Init == queue = <<>> /\ used = 0 /\ hand = <<>> /\ out = <<>>

Send(v) ==
    /\ used + Len(v) <= Capacity
    /\ queue' = Append(queue, v)
    /\ used' = used + Len(v)
    /\ UNCHANGED <<hand, out>>

Take ==
    /\ queue # <<>> /\ hand = <<>>
    /\ queue' = Tail(queue)
    /\ used' = used - Len(Head(queue))
    /\ hand' = IF Len(Head(queue)) > MaxEntry THEN <<>> ELSE <<Head(queue)>>
    /\ UNCHANGED out

HandOn ==
    /\ hand # <<>>
    /\ out' = Append(out, hand[1])
    /\ hand' = <<>>
    /\ UNCHANGED <<queue, used>>

Next == (\E v \in Values : Send(v)) \/ Take \/ HandOn

Spec == Init /\ [][Next]_fifoVars
=============================================================================
