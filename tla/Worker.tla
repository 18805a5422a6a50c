------------------------------- MODULE Worker -------------------------------
(***************************************************************************)
(* What a business thread promises: messages leave its mailbox in the      *)
(* order they entered it, one at a time, none is lost; after a stop        *)
(* request it finishes at most one more message, and then it ends.         *)
(***************************************************************************)
EXTENDS Sequences

CONSTANT Message

VARIABLES
    box,    \* messages waiting
    hand,   \* the message being handled, if any
    done,   \* messages handled, in order
    asked,  \* a stop has been requested
    life    \* "works", "leaves" (takes no more), "gone"

workerVars == <<box, hand, done, asked, life>>

Init == box = <<>> /\ hand = <<>> /\ done = <<>> /\ asked = FALSE /\ life = "works"

(* A message may be posted at any time, even to a thread that is gone.      *)
Post(m) == box' = Append(box, m) /\ UNCHANGED <<hand, done, asked, life>>

Take ==
    /\ life = "works" /\ hand = <<>> /\ box # <<>>
    /\ hand' = <<Head(box)>> /\ box' = Tail(box)
    /\ UNCHANGED <<done, asked, life>>

Finish ==
    /\ hand # <<>>
    /\ done' = Append(done, hand[1]) /\ hand' = <<>>
    /\ life' = IF asked THEN "leaves" ELSE life
    /\ UNCHANGED <<box, asked>>

RequestStop ==
    /\ asked' = TRUE
    /\ life' \in {life, IF hand = <<>> /\ life = "works" THEN "leaves" ELSE life}
    /\ UNCHANGED <<box, hand, done>>

Leave ==
    /\ asked /\ life = "works" /\ hand = <<>>
    /\ life' = "leaves"
    /\ UNCHANGED <<box, hand, done, asked>>

End ==
    /\ life = "leaves"
    /\ life' = "gone"
    /\ UNCHANGED <<box, hand, done, asked>>

Work == Take \/ Finish \/ Leave \/ End

Next == (\E m \in Message : Post(m)) \/ RequestStop \/ Work

Spec == Init /\ [][Next]_workerVars

(* A thread that has something to do does it: waiting messages are taken,   *)
(* and a thread that is asked to stop ends.                                 *)
FairSpec == Spec /\ WF_workerVars(Work)
=============================================================================
