---------------------------- MODULE MCThreadRun ----------------------------
(* Instances of the business thread for TLC; senders are interchangeable.   *)
EXTENDS ThreadRun, TLC

SenderSymmetry == Permutations(Senders)
=============================================================================
