----------------------------- MODULE MCConsole -----------------------------
(* Instances of the operations plane for TLC; clients are interchangeable.  *)
EXTENDS Console, TLC

ClientSymmetry == Permutations(Clients) \cup Permutations(Fds)
=============================================================================
