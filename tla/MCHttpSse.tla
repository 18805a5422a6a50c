----------------------------- MODULE MCHttpSse -----------------------------
(* HttpSse for TLC: connections and descriptor numbers are interchangeable. *)
EXTENDS HttpSse, TLC

SseSymmetry == Permutations(Clients) \cup Permutations(Fds)
=============================================================================
