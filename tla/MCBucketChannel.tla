-------------------------- MODULE MCBucketChannel --------------------------
(* BucketChannel for TLC: two ports; the readers of the first, and the      *)
(* writers, are interchangeable.                                            *)
EXTENDS BucketChannel, TLC

CONSTANTS p1, p2, q1

MCPortOf == (p1 :> "a") @@ (p2 :> "a") @@ (q1 :> "b")
MCSelected == {<<"a", "b">>}
ChannelSymmetry == Permutations({p1, p2}) \cup Permutations(Writers)
=============================================================================
