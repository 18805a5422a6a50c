-------------------------- MODULE MCBucketSegment --------------------------
(* Instances of the bucket for TLC.  Writers are interchangeable.           *)
EXTENDS BucketSegment, TLC

WriterSymmetry == Permutations(Writers)
=============================================================================
