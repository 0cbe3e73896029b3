---------------------------- MODULE MCTtlDispatch ----------------------------
(* Instances of TtlDispatch for TLC.                                       *)
EXTENDS TtlDispatch

\* Adjacent buckets, a gap, and times left beyond the longest.
SomeBuckets == {1, 2, 4}
=============================================================================
