---------------------------- MODULE MCRelayStore ----------------------------
(* RelayStore for TLC: a relay offered every envelope over a few records,  *)
(* mutations and digests, well-behaved or not.                             *)
EXTENDS RelayStore, TLC

Symmetry == Permutations(Record) \cup Permutations(Mutation)
            \cup Permutations(Digest)
=============================================================================
