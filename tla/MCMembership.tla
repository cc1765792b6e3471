---------------------------- MODULE MCMembership ----------------------------
(* Membership for TLC. *)
EXTENDS Membership, TLC

\* Bound: two requests under way, and two of one device only of the founder
\* and in a run in which nothing fails.
FewRequests ==
  /\ Cardinality({p \in Process : ~At(p, "idle")}) <= 2
  /\ overlapped # {} => overlapped = {Founder} /\ faults = 0

Symmetry == Permutations(Slot)
=============================================================================
