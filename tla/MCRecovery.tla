----------------------------- MODULE MCRecovery -----------------------------
(* Recovery for TLC. *)
EXTENDS Recovery

CONSTANTS s1, s2

\* Bound: two requests under way, and two of one machine only before their
\* uploads can cross, in a run that has not failed yet and in which nobody
\* recovers.  The slots are alike: the second is used beside the first.
FewRequests ==
  /\ Cardinality({p \in Process : ~At(p, "idle")}) <= 2
  /\ \A d \in Device : ~At(<<d, s2>>, "idle") =>
       ~At(<<d, s1>>, "idle") /\ ~crossed /\ faults = 0 /\ issued = 0
=============================================================================
