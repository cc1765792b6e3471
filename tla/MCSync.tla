------------------------------- MODULE MCSync -------------------------------
(* Sync for TLC: the identifier sets that its assumptions describe. *)
EXTENDS Sync

MCMutation == Device \X (1..MaxMutation)
MCRecord == Base \cup (Base \X MCMutation)

UserWrote(e) == IsConflictRecord(e) => e.deleted

\* Bound: three edits in a run with a fault, and what a user writes third
\* retires a conflict, in a run without.
FewEdits ==
  /\ faults > 0 => Cardinality({e \in sealed : UserWrote(e)}) <= 3
  /\ \A e \in sealed :
       e.mutation[2] > 2 /\ UserWrote(e) => IsConflictRecord(e) /\ faults = 0
=============================================================================
