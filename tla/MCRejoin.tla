------------------------------ MODULE MCRejoin ------------------------------
(* Rejoin for TLC: the identifier sets, and bounds. *)
EXTENDS Rejoin, TLC

MCMutation == Device \X (1..MaxMutation)
MCRecord == Base \cup (Base \X MCMutation)

\* Bound: one sync or rejoin under way at a time; how syncs overlap is the
\* subject of Sync.
OneAtATime ==
  Cardinality({p \in Process : ~At(p, "idle")})
    + Cardinality({d \in Device : ~RejoinAt(d, "none")}) <= 1

UserWrites(d) == {e \in sealed : Author(e) = d /\ (e.record \in Base \/ e.deleted)}

\* Bound: three edits in all, of one record, and two writes by a user whose
\* relay is backed up or lost; a third otherwise, to settle a conflict.
FewEdits ==
  /\ Cardinality(Edits) <= 3
  /\ \A d \in Device :
       IF backup = NoTables /\ restores = 0
       THEN Cardinality(UserWrites(d) \cap Edits) <= 2
       ELSE Cardinality(UserWrites(d)) <= 2

Symmetry == Permutations(Device)
====
