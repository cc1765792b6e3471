----------------------------- MODULE VaultStore -----------------------------
(***************************************************************************)
(* A device's own record store (internal/vault/store_records.go).  A store *)
(* is a record with one field per table:                                   *)
(*   heads      table records: record -> [env, seq], seq 0 for SQL NULL    *)
(*   outbox     table outbox: the envelopes queued for the relay           *)
(*   cursor     table cursors, row `records'                               *)
(*   ancestors  table record_history: set of <<record, digest>>            *)
(* Every method of the store is one SQLite transaction; here it is an      *)
(* operator from the store before it to the store after it, with a `Can'   *)
(* predicate where the transaction may fail and roll back.                 *)
(***************************************************************************)
EXTENDS Envelopes, FiniteSetsExt

StoreOf(heads, outbox, cursor, ancestors) ==
  [heads |-> heads, outbox |-> outbox, cursor |-> cursor, ancestors |-> ancestors]

EmptyStore == StoreOf(EmptyTable, {}, 0, {})

\* What the tables' columns hold.
StoreOK(s) ==
  /\ s.outbox \subseteq Envelope
  /\ DOMAIN s.heads \subseteq Record
  /\ \A r \in DOMAIN s.heads : s.heads[r] \in Row /\ s.heads[r].env.record = r
  /\ s.cursor \in Nat
  /\ s.ancestors \subseteq Record \X Digest

HasHead(s, r) == r \in DOMAIN s.heads
HeadEnv(s, r) == s.heads[r].env
Live(s, r) == HasHead(s, r) /\ ~HeadEnv(s, r).deleted

\* The rows of the outbox for one record.
Queued(s, r) == {e \in s.outbox : e.record = r}

Same(e, f) == e.rev = f.rev /\ e.digest = f.digest

-----------------------------------------------------------------------------

\* replaceHeadTx: installs a head without comparing it with the stored one,
\* and remembers what it vouches for.
ReplaceHead(s, e, seq) ==
  StoreOf(Upsert(s.heads, e.record, [env |-> e, seq |-> seq]), s.outbox, s.cursor,
          s.ancestors \cup Vouches(e))

\* putRecordTx: a write must create its record, repeat the head or extend it.
ExtendsHead(h, e) == e.rev = h.rev + 1 /\ e.parent = h.digest

CanPut(s, e) ==
  IF HasHead(s, e.record)
  THEN Same(e, HeadEnv(s, e.record)) \/ ExtendsHead(HeadEnv(s, e.record), e)
  ELSE e.rev = 1

Put(s, e, seq) ==
  IF HasHead(s, e.record) /\ Same(e, HeadEnv(s, e.record))
  THEN s
  ELSE ReplaceHead(s, e, seq)

\* enqueueOutboxTx, keyed by mutation: a second insert does nothing.
Enqueue(s, e) ==
  IF \E f \in s.outbox : f.mutation = e.mutation
  THEN s
  ELSE StoreOf(s.heads, s.outbox \cup {e}, s.cursor, s.ancestors)

\* DELETE FROM outbox WHERE mutation_id = m.
Dequeue(s, m) ==
  StoreOf(s.heads, {e \in s.outbox : e.mutation # m}, s.cursor, s.ancestors)

-----------------------------------------------------------------------------

\* ApplyLocalBatch of one envelope: queued and made the head together.
ApplyLocal(s, e) == Put(Enqueue(s, e), e, 0)

\* AcceptOutbox: the candidate becomes the head, with the relay's number.
AcceptOutbox(s, e, seq) == Dequeue(ReplaceHead(s, e, seq), e.mutation)

\* ResolveConflict: the preserved copy is queued, the relay's head installed
\* and the rejected candidate dropped, together; fails when the copy does
\* not extend the conflict record as stored.
CanResolveConflict(s, conflict) == CanPut(s, conflict)

\* Mutation of ResolveConflict: the preserved copy is not stored.
ResolveConflictDropsCopy(s, candidate, conflict, head) ==
  Dequeue(ReplaceHead(s, head.env, head.seq), candidate.mutation)

ResolveConflict(s, candidate, conflict, head) ==
  Dequeue(ReplaceHead(ApplyLocal(s, conflict), head.env, head.seq),
          candidate.mutation)

\* Supersede(nil, head): the relay's head wins; every queued write of the
\* record goes.
Supersede(s, head) ==
  ReplaceHead(StoreOf(s.heads, s.outbox \ Queued(s, head.env.record), s.cursor,
                      s.ancestors),
              head.env, head.seq)

-----------------------------------------------------------------------------
(***************************************************************************)
(* ApplyRemoteBatch.  `log' gives the envelope at each sequence number and *)
(* `batch' is the set of numbers to apply, in increasing order.  An entry  *)
(* meets the head its predecessor of the same record in the batch left, or *)
(* else the stored one; applyRemoteTx installs a first sight of a record   *)
(* and a revision gap as they are and checks everything else as            *)
(* putRecordTx does.  One entry failing rolls back the batch.              *)
(***************************************************************************)
OfRecord(log, batch, r) == {i \in batch : log[i].record = r}

CanApplyRemoteTo(h, e) ==
  e.rev > h.rev + 1 \/ Same(e, h) \/ ExtendsHead(h, e)

CanApplyRemoteBatch(s, log, batch) ==
  \A i \in batch :
    LET r == log[i].record
        before == {j \in OfRecord(log, batch, r) : j < i}
    IN  CASE before # {} -> CanApplyRemoteTo(log[Max(before)], log[i])
          [] before = {} /\ HasHead(s, r) -> CanApplyRemoteTo(HeadEnv(s, r), log[i])
          [] OTHER -> TRUE

ApplyRemoteBatch(s, log, batch, cursor) ==
  LET last(r) == Max(OfRecord(log, batch, r))
      touched == {log[i].record : i \in batch}
      kept(r) == HasHead(s, r) /\ Same(log[last(r)], HeadEnv(s, r))
  IN  StoreOf([r \in DOMAIN s.heads \cup touched |->
                 IF r \in touched /\ ~kept(r)
                 THEN [env |-> log[last(r)], seq |-> last(r)]
                 ELSE s.heads[r]],
              s.outbox, cursor,
              s.ancestors \cup UNION {Vouches(log[i]) : i \in batch})
=============================================================================
