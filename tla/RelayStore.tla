----------------------------- MODULE RelayStore -----------------------------
(***************************************************************************)
(* The record tables of the relay (internal/relay/store.go): the accepted  *)
(* log, the head of every record, the outcome of every mutation and the    *)
(* digests the relay has seen for a record.  Each table is one variable;   *)
(* PutRecord is one SQLite transaction on the relay's single connection,   *)
(* so it is one step.                                                      *)
(***************************************************************************)
EXTENDS Envelopes, Sequences

VARIABLES changeLog,      \* table change_log: the envelope at seq n is changeLog[n]
          recordHead,     \* table record_head: record -> [env, seq]
          outcome,        \* table mutation: mutation -> [digest, accepted, seq]
          recordAncestor  \* table record_ancestor: set of <<record, digest>>

relayVars == <<changeLog, recordHead, outcome, recordAncestor>>

-----------------------------------------------------------------------------

CurrentSeq == Len(changeLog)

\* Mutation of ParentMismatch: the parent digest is not compared.
ParentMismatchByRevision(e) ==
  IF e.record \notin DOMAIN recordHead
  THEN e.rev # 1
  ELSE e.rev # recordHead[e.record].env.rev + 1

\* Why a write does not extend the stored head, when it does not.
ParentMismatch(e) ==
  IF e.record \notin DOMAIN recordHead
  THEN e.rev # 1
  ELSE LET head == recordHead[e.record].env
       IN  \/ e.rev # head.rev + 1
           \/ e.parent # head.digest

\* Mutation of Replayed: only acceptances are looked up.
ReplayedAccepted(e) ==
  e.mutation \in DOMAIN outcome /\ outcome[e.mutation].accepted = 1

\* Mutation of Replayed: outcomes are never looked up.
ReplayedNever(e) == FALSE

\* The mutation's outcome is already on record.
Replayed(e) == e.mutation \in DOMAIN outcome

\* An outcome is on record for other content (idempotency_mismatch).
OtherContent(e) == Replayed(e) /\ outcome[e.mutation].digest # e.digest

\* Mutation of HeadOf: a tombstone is not sent.
HeadOfLive(r) ==
  IF r \in DOMAIN recordHead /\ ~recordHead[r].env.deleted
  THEN {recordHead[r]} ELSE {}

HeadOf(r) == IF r \in DOMAIN recordHead THEN {recordHead[r]} ELSE {}

(***************************************************************************)
(* What the caller is told.  A rejection carries the head at the time of   *)
(* the answer, also when the rejection itself is a replay; `head' is the   *)
(* empty set when the relay has no head to send.                           *)
(***************************************************************************)
Refusal == [kind |-> "mismatch", seq |-> 0, head |-> {}]
Acceptance(n) == [kind |-> "accepted", seq |-> n, head |-> {}]
Rejection(r) == [kind |-> "rejected", seq |-> 0, head |-> HeadOf(r)]

PutReply(e) ==
  CASE OtherContent(e) -> Refusal
    [] Replayed(e) /\ ~OtherContent(e) /\ outcome[e.mutation].accepted = 1 ->
         Acceptance(outcome[e.mutation].seq)
    [] Replayed(e) /\ ~OtherContent(e) /\ outcome[e.mutation].accepted = 0 ->
         Rejection(e.record)
    [] ~Replayed(e) /\ ParentMismatch(e) -> Rejection(e.record)
    [] ~Replayed(e) /\ ~ParentMismatch(e) -> Acceptance(CurrentSeq + 1)

\* recordOutcome: the first outcome of a mutation is stored with its content.
RecordOutcome(e, accepted, seq) ==
  outcome' = Upsert(outcome, e.mutation,
                    [digest |-> e.digest, accepted |-> accepted, seq |-> seq])

Replay(e) == Replayed(e) /\ UNCHANGED relayVars

Reject(e) ==
  /\ ~Replayed(e)
  /\ ParentMismatch(e)
  /\ RecordOutcome(e, 0, 0)
  /\ UNCHANGED <<changeLog, recordHead, recordAncestor>>

\* Mutation of Accept: the head keeps the number before the new entry's.
AcceptMisnumbersHead(e) ==
  /\ ~Replayed(e)
  /\ ~ParentMismatch(e)
  /\ changeLog' = Append(changeLog, e)
  /\ recordHead' = Upsert(recordHead, e.record, [env |-> e, seq |-> CurrentSeq])
  /\ recordAncestor' = recordAncestor \cup Vouches(e)
  /\ RecordOutcome(e, 1, CurrentSeq + 1)

\* Mutation of Accept: the outcome is not recorded.
AcceptForgetsOutcome(e) ==
  /\ ~Replayed(e)
  /\ ~ParentMismatch(e)
  /\ changeLog' = Append(changeLog, e)
  /\ recordHead' = Upsert(recordHead, e.record, [env |-> e, seq |-> CurrentSeq + 1])
  /\ recordAncestor' = recordAncestor \cup Vouches(e)
  /\ UNCHANGED outcome

Accept(e) ==
  /\ ~Replayed(e)
  /\ ~ParentMismatch(e)
  /\ changeLog' = Append(changeLog, e)
  /\ recordHead' = Upsert(recordHead, e.record, [env |-> e, seq |-> CurrentSeq + 1])
  /\ recordAncestor' = recordAncestor \cup Vouches(e)
  /\ RecordOutcome(e, 1, CurrentSeq + 1)

PutRecord(e) == Valid(e) /\ (Replay(e) \/ Reject(e) \/ Accept(e))

(***************************************************************************)
(* Changes(since, through, limit): the log entries after `since', at most  *)
(* `limit' of them and fewer when the page reaches its byte bound, but at  *)
(* least one when there is one.  Sequence numbers are dense, so a page is  *)
(* the interval since+1..next of the log.                                  *)
(***************************************************************************)
PageEnds(since, through, limit) ==
  {next \in since..through : /\ next <= since + limit
                             /\ since < through => since < next}

-----------------------------------------------------------------------------

RelayInit ==
  /\ changeLog = <<>>
  /\ recordHead = EmptyTable
  /\ outcome = EmptyTable
  /\ recordAncestor = {}

RelayNext == \E e \in Envelope : PutRecord(e)

RelaySpec == RelayInit /\ [][RelayNext]_relayVars

-----------------------------------------------------------------------------
(* Type invariant: every table holds rows of its schema. *)
RelayTypeOK ==
  /\ changeLog \in Seq(Envelope)
  /\ DOMAIN recordHead \subseteq Record
  /\ \A r \in DOMAIN recordHead : recordHead[r] \in Row
  /\ DOMAIN outcome \subseteq Mutation
  /\ \A m \in DOMAIN outcome :
       outcome[m] \in [digest: Digest, accepted: {0, 1}, seq: Nat]
  /\ recordAncestor \subseteq Record \X Digest

\* Entry j is the last entry of record r at or before position n of the log.
LatestAt(r, n, j) ==
  /\ j \in 1..n
  /\ changeLog[j].record = r
  /\ \A k \in j + 1 .. n : changeLog[k].record # r

(***************************************************************************)
(* The head of a record is the last log entry of that record, at the       *)
(* sequence number it has in the log: PutRecord keeps record_head and      *)
(* change_log together, whatever mixture of accepted, rejected and         *)
(* repeated writes came before.                                            *)
(***************************************************************************)
HeadIsLatest ==
  /\ \A i \in 1..Len(changeLog) : changeLog[i].record \in DOMAIN recordHead
  /\ \A r \in DOMAIN recordHead :
       /\ LatestAt(r, Len(changeLog), recordHead[r].seq)
       /\ recordHead[r].env = changeLog[recordHead[r].seq]

(***************************************************************************)
(* The log is a single unforked line per record: each entry either creates *)
(* its record, at revision 1, or extends the entry of that record just     *)
(* before it by one revision and names that entry's digest as its parent   *)
(* (parentMismatch in relay/store.go).                                     *)
(***************************************************************************)
Extends(i) ==
  LET e == changeLog[i]
  IN  \/ /\ e.rev = 1
         /\ \A j \in 1..i - 1 : changeLog[j].record # e.record
      \/ \E j \in 1..i - 1 :
           /\ LatestAt(e.record, i - 1, j)
           /\ e.rev = changeLog[j].rev + 1
           /\ e.parent = changeLog[j].digest

UnforkedLog == \A i \in 1..Len(changeLog) : Extends(i)

(***************************************************************************)
(* A mutation takes effect exactly when its stored outcome says so, once:  *)
(* an accepted outcome names the log entry holding that content, and every *)
(* log entry is the one its mutation's outcome names.  A retried write can *)
(* therefore never be applied twice, nor a rejected one be found in the    *)
(* log.                                                                    *)
(***************************************************************************)
ExactlyOnce ==
  /\ \A m \in DOMAIN outcome : outcome[m].accepted = 1 =>
       /\ outcome[m].seq \in 1..Len(changeLog)
       /\ changeLog[outcome[m].seq].mutation = m
       /\ changeLog[outcome[m].seq].digest = outcome[m].digest
  /\ \A i \in 1..Len(changeLog) :
       LET m == changeLog[i].mutation
       IN  m \in DOMAIN outcome /\ outcome[m].accepted = 1 /\ outcome[m].seq = i

(***************************************************************************)
(* The ancestors kept for a record are exactly the digests its accepted    *)
(* versions have and name: what a rejoining device's import is compared    *)
(* with (isAncestorTx) is neither short of a version nor invented.         *)
(***************************************************************************)
AncestorsMatchLog ==
  \A x \in Record \X Digest :
    x \in recordAncestor <=> \E i \in 1..Len(changeLog) : x \in Vouches(changeLog[i])

(***************************************************************************)
(* No step changes an outcome that was given or an entry of the log: the   *)
(* answer to a retry is the answer the first attempt got, a rejection      *)
(* included, and a page read again reads the same.                         *)
(***************************************************************************)
StableHistory ==
  [][/\ \A m \in DOMAIN outcome :
          m \in DOMAIN outcome' /\ outcome'[m] = outcome[m]
     /\ Len(changeLog) <= Len(changeLog')
     /\ \A i \in 1..Len(changeLog) : changeLog'[i] = changeLog[i]]_relayVars
=============================================================================
