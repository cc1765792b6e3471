----------------------------- MODULE SyncProofs -----------------------------
(***************************************************************************)
(* The safety of the relay's store and of the sync protocol, for any number *)
(* of devices, concurrent syncs per device, records, edits and faults, and *)
(* that the composition implements the relay's own specification.          *)
(*                                                                         *)
(* The relay's own invariant, RelayInv, is inductive as it stands.         *)
(* NoLostEdit, OneFate and PushNeverWedges follow from one inductive       *)
(* invariant, SyncInv.  Its parts:                                         *)
(*   SealedInv   an envelope is known by its mutation, and a conflict      *)
(*               record only exists for a write the relay has rejected;    *)
(*   HeldInv     whatever the log, a store, a sync or the network holds    *)
(*               was sealed, and a device queues only its own writes;      *)
(*   MemoryInv   what a sync holds in memory about the relay's answer is   *)
(*               still true when it settles, however late that is;         *)
(*   Published   (in HeldInv and MemoryInv) a record the relay does not    *)
(*               have is one whose creation is still queued, ahead of its  *)
(*               later revisions.                                          *)
(***************************************************************************)
EXTENDS Sync, TLAPS
LOCAL INSTANCE WellFoundedInduction

\* Leaves that reason about numbers, sequences or records use the SMT solver.
USE ZenonT(60)

-----------------------------------------------------------------------------
(* The relay. *)

RelayInv == RelayTypeOK /\ HeadIsLatest /\ UnforkedLog /\ ExactlyOnce
            /\ AncestorsMatchLog

\* Before the log grows, its entries are where they were; the last is new.
LEMMA AppendEntries ==
  ASSUME NEW e \in Envelope, changeLog \in Seq(Envelope),
         changeLog' = Append(changeLog, e)
  PROVE  /\ changeLog' \in Seq(Envelope)
         /\ Len(changeLog') = Len(changeLog) + 1
         /\ Len(changeLog) \in Nat
         /\ \A i \in 1..Len(changeLog) : changeLog'[i] = changeLog[i]
         /\ changeLog'[Len(changeLog) + 1] = e
  BY SMTT(30)

\* The empty relay satisfies the invariant.
LEMMA RelayInvInit == RelayInit => RelayInv
  BY SMTT(30) DEF RelayInit, RelayInv, RelayTypeOK, HeadIsLatest, UnforkedLog, ExactlyOnce,
         AncestorsMatchLog, EmptyTable

\* A rejected write only adds an outcome that no log entry has.
LEMMA RejectKeepsInv ==
  ASSUME NEW e \in Envelope, RelayInv, Reject(e)
  PROVE  RelayInv'
  <1> DEFINE row == [digest |-> e.digest, accepted |-> 0, seq |-> 0]
  <1>1. /\ outcome' = Upsert(outcome, e.mutation, row)
        /\ e.mutation \notin DOMAIN outcome
        /\ UNCHANGED <<changeLog, recordHead, recordAncestor>>
    BY DEF Reject, RecordOutcome, Replayed
  <1>2. /\ DOMAIN outcome' = DOMAIN outcome \cup {e.mutation}
        /\ outcome'[e.mutation] = row
        /\ \A x \in DOMAIN outcome : outcome'[x] = outcome[x]
    BY <1>1 DEF Upsert
  <1>3. e.mutation \in Mutation /\ row \in [digest: Digest, accepted: {0, 1}, seq: Nat]
    BY DEF Envelope
  <1>4. RelayTypeOK'
    BY <1>1, <1>2, <1>3 DEF RelayInv, RelayTypeOK
  <1>5. HeadIsLatest' /\ UnforkedLog' /\ AncestorsMatchLog'
    <2>1. HeadIsLatest'
      BY <1>1 DEF RelayInv, HeadIsLatest, LatestAt
    <2>2. UnforkedLog'
      BY <1>1 DEF RelayInv, UnforkedLog, Extends, LatestAt
    <2>3. AncestorsMatchLog'
      BY <1>1, SMTT(30) DEF RelayInv, AncestorsMatchLog, Vouches
    <2> QED BY <2>1, <2>2, <2>3
  <1>6. ExactlyOnce'
    BY <1>1, <1>2, SMTT(30) DEF RelayInv, ExactlyOnce
  <1> QED BY <1>4, <1>5, <1>6 DEF RelayInv

\* An accepted write becomes the last entry, the head and an accepted outcome.
LEMMA AcceptKeepsInv ==
  ASSUME NEW e \in Envelope, RelayInv, Accept(e), Valid(e)
  PROVE  RelayInv'
  <1>0. PICK n \in Nat : n = Len(changeLog)
    BY SMTT(30) DEF RelayInv, RelayTypeOK
  <1> DEFINE row == [env |-> e, seq |-> n + 1]
             out == [digest |-> e.digest, accepted |-> 1, seq |-> n + 1]
  <1>1. /\ changeLog' = Append(changeLog, e)
        /\ recordHead' = Upsert(recordHead, e.record, row)
        /\ outcome' = Upsert(outcome, e.mutation, out)
        /\ recordAncestor' = recordAncestor \cup Vouches(e)
        /\ e.mutation \notin DOMAIN outcome
        /\ ~ParentMismatch(e)
    BY <1>0 DEF Accept, RecordOutcome, Replayed, CurrentSeq
  <1>2. /\ changeLog \in Seq(Envelope)
        /\ changeLog' \in Seq(Envelope)
        /\ n \in Nat /\ Len(changeLog') = n + 1
        /\ \A i \in 1..n : changeLog'[i] = changeLog[i]
        /\ changeLog'[n + 1] = e
    BY <1>0, <1>1, AppendEntries DEF RelayInv, RelayTypeOK
  <1>3. /\ DOMAIN recordHead' = DOMAIN recordHead \cup {e.record}
        /\ recordHead'[e.record] = row
        /\ \A r \in DOMAIN recordHead : r # e.record => recordHead'[r] = recordHead[r]
    BY <1>1 DEF Upsert
  <1>4. /\ DOMAIN outcome' = DOMAIN outcome \cup {e.mutation}
        /\ outcome'[e.mutation] = out
        /\ \A m \in DOMAIN outcome : outcome'[m] = outcome[m]
    BY <1>1 DEF Upsert
  <1>5. RelayTypeOK'
    <2>1. row \in Row /\ e.record \in Record
      BY <1>2, SMTT(30) DEF Row, Envelope
    <2>2. out \in [digest: Digest, accepted: {0, 1}, seq: Nat] /\ e.mutation \in Mutation
      BY <1>2, SMTT(30) DEF Envelope
    <2>3. Vouches(e) \subseteq Record \X Digest
      BY SMTT(30) DEF Vouches, Envelope
    <2> QED BY <1>1, <1>2, <1>3, <1>4, <2>1, <2>2, <2>3 DEF RelayInv, RelayTypeOK
  <1>6. HeadIsLatest'
    <2>1. ASSUME NEW r \in DOMAIN recordHead, r # e.record
          PROVE  /\ LatestAt(r, n + 1, recordHead[r].seq)'
                 /\ (recordHead[r].env = changeLog[recordHead[r].seq])'
      <3>1. LatestAt(r, n, recordHead[r].seq)
            /\ recordHead[r].env = changeLog[recordHead[r].seq]
        BY <1>0 DEF RelayInv, HeadIsLatest
      <3>2. \A i \in 1..n + 1 : i \in 1..n \/ i = n + 1
        BY <1>2, SMTT(30)
      <3> QED BY <1>2, <1>3, <2>1, <3>1, <3>2, SMTT(30) DEF LatestAt
    <2>2. /\ LatestAt(e.record, n + 1, n + 1)'
          /\ recordHead'[e.record].env = changeLog'[recordHead'[e.record].seq]
      BY <1>2, <1>3, SMTT(30) DEF LatestAt
    <2>3. \A i \in 1..n + 1 : changeLog'[i].record \in DOMAIN recordHead'
      BY <1>0, <1>2, <1>3, SMTT(30) DEF RelayInv, HeadIsLatest
    <2> QED BY <1>2, <1>3, <2>1, <2>2, <2>3, SMTT(30) DEF HeadIsLatest
  <1>7. UnforkedLog'
    <2>1. ASSUME NEW i \in 1..n
          PROVE  Extends(i)'
      <3>1. Extends(i)
        BY <1>0 DEF RelayInv, UnforkedLog
      <3>2. \A j \in 1..i : changeLog'[j] = changeLog[j]
        BY <1>2, SMTT(30)
      <3>3. i \in 1..i /\ 1..(i - 1) \subseteq 1..i
        BY <1>2, SMTT(30)
      <3> QED BY <3>1, <3>2, <3>3, SMTT(30) DEF Extends, LatestAt
    <2>2. Extends(n + 1)'
      <3>1. CASE e.record \notin DOMAIN recordHead
        <4>1. e.rev = 1
          BY <1>1, <3>1 DEF ParentMismatch
        <4>2. \A j \in 1..n : changeLog'[j].record # e.record
          BY <1>0, <1>2, <3>1 DEF RelayInv, HeadIsLatest
        <4> QED BY <1>2, <4>1, <4>2, SMTT(30) DEF Extends
      <3>2. CASE e.record \in DOMAIN recordHead
        <4>0. PICK j : j = recordHead[e.record].seq
          OBVIOUS
        <4>1. /\ LatestAt(e.record, n, j)
              /\ recordHead[e.record].env = changeLog[j]
          BY <1>0, <3>2, <4>0 DEF RelayInv, HeadIsLatest
        <4>2. e.rev = changeLog[j].rev + 1 /\ e.parent = changeLog[j].digest
          BY <1>1, <3>2, <4>1 DEF ParentMismatch
        <4>3. LatestAt(e.record, n, j)'
          BY <1>2, <4>1, SMTT(30) DEF LatestAt
        <4>4. j \in 1..n
          BY <4>1 DEF LatestAt
        <4>5. changeLog'[j] = changeLog[j] /\ changeLog'[n + 1] = e /\ (n + 1) - 1 = n
          BY <1>0, <1>2, <4>4, SMTT(30)
        <4> QED BY <4>2, <4>3, <4>4, <4>5 DEF Extends
      <3> QED BY <3>1, <3>2
    <2> QED BY <1>2, <2>1, <2>2, SMTT(30) DEF UnforkedLog
  <1>8. ExactlyOnce'
    <2>1. \A i \in 1..n : changeLog[i].mutation # e.mutation
      BY <1>0, <1>1 DEF RelayInv, ExactlyOnce
    <2>2. ASSUME NEW m \in DOMAIN outcome', outcome'[m].accepted = 1
          PROVE  /\ outcome'[m].seq \in 1..n + 1
                 /\ changeLog'[outcome'[m].seq].mutation = m
                 /\ changeLog'[outcome'[m].seq].digest = outcome'[m].digest
      BY <1>0, <1>2, <1>4, <2>2, SMTT(30) DEF RelayInv, ExactlyOnce
    <2>3. ASSUME NEW i \in 1..n + 1
          PROVE  LET m == changeLog'[i].mutation
                 IN  m \in DOMAIN outcome' /\ outcome'[m].accepted = 1 /\ outcome'[m].seq = i
      BY <1>0, <1>2, <1>4, <2>1, SMTT(30) DEF RelayInv, ExactlyOnce
    <2> QED BY <1>2, <2>2, <2>3 DEF ExactlyOnce
  <1>9. AncestorsMatchLog'
    <2>1. ASSUME NEW x \in Record \X Digest
          PROVE  x \in recordAncestor' <=>
                   \E i \in 1..n + 1 : x \in Vouches(changeLog'[i])
      <3>1. x \in recordAncestor <=> \E i \in 1..n : x \in Vouches(changeLog[i])
        BY <1>0 DEF RelayInv, AncestorsMatchLog
      <3>2. \A i \in 1..n : Vouches(changeLog'[i]) = Vouches(changeLog[i])
        BY <1>2
      <3>3. Vouches(changeLog'[n + 1]) = Vouches(e)
        BY <1>2
      <3>4. 1..n + 1 = (1..n) \cup {n + 1}
        BY <1>0, SMTT(30)
      <3>5. x \in recordAncestor' <=> x \in recordAncestor \/ x \in Vouches(e)
        BY <1>1
      <3> QED BY <3>1, <3>2, <3>3, <3>4, <3>5
    <2> QED BY <1>2, <2>1, SMTT(30) DEF AncestorsMatchLog, Vouches
  <1> QED BY <1>5, <1>6, <1>7, <1>8, <1>9 DEF RelayInv

\* A step that leaves the relay's tables alone keeps the invariant.
LEMMA StutterKeepsInv ==
  ASSUME RelayInv, UNCHANGED relayVars
  PROVE  RelayInv'
  <1>1. /\ changeLog' = changeLog /\ recordHead' = recordHead
        /\ outcome' = outcome /\ recordAncestor' = recordAncestor
    BY DEF relayVars
  <1>2. RelayTypeOK' /\ ExactlyOnce'
    BY <1>1 DEF RelayInv, RelayTypeOK, ExactlyOnce
  <1>3. \A r, k, j : LatestAt(r, k, j)' = LatestAt(r, k, j)
    BY <1>1 DEF LatestAt
  <1>4. HeadIsLatest'
    BY <1>1, <1>3 DEF RelayInv, HeadIsLatest
  <1>5. UnforkedLog'
    BY <1>1, <1>3 DEF RelayInv, UnforkedLog, Extends
  <1>6. AncestorsMatchLog'
    BY <1>1, SMTT(30) DEF RelayInv, AncestorsMatchLog, Vouches
  <1> QED BY <1>2, <1>4, <1>5, <1>6 DEF RelayInv

\* One PutRecord transaction keeps the invariant.
LEMMA PutRecordKeepsInv ==
  ASSUME NEW e \in Envelope, RelayInv, PutRecord(e)
  PROVE  RelayInv'
  <1>1. CASE Replay(e)
    BY <1>1, StutterKeepsInv DEF Replay
  <1>2. CASE Reject(e)
    BY <1>2, RejectKeepsInv
  <1>3. CASE Accept(e)
    BY <1>3, AcceptKeepsInv DEF PutRecord
  <1> QED BY <1>1, <1>2, <1>3 DEF PutRecord

\* The relay's tables are well typed, its heads are the last entries of an
\* unforked log, every mutation took effect exactly when its outcome says so,
\* and the ancestors it keeps are those of its log: for any writers at all.
THEOREM RelayIsCorrect == RelaySpec => []RelayInv
  <1>1. RelayInv /\ [RelayNext]_relayVars => RelayInv'
    BY PutRecordKeepsInv, StutterKeepsInv DEF RelayNext
  <1> QED BY RelayInvInit, <1>1, PTL DEF RelaySpec

\* The log of every record is a single unforked line.
THEOREM RelayLogUnforked == RelaySpec => []UnforkedLog
  BY RelayIsCorrect, PTL DEF RelayInv

\* A mutation takes effect at most once, and exactly when it was accepted.
THEOREM RelayExactlyOnce == RelaySpec => []ExactlyOnce
  BY RelayIsCorrect, PTL DEF RelayInv

\* The head of every record is the last entry of the log for it.
THEOREM RelayHeadIsLatest == RelaySpec => []HeadIsLatest
  BY RelayIsCorrect, PTL DEF RelayInv

\* One PutRecord transaction never changes an outcome or a log entry.
LEMMA PutRecordKeepsHistory ==
  ASSUME NEW e \in Envelope, RelayTypeOK, PutRecord(e)
  PROVE  /\ \A m \in DOMAIN outcome :
              m \in DOMAIN outcome' /\ outcome'[m] = outcome[m]
         /\ Len(changeLog) <= Len(changeLog')
         /\ \A i \in 1..Len(changeLog) : changeLog'[i] = changeLog[i]
  <1>0. changeLog \in Seq(Envelope)
    BY DEF RelayTypeOK
  <1>1. CASE Replay(e)
    BY <1>0, <1>1, SMTT(30) DEF Replay, relayVars
  <1>2. CASE Reject(e)
    BY <1>0, <1>2, SMTT(30) DEF Upsert, Reject, RecordOutcome, Replayed
  <1>3. CASE Accept(e)
    <2>1. \A m \in DOMAIN outcome : m \in DOMAIN outcome' /\ outcome'[m] = outcome[m]
      BY <1>3 DEF Upsert, Accept, RecordOutcome, Replayed
    <2>2. changeLog' = Append(changeLog, e)
      BY <1>3 DEF Accept
    <2> QED BY <1>0, <2>1, <2>2, AppendEntries, SMTT(30)
  <1> QED BY <1>1, <1>2, <1>3 DEF PutRecord

\* Outcomes and log entries are final, whatever is written afterwards.
THEOREM RelayHistoryIsStable == RelaySpec => StableHistory
  <1>1. RelayTypeOK /\ [RelayNext]_relayVars =>
          [/\ \A m \in DOMAIN outcome :
                m \in DOMAIN outcome' /\ outcome'[m] = outcome[m]
           /\ Len(changeLog) <= Len(changeLog')
           /\ \A i \in 1..Len(changeLog) : changeLog'[i] = changeLog[i]]_relayVars
    BY PutRecordKeepsHistory DEF RelayNext
  <1>2. RelayInv => RelayTypeOK
    BY DEF RelayInv
  <1> QED BY RelayIsCorrect, <1>1, <1>2, PTL DEF RelaySpec, StableHistory

-----------------------------------------------------------------------------
(* The device's store. *)

\* Every head of t is the head s had or one of the envelopes in new.
HeadsFrom(s, t, new) ==
  /\ DOMAIN t.heads = DOMAIN s.heads \cup {e.record : e \in new}
  /\ \A r \in DOMAIN t.heads :
       HeadEnv(t, r) \in new \/ (r \in DOMAIN s.heads /\ t.heads[r] = s.heads[r])

\* The fields of a store, one by one.
LEMMA StoreFields ==
  ASSUME NEW h, NEW o, NEW c, NEW a
  PROVE  LET s == StoreOf(h, o, c, a)
         IN  s.heads = h /\ s.outbox = o /\ s.cursor = c /\ s.ancestors = a
  BY DEF StoreOf

\* What an envelope vouches for is a record and a digest.
LEMMA VouchesType ==
  ASSUME NEW e \in Envelope
  PROVE  Vouches(e) \subseteq Record \X Digest
  BY SMTT(30) DEF Vouches, Envelope

\* replaceHeadTx changes one head and nothing else the protocol reads.
LEMMA ReplaceHeadStore ==
  ASSUME NEW s, StoreOK(s), NEW e \in Envelope, NEW seq \in Nat
  PROVE  LET t == ReplaceHead(s, e, seq)
         IN  /\ StoreOK(t)
             /\ t.outbox = s.outbox
             /\ t.cursor = s.cursor
             /\ HeadsFrom(s, t, {e})
  <1> DEFINE t == ReplaceHead(s, e, seq)
             h == [r \in DOMAIN s.heads \cup {e.record} |->
                     IF r = e.record THEN [env |-> e, seq |-> seq] ELSE s.heads[r]]
  <1>2. /\ t.heads = h /\ t.outbox = s.outbox /\ t.cursor = s.cursor
        /\ t.ancestors = s.ancestors \cup Vouches(e)
    BY StoreFields, SMTT(30) DEF ReplaceHead, Upsert
  <1> HIDE DEF t
  <1>3. [env |-> e, seq |-> seq] \in Row /\ e.record \in Record
    BY DEF Row, Envelope
  <1>4. StoreOK(t)
    BY <1>2, <1>3, VouchesType, SMTT(30) DEF StoreOK
  <1>5. HeadsFrom(s, t, {e})
    BY <1>2, SMTT(30) DEF HeadsFrom, HeadEnv
  <1> QED BY <1>2, <1>4, <1>5 DEF t

\* enqueueOutboxTx adds the envelope unless its mutation is queued already.
LEMMA EnqueueStore ==
  ASSUME NEW s, StoreOK(s), NEW e \in Envelope
  PROVE  LET t == Enqueue(s, e)
         IN  /\ StoreOK(t)
             /\ t.outbox \subseteq s.outbox \cup {e}
             /\ s.outbox \subseteq t.outbox
             /\ \E f \in t.outbox : f.mutation = e.mutation
             /\ t.cursor = s.cursor
             /\ t.heads = s.heads
  <1>1. CASE \E f \in s.outbox : f.mutation = e.mutation
    BY <1>1 DEF Enqueue
  <1>2. CASE ~\E f \in s.outbox : f.mutation = e.mutation
    <2> DEFINE t == Enqueue(s, e)
    <2>2. /\ t.heads = s.heads /\ t.outbox = s.outbox \cup {e} /\ t.cursor = s.cursor
          /\ t.ancestors = s.ancestors
      BY <1>2, StoreFields, SMTT(30) DEF Enqueue
    <2> HIDE DEF t
    <2>3. StoreOK(t)
      BY <2>2 DEF StoreOK
    <2> QED BY <2>2, <2>3 DEF t
  <1> QED BY <1>1, <1>2

\* Dropping a row of the outbox by its mutation.
LEMMA DequeueStore ==
  ASSUME NEW s, StoreOK(s), NEW m
  PROVE  LET t == Dequeue(s, m)
         IN  /\ StoreOK(t)
             /\ t.outbox = {e \in s.outbox : e.mutation # m}
             /\ t.cursor = s.cursor
             /\ t.heads = s.heads
  <1> DEFINE t == Dequeue(s, m)
  <1>2. /\ t.heads = s.heads /\ t.outbox = {e \in s.outbox : e.mutation # m}
        /\ t.cursor = s.cursor /\ t.ancestors = s.ancestors
    BY StoreFields, SMTT(30) DEF Dequeue
  <1> HIDE DEF t
  <1>3. StoreOK(t)
    BY <1>2 DEF StoreOK
  <1> QED BY <1>2, <1>3 DEF t

\* putRecordTx either finds the head it was given or installs it.
LEMMA PutStore ==
  ASSUME NEW s, StoreOK(s), NEW e \in Envelope, NEW seq \in Nat
  PROVE  LET t == Put(s, e, seq)
         IN  /\ StoreOK(t)
             /\ t.outbox = s.outbox
             /\ t.cursor = s.cursor
             /\ \/ HeadsFrom(s, t, {e})
                \/ t.heads = s.heads /\ e.record \in DOMAIN s.heads
  BY ReplaceHeadStore DEF Put, HasHead

\* The heads of t are those of s, or e's record now has head e.
HeadsOrKept(s, t, e) ==
  /\ DOMAIN t.heads = DOMAIN s.heads \cup {e.record}
  /\ \A r \in DOMAIN t.heads :
       HeadEnv(t, r) = e \/ (r \in DOMAIN s.heads /\ t.heads[r] = s.heads[r])

\* ApplyLocal queues the write and makes it the head.
LEMMA ApplyLocalStore ==
  ASSUME NEW s, StoreOK(s), NEW e \in Envelope
  PROVE  LET t == ApplyLocal(s, e)
         IN  /\ StoreOK(t)
             /\ t.outbox \subseteq s.outbox \cup {e}
             /\ s.outbox \subseteq t.outbox
             /\ \E f \in t.outbox : f.mutation = e.mutation
             /\ t.cursor = s.cursor
             /\ HeadsOrKept(s, t, e)
  <1> DEFINE u == Enqueue(s, e)
             t == Put(u, e, 0)
  <1>1. /\ StoreOK(u) /\ u.cursor = s.cursor /\ u.heads = s.heads
        /\ u.outbox \subseteq s.outbox \cup {e} /\ s.outbox \subseteq u.outbox
        /\ \E f \in u.outbox : f.mutation = e.mutation
    BY EnqueueStore
  <1> HIDE DEF u
  <1>2. /\ StoreOK(t) /\ t.outbox = u.outbox /\ t.cursor = u.cursor
        /\ \/ HeadsFrom(u, t, {e})
           \/ t.heads = u.heads /\ e.record \in DOMAIN u.heads
    BY <1>1, PutStore
  <1> HIDE DEF t
  <1>3. HeadsOrKept(s, t, e)
    <2>1. CASE HeadsFrom(u, t, {e})
      BY <1>1, <2>1 DEF HeadsFrom, HeadsOrKept
    <2>2. CASE t.heads = u.heads /\ e.record \in DOMAIN u.heads
      BY <1>1, <2>2 DEF HeadsOrKept
    <2> QED BY <1>2, <2>1, <2>2
  <1> QED BY <1>1, <1>2, <1>3 DEF t, u, ApplyLocal

\* AcceptOutbox drops the candidate's row and makes it the head.
LEMMA AcceptOutboxStore ==
  ASSUME NEW s, StoreOK(s), NEW e \in Envelope, NEW seq \in Nat
  PROVE  LET t == AcceptOutbox(s, e, seq)
         IN  /\ StoreOK(t)
             /\ t.outbox = {f \in s.outbox : f.mutation # e.mutation}
             /\ t.cursor = s.cursor
             /\ HeadsFrom(s, t, {e})
  <1> DEFINE u == ReplaceHead(s, e, seq)
             t == Dequeue(u, e.mutation)
  <1>1. /\ StoreOK(u) /\ u.outbox = s.outbox /\ u.cursor = s.cursor
        /\ HeadsFrom(s, u, {e})
    BY ReplaceHeadStore
  <1> HIDE DEF u
  <1>2. /\ StoreOK(t) /\ t.heads = u.heads /\ t.cursor = u.cursor
        /\ t.outbox = {f \in u.outbox : f.mutation # e.mutation}
    BY <1>1, DequeueStore
  <1> HIDE DEF t
  <1>3. HeadsFrom(s, t, {e})
    BY <1>1, <1>2 DEF HeadsFrom, HeadEnv
  <1> QED BY <1>1, <1>2, <1>3 DEF t, u, AcceptOutbox

\* Supersede drops every row of the record and installs the relay's head.
LEMMA SupersedeStore ==
  ASSUME NEW s, StoreOK(s), NEW head \in Row
  PROVE  LET t == Supersede(s, head)
         IN  /\ StoreOK(t)
             /\ t.outbox = {f \in s.outbox : f.record # head.env.record}
             /\ t.cursor = s.cursor
             /\ HeadsFrom(s, t, {head.env})
  <1> DEFINE u == StoreOf(s.heads, s.outbox \ Queued(s, head.env.record), s.cursor, s.ancestors)
             t == ReplaceHead(u, head.env, head.seq)
  <1>2. /\ u.heads = s.heads /\ u.outbox = s.outbox \ Queued(s, head.env.record)
        /\ u.cursor = s.cursor /\ u.ancestors = s.ancestors
    BY StoreFields, SMTT(30)
  <1> HIDE DEF u
  <1>3. StoreOK(u)
    BY <1>2 DEF StoreOK, Queued
  <1>4. head.env \in Envelope /\ head.seq \in Nat
    BY DEF Row
  <1>5. /\ StoreOK(t) /\ t.outbox = u.outbox /\ t.cursor = u.cursor
        /\ HeadsFrom(u, t, {head.env})
    BY <1>3, <1>4, ReplaceHeadStore, Zenon
  <1> HIDE DEF t
  <1>6. HeadsFrom(s, t, {head.env})
    BY <1>2, <1>5 DEF HeadsFrom
  <1>7. t.outbox = {f \in s.outbox : f.record # head.env.record}
    BY <1>2, <1>5 DEF Queued
  <1> QED BY <1>2, <1>5, <1>6, <1>7, Zenon DEF t, u, Supersede

\* ResolveConflict queues the copy, drops the candidate and installs the head.
LEMMA ResolveConflictStore ==
  ASSUME NEW s, StoreOK(s), NEW candidate, NEW copy \in Envelope, NEW head \in Row
  PROVE  LET t == ResolveConflict(s, candidate, copy, head)
         IN  /\ StoreOK(t)
             /\ t.outbox \subseteq s.outbox \cup {copy}
             /\ {f \in s.outbox : f.mutation # candidate.mutation} \subseteq t.outbox
             /\ copy.mutation # candidate.mutation =>
                  \E f \in t.outbox : f.mutation = copy.mutation
             /\ t.cursor = s.cursor
             /\ HeadsFrom(s, t, {copy, head.env})
  <1> DEFINE u == ApplyLocal(s, copy)
             v == ReplaceHead(u, head.env, head.seq)
             t == Dequeue(v, candidate.mutation)
  <1>1. /\ StoreOK(u) /\ u.cursor = s.cursor /\ HeadsOrKept(s, u, copy)
        /\ u.outbox \subseteq s.outbox \cup {copy} /\ s.outbox \subseteq u.outbox
        /\ \E f \in u.outbox : f.mutation = copy.mutation
    BY ApplyLocalStore
  <1> HIDE DEF u
  <1>2. head.env \in Envelope /\ head.seq \in Nat
    BY DEF Row
  <1>3. /\ StoreOK(v) /\ v.outbox = u.outbox /\ v.cursor = u.cursor
        /\ HeadsFrom(u, v, {head.env})
    BY <1>1, <1>2, ReplaceHeadStore, Zenon
  <1> HIDE DEF v
  <1>4. /\ StoreOK(t) /\ t.heads = v.heads /\ t.cursor = v.cursor
        /\ t.outbox = {f \in v.outbox : f.mutation # candidate.mutation}
    BY <1>3, DequeueStore
  <1> HIDE DEF t
  <1>5. HeadsFrom(s, t, {copy, head.env})
    BY <1>1, <1>3, <1>4, SMTT(30) DEF HeadsFrom, HeadsOrKept, HeadEnv
  <1>6. /\ t.outbox \subseteq s.outbox \cup {copy}
        /\ {f \in s.outbox : f.mutation # candidate.mutation} \subseteq t.outbox
        /\ copy.mutation # candidate.mutation =>
             \E f \in t.outbox : f.mutation = copy.mutation
    BY <1>1, <1>3, <1>4
  <1> QED BY <1>1, <1>3, <1>4, <1>5, <1>6 DEF t, v, u, ResolveConflict

\* A set of positions of a list, not empty, has a last one.
LEMMA LastPosition ==
  ASSUME NEW n \in Nat, NEW S, S \subseteq 1..n, S # {}
  PROVE  Max(S) \in S /\ \A y \in S : Max(S) >= y
  <1> DEFINE T == {n - x : x \in S}
  <1>1. T \subseteq Nat /\ T # {}
    <2>1. \A x \in S : n - x \in Nat
      BY SMTT(30)
    <2>2. PICK x : x \in S
      OBVIOUS
    <2>3. n - x \in T
      BY <2>2
    <2> QED BY <2>1, <2>3
  <1> DEFINE R == OpToRel(<, Nat)
  <1>2. \A x, y \in Nat : x < y => <<x, y>> \in R
    BY DEF OpToRel
  <1>3. IsWellFoundedOn(R, Nat)
    BY NatLessThanWellFounded, Zenon
  <1> HIDE DEF R
  <1>4. PICK t \in T : \A u \in T : ~(<<u, t>> \in R)
    BY <1>1, <1>3, WFMin, Zenon
  <1>5. PICK x \in S : t = n - x
    OBVIOUS
  <1>6. ASSUME NEW y \in S PROVE x >= y
    <2>1. n - y \in T
      OBVIOUS
    <2>2. n - y \in Nat /\ t \in Nat
      BY <1>1, <2>1
    <2>3. ~(n - y < t)
      BY <1>2, <1>4, <2>1, <2>2, Zenon
    <2>4. x \in Nat /\ y \in Nat
      BY SMTT(30)
    <2> HIDE DEF T
    <2> QED BY <2>2, <2>3, <2>4, <1>5, SMTT(30)
  <1>7. \E z \in S : \A y \in S : z >= y
    BY <1>6
  <1> QED BY <1>7 DEF Max

\* The envelopes at a set of positions of a log.
EntriesAt(log, batch) == {log[i] : i \in batch}

PositionsOf(log, batch) ==
  \E n \in Nat : batch \subseteq 1..n /\ \A i \in batch : log[i] \in Envelope

\* ApplyRemoteBatch moves the cursor and installs heads out of the batch.
LEMMA ApplyRemoteBatchStore ==
  ASSUME NEW s, StoreOK(s), NEW log, NEW batch, PositionsOf(log, batch), NEW cursor \in Nat
  PROVE  LET t == ApplyRemoteBatch(s, log, batch, cursor)
         IN  /\ StoreOK(t)
             /\ t.outbox = s.outbox
             /\ t.cursor = cursor
             /\ HeadsFrom(s, t, EntriesAt(log, batch))
  <1> DEFINE t == ApplyRemoteBatch(s, log, batch, cursor)
             last(r) == Max(OfRecord(log, batch, r))
             touched == {log[i].record : i \in batch}
             kept(r) == HasHead(s, r) /\ Same(log[last(r)], HeadEnv(s, r))
             h == [r \in DOMAIN s.heads \cup touched |->
                     IF r \in touched /\ ~kept(r)
                     THEN [env |-> log[last(r)], seq |-> last(r)]
                     ELSE s.heads[r]]
             a == s.ancestors \cup UNION {Vouches(log[i]) : i \in batch}
  <1>0. PICK n \in Nat : batch \subseteq 1..n /\ \A i \in batch : log[i] \in Envelope
    BY DEF PositionsOf
  <1>1. t.heads = h /\ t.outbox = s.outbox /\ t.cursor = cursor /\ t.ancestors = a
    BY StoreFields, SMTT(30) DEF ApplyRemoteBatch
  <1> HIDE DEF t
  <1>2. \A i \in batch : log[i] \in Envelope /\ log[i].record \in Record
    <2>1. \A e \in Envelope : e.record \in Record
      BY DEF Envelope
    <2> QED BY <1>0, <2>1
  <1>3. a \subseteq Record \X Digest
    <2>1. \A i \in batch : Vouches(log[i]) \subseteq Record \X Digest
      BY <1>2, VouchesType
    <2> QED BY <2>1, SMTT(30) DEF StoreOK
  <1> HIDE DEF a
  <1>4. ASSUME NEW r \in touched
        PROVE  last(r) \in batch /\ log[last(r)].record = r
    <2>1. /\ OfRecord(log, batch, r) \subseteq 1..n
          /\ OfRecord(log, batch, r) # {}
      BY <1>0 DEF OfRecord
    <2>2. last(r) \in OfRecord(log, batch, r)
      BY <2>1, LastPosition
    <2> QED BY <2>2 DEF OfRecord
  <1> HIDE DEF last, kept
  <1>5. ASSUME NEW r \in DOMAIN h
        PROVE  \/ /\ h[r] \in Row /\ h[r].env.record = r
                  /\ h[r].env \in {log[i] : i \in batch}
               \/ r \in DOMAIN s.heads /\ h[r] = s.heads[r]
    <2>1. CASE r \in touched /\ ~kept(r)
      <3>1. h[r] = [env |-> log[last(r)], seq |-> last(r)]
        BY <2>1
      <3> HIDE DEF h, touched
      <3>2. PICK j \in batch : j = last(r) /\ log[j].record = r
        BY <1>4, <2>1
      <3>3. j \in Nat
        <4>1. j \in 1..n
          BY <1>0
        <4> QED BY <4>1, SMTT(30)
      <3>4. h[r] = [env |-> log[j], seq |-> j]
        BY <3>1, <3>2
      <3>5. h[r] \in Row
        BY <1>2, <3>3, <3>4, SMTT(30) DEF Row
      <3>6. h[r].env = log[j]
        BY <3>4, SMTT(30)
      <3> QED BY <3>2, <3>5, <3>6
    <2>2. CASE ~(r \in touched /\ ~kept(r))
      BY <2>2 DEF kept, HasHead
    <2> QED BY <2>1, <2>2
  <1>6. DOMAIN h = DOMAIN s.heads \cup touched /\ touched \subseteq Record
    BY <1>2
  <1> HIDE DEF h
  <1>7. StoreOK(t)
    BY <1>1, <1>3, <1>5, <1>6 DEF StoreOK
  <1>8. HeadsFrom(s, t, EntriesAt(log, batch))
    BY <1>1, <1>5, <1>6, SMTT(30) DEF HeadsFrom, HeadEnv, EntriesAt
  <1> QED BY <1>1, <1>7, <1>8 DEF t

-----------------------------------------------------------------------------
(* The sync. *)

Own(d) == {e \in sealed : Author(e) = d}

SealedInv ==
  /\ \A e, f \in sealed : e.mutation = f.mutation => e = f
  /\ \A e \in sealed :
       /\ Valid(e)
       /\ e.digest = e.mutation
       /\ e.mutation[2] <= minted[Author(e)]
       /\ IsConflictRecord(e) =>
            e.record[2] \in DOMAIN outcome /\ outcome[e.record[2]].accepted = 0
       /\ e.rev = 1 /\ e.mutation \in DOMAIN outcome => e.record \in DOMAIN recordHead
  /\ \A m \in DOMAIN outcome : outcome[m].digest = m /\ m[2] <= minted[m[1]]

Published(r, queue) ==
  r \in DOMAIN recordHead \/ \E f \in queue : f.record = r /\ f.rev = 1

StoreInv(d, s) ==
  /\ s.outbox \subseteq Own(d)
  /\ \A e \in s.outbox : Published(e.record, s.outbox)
  /\ \A r \in DOMAIN s.heads : HeadEnv(s, r) \in sealed /\ Published(r, s.outbox)
  /\ s.cursor <= CurrentSeq

HeldInv ==
  /\ \A i \in 1..Len(changeLog) : changeLog[i] \in sealed
  /\ late \subseteq sealed
  /\ \A d \in Device : StoreInv(d, store[d])

AnswerInv(e, reply) ==
  /\ reply.kind = "accepted" => InLog(e)
  /\ reply.kind = "rejected" =>
       e.mutation \in DOMAIN outcome /\ outcome[e.mutation].accepted = 0
  /\ reply.kind # "mismatch"
  /\ reply.kind # "accepted" => reply.head # {}
  /\ \A head \in reply.head : head.env.record = e.record /\ InLog(head.env)

MemoryInv(p, m) ==
  /\ m.pc \in {"push", "answered", "preserved"} =>
       /\ m.queue \subseteq Own(p[1])
       /\ \A e \in m.queue : Published(e.record, m.queue)
  /\ m.pc \in {"answered", "preserved"} =>
       /\ m.candidate \in Own(p[1])
       /\ m.candidate.record \in DOMAIN recordHead
  /\ m.pc = "answered" => AnswerInv(m.candidate, m.reply)
  /\ m.pc = "preserved" =>
       /\ ~IsConflictRecord(m.candidate)
       /\ m.copy \in Own(p[1])
       /\ m.copy.record = ConflictID(m.candidate)
       /\ m.head.env.record = m.candidate.record
       /\ InLog(m.head.env)
  /\ m.pc \in {"pull", "fetched", "filtered"} => m.through <= CurrentSeq
  /\ m.pc = "pull" => m.since <= CurrentSeq /\ (m.through = 0 \/ m.since <= m.through)
  /\ m.pc \in {"fetched", "filtered"} => m.next <= m.through
  /\ m.pc = "filtered" => m.batch \subseteq 1..m.next

SyncInv ==
  /\ TypeOK
  /\ RelayInv
  /\ SealedInv
  /\ HeldInv
  /\ \A p \in Process : MemoryInv(p, proc[p])
  /\ NoLostEdit

-----------------------------------------------------------------------------
(* History only grows, and what it supports stays supported. *)

Grows ==
  /\ sealed \subseteq sealed'
  /\ \A m \in DOMAIN outcome : m \in DOMAIN outcome' /\ outcome'[m] = outcome[m]
  /\ Len(changeLog) \in Nat /\ Len(changeLog') \in Nat
  /\ Len(changeLog) <= Len(changeLog')
  /\ \A i \in 1..Len(changeLog) : changeLog'[i] = changeLog[i]
  /\ DOMAIN recordHead \subseteq DOMAIN recordHead'

\* What NoLostEdit promises of e when its author's store is s.
Kept(e, s) ==
  \/ InLog(e)
  \/ e \in s.outbox
  \/ \E i \in 1..Len(changeLog) : changeLog[i].record = ConflictID(e)
  \/ \E f \in s.outbox : f.record = ConflictID(e)

\* A step that leaves the relay alone only adds to history.
LEMMA LocalStepGrows ==
  ASSUME RelayTypeOK, UNCHANGED relayVars, sealed \subseteq sealed'
  PROVE  Grows
  BY SMTT(30) DEF Grows, relayVars, RelayTypeOK

\* So does a write at the relay.
LEMMA RelayStepGrows ==
  ASSUME NEW e \in Envelope, RelayTypeOK, PutRecord(e), sealed \subseteq sealed'
  PROVE  Grows
  <1>1. /\ \A m \in DOMAIN outcome :
             m \in DOMAIN outcome' /\ outcome'[m] = outcome[m]
        /\ Len(changeLog) <= Len(changeLog')
        /\ \A i \in 1..Len(changeLog) : changeLog'[i] = changeLog[i]
    BY PutRecordKeepsHistory
  <1>2. DOMAIN recordHead \subseteq DOMAIN recordHead'
    BY DEF PutRecord, Replay, Reject, Accept, Upsert, relayVars
  <1>3. Len(changeLog) \in Nat /\ Len(changeLog') \in Nat
    BY SMTT(30) DEF RelayTypeOK, PutRecord, Replay, Reject, Accept, relayVars
  <1> QED BY <1>1, <1>2, <1>3 DEF Grows

\* What is in the log stays in it.
LEMMA InLogGrows ==
  ASSUME Grows, NEW e, InLog(e)
  PROVE  InLog(e)'
  BY SMTT(30) DEF Grows, InLog

\* A record stays published while its queue keeps the creation.
LEMMA PublishedGrows ==
  ASSUME Grows, NEW r, NEW queue, Published(r, queue)
  PROVE  Published(r, queue)'
  BY DEF Grows, Published

LEMMA OwnGrows ==
  ASSUME Grows, NEW d
  PROVE  Own(d) \subseteq Own(d)'
  BY DEF Grows, Own

\* A store that is not touched stays correct.
LEMMA StoreInvGrows ==
  ASSUME Grows, NEW d, NEW s, StoreOK(s), StoreInv(d, s)
  PROVE  StoreInv(d, s)'
  <1>1. /\ s.outbox \subseteq Own(d)'
        /\ \A e \in s.outbox : Published(e.record, s.outbox)'
        /\ \A r \in DOMAIN s.heads : Published(r, s.outbox)'
    BY OwnGrows, PublishedGrows DEF StoreInv
  <1>2. \A r \in DOMAIN s.heads : HeadEnv(s, r) \in sealed'
    BY DEF StoreInv, Grows
  <1>3. s.cursor <= CurrentSeq'
    <2>1. s.cursor \in Nat
      BY DEF StoreOK
    <2> QED BY <2>1, SMTT(30) DEF StoreInv, Grows, CurrentSeq
  <1> QED BY <1>1, <1>2, <1>3 DEF StoreInv, HeadEnv

\* An answer stays true however late it is read.
LEMMA AnswerGrows ==
  ASSUME Grows, NEW e, NEW reply, AnswerInv(e, reply)
  PROVE  AnswerInv(e, reply)'
  <1>1. \A head \in reply.head : InLog(head.env)'
    BY InLogGrows DEF AnswerInv
  <1>2. reply.kind = "accepted" => InLog(e)'
    BY InLogGrows DEF AnswerInv
  <1> QED BY <1>1, <1>2 DEF AnswerInv, Grows

\* A process that takes no step still holds what it should.
LEMMA MemoryGrows ==
  ASSUME Grows, NEW p, NEW m, ProcOK(m), MemoryInv(p, m)
  PROVE  MemoryInv(p, m)'
  <1>1. ASSUME m.pc \in {"push", "answered", "preserved"}
        PROVE  /\ m.queue \subseteq Own(p[1])'
               /\ \A e \in m.queue : Published(e.record, m.queue)'
    BY <1>1, OwnGrows, PublishedGrows DEF MemoryInv
  <1>2. ASSUME m.pc \in {"answered", "preserved"}
        PROVE  m.candidate \in Own(p[1])' /\ m.candidate.record \in DOMAIN recordHead'
    BY <1>2, OwnGrows DEF MemoryInv, Grows
  <1>3. m.pc = "answered" => AnswerInv(m.candidate, m.reply)'
    BY AnswerGrows DEF MemoryInv
  <1>4. m.pc = "preserved" =>
          /\ ~IsConflictRecord(m.candidate)
          /\ m.copy \in Own(p[1])'
          /\ m.copy.record = ConflictID(m.candidate)
          /\ m.head.env.record = m.candidate.record
          /\ InLog(m.head.env)'
    BY OwnGrows, InLogGrows DEF MemoryInv
  <1>5. m.pc \in {"pull", "fetched", "filtered"} => m.through <= CurrentSeq'
    BY SMTT(30) DEF MemoryInv, Grows, CurrentSeq, ProcOK, Idle
  <1>6. m.pc = "pull" =>
          m.since <= CurrentSeq' /\ (m.through = 0 \/ m.since <= m.through)
    BY SMTT(30) DEF MemoryInv, Grows, CurrentSeq, ProcOK, Idle
  <1>7. /\ m.pc \in {"fetched", "filtered"} => m.next <= m.through
        /\ m.pc = "filtered" => m.batch \subseteq 1..m.next
    BY DEF MemoryInv
  <1> QED BY <1>1, <1>2, <1>3, <1>4, <1>5, <1>6, <1>7 DEF MemoryInv, IsConflictRecord, ConflictID

\* A write that is kept stays kept while the outbox loses nothing.
LEMMA KeptGrows ==
  ASSUME Grows, NEW e, NEW s, NEW t, Kept(e, s), s.outbox \subseteq t.outbox
  PROVE  Kept(e, t)'
  <1>1. InLog(e) => InLog(e)'
    BY InLogGrows
  <1>2. (\E i \in 1..Len(changeLog) : changeLog[i].record = ConflictID(e)) =>
          \E i \in 1..Len(changeLog') : changeLog'[i].record = ConflictID(e)
    BY SMTT(30) DEF Grows
  <1> QED BY <1>1, <1>2 DEF Kept, ConflictID

-----------------------------------------------------------------------------
(***************************************************************************)
(* Every step replaces at most one store and one process memory.  It keeps *)
(* SyncInv when it only adds to history, when the new store and the new    *)
(* memory are correct, and when the stepping device still keeps its own    *)
(* writes; everybody else's follow from history growing.                   *)
(***************************************************************************)
LEMMA StepKeepsInv ==
  ASSUME SyncInv, Grows, RelayInv', SealedInv',
         NEW d \in Device, NEW s, StoreOK(s), StoreInv(d, s)',
         store' = [store EXCEPT ![d] = s],
         proc' = [q \in Process |-> proc'[q]],
         \A q \in Process : ProcOK(proc'[q]) /\ MemoryInv(q, proc[q])',
         \A i \in 1..Len(changeLog') : changeLog'[i] \in sealed',
         late' \subseteq sealed', sealed' \subseteq Envelope,
         minted' \in [Device -> 0..MaxMutation], faults' \in 0..MaxFaults,
         \A e \in sealed' \ sealed : Author(e) = d,
         \A e \in sealed' : Author(e) = d /\ ~IsConflictRecord(e) => Kept(e, s)'
  PROVE  SyncInv'
  <1>1. /\ store = [c \in Device |-> store[c]]
        /\ \A c \in Device : StoreOK(store[c]) /\ StoreInv(c, store[c])
    BY DEF SyncInv, TypeOK, HeldInv
  <1>2. /\ store' = [c \in Device |-> store'[c]]
        /\ store'[d] = s
        /\ \A c \in Device : c # d => store'[c] = store[c]
    <2>1. store' = [c \in Device |-> IF c = d THEN s ELSE store[c]]
      BY <1>1
    <2> QED BY <2>1, Zenon
  <1>3. \A c \in Device : StoreOK(store'[c])
    BY <1>1, <1>2
  <1>4. ASSUME NEW c \in Device PROVE StoreInv(c, store[c])'
    <2>1. CASE c = d
      BY <1>2, <2>1
    <2>2. CASE c # d
      <3>1. PICK t : t = store[c]
        OBVIOUS
      <3>2. StoreInv(c, t)'
        BY <1>1, <3>1, StoreInvGrows
      <3> QED BY <1>2, <2>2, <3>1, <3>2
    <2> QED BY <2>1, <2>2
  <1>5. TypeOK'
    <2>1. RelayTypeOK'
      BY DEF RelayInv
    <2> QED BY <1>2, <1>3, <2>1 DEF TypeOK, Process
  <1>6. HeldInv'
    BY <1>4 DEF HeldInv
  <1>7. NoLostEdit'
    <2> SUFFICES ASSUME NEW e \in sealed', ~IsConflictRecord(e)
                 PROVE  Kept(e, store[Author(e)])'
      BY DEF NoLostEdit, Edits, Kept, KeptAside, IsConflictRecord
    <2>1. CASE Author(e) = d
      BY <1>2, <2>1
    <2>2. CASE Author(e) # d
      <3>1. e \in sealed /\ e \in Envelope
        BY <2>2
      <3>2. Author(e) \in Device
        BY <3>1, SyncConstants DEF Author, Envelope
      <3>3. PICK t : t = store[Author(e)]
        OBVIOUS
      <3>4. Kept(e, t)
        BY <3>1, <3>3 DEF SyncInv, NoLostEdit, Edits, Kept, KeptAside
      <3>5. Kept(e, t)'
        BY <3>4, KeptGrows
      <3> QED BY <1>2, <2>2, <3>2, <3>3, <3>5
    <2> QED BY <2>1, <2>2
  <1> QED BY <1>5, <1>6, <1>7 DEF SyncInv, Process

\* The memories after a step of process p.
LEMMA ProcessStep ==
  ASSUME SyncInv, Grows, NEW p \in Process, NEW m, Become(p, m), ProcOK(m),
         MemoryInv(p, m)'
  PROVE  /\ proc' = [q \in Process |-> proc'[q]]
         /\ \A q \in Process : ProcOK(proc'[q]) /\ MemoryInv(q, proc[q])'
  <1>1. /\ proc = [q \in Process |-> proc[q]]
        /\ \A q \in Process : ProcOK(proc[q]) /\ MemoryInv(q, proc[q])
    BY DEF SyncInv, TypeOK
  <1>2. proc' = [q \in Process |-> IF q = p THEN m ELSE proc[q]]
    BY <1>1 DEF Become
  <1>3. ASSUME NEW q \in Process
        PROVE  ProcOK(proc'[q]) /\ MemoryInv(q, proc[q])'
    <2>1. CASE q = p
      BY <1>2, <2>1
    <2>2. CASE q # p
      <3>1. PICK n : n = proc[q]
        OBVIOUS
      <3>2. MemoryInv(q, n)'
        BY <1>1, <3>1, MemoryGrows
      <3> QED BY <1>1, <1>2, <2>2, <3>1, <3>2
    <2> QED BY <2>1, <2>2
  <1> QED BY <1>2, <1>3

\* ... and after a step of no process.
LEMMA NoProcessStep ==
  ASSUME SyncInv, Grows, UNCHANGED proc
  PROVE  /\ proc' = [q \in Process |-> proc'[q]]
         /\ \A q \in Process : ProcOK(proc'[q]) /\ MemoryInv(q, proc[q])'
  <1>1. /\ proc = [q \in Process |-> proc[q]]
        /\ \A q \in Process : ProcOK(proc[q]) /\ MemoryInv(q, proc[q])
    BY DEF SyncInv, TypeOK
  <1>2. ASSUME NEW q \in Process PROVE MemoryInv(q, proc[q])'
    <2>1. PICK n : n = proc[q]
      OBVIOUS
    <2>2. MemoryInv(q, n)'
      BY <1>1, <2>1, MemoryGrows
    <2> QED BY <2>1, <2>2
  <1> QED BY <1>1, <1>2

-----------------------------------------------------------------------------
(* Steps that seal nothing and leave the relay alone. *)

\* What the sealed envelopes satisfy depends on nothing else.
LEMMA SealedInvKept ==
  ASSUME SealedInv, UNCHANGED <<relayVars, minted, sealed>>
  PROVE  SealedInv'
  BY DEF SealedInv, relayVars, Author, IsConflictRecord, Valid

\* A transaction of process p on its device's store, then a new memory.
LEMMA SettleStep ==
  ASSUME SyncInv, NEW p \in Process, NEW m, Become(p, m), ProcOK(m), MemoryInv(p, m),
         NEW s, Commit(p, s), StoreOK(s), StoreInv(p[1], s),
         late' \subseteq sealed, faults' \in 0..MaxFaults,
         UNCHANGED <<relayVars, minted, sealed>>,
         \A e \in Edits : Author(e) = p[1] /\ Kept(e, store[p[1]]) => Kept(e, s)
  PROVE  SyncInv'
  <1>1. PICK d \in Device : d = p[1]
    BY DEF Process
  <1>2. Grows /\ RelayInv' /\ SealedInv'
    BY LocalStepGrows, StutterKeepsInv, SealedInvKept DEF SyncInv, RelayInv
  <1>3. MemoryInv(p, m)'
    BY <1>2, MemoryGrows
  <1>4. /\ proc' = [q \in Process |-> proc'[q]]
        /\ \A q \in Process : ProcOK(proc'[q]) /\ MemoryInv(q, proc[q])'
    BY <1>2, <1>3, ProcessStep
  <1>5. StoreInv(d, s)'
    BY <1>1, <1>2, StoreInvGrows
  <1>6. store' = [store EXCEPT ![d] = s]
    BY <1>1 DEF Commit
  <1>7. /\ \A i \in 1..Len(changeLog') : changeLog'[i] \in sealed'
        /\ sealed' \subseteq Envelope
        /\ minted' \in [Device -> 0..MaxMutation]
        /\ late' \subseteq sealed'
        /\ \A e \in sealed' \ sealed : Author(e) = d
    BY DEF SyncInv, HeldInv, TypeOK, relayVars
  <1>8. ASSUME NEW e \in sealed', Author(e) = d, ~IsConflictRecord(e)
        PROVE  Kept(e, s)'
    <2>1. e \in Edits
      BY <1>8 DEF Edits
    <2>2. Kept(e, store[d])
      BY <1>8, <2>1 DEF SyncInv, NoLostEdit, Kept, KeptAside
    <2>3. Kept(e, s)
      BY <1>1, <1>8, <2>1, <2>2
    <2> QED BY <1>2, <2>3, KeptGrows
  <1> QED BY <1>2, <1>4, <1>5, <1>6, <1>7, <1>8, StepKeepsInv, Zenon

\* A step of process p that only changes what it remembers.
LEMMA QuietStep ==
  ASSUME SyncInv, NEW p \in Process, NEW m, Become(p, m), ProcOK(m), MemoryInv(p, m),
         late' \subseteq sealed, faults' \in 0..MaxFaults,
         UNCHANGED <<relayVars, store, minted, sealed>>
  PROVE  SyncInv'
  <1>1. PICK s : s = store[p[1]]
    OBVIOUS
  <1>2. StoreOK(s) /\ StoreInv(p[1], s)
    BY <1>1 DEF Process, SyncInv, HeldInv, TypeOK
  <1>3. Commit(p, s)
    BY <1>1 DEF Process, SyncInv, TypeOK, Commit
  <1> QED BY <1>1, <1>2, <1>3, SettleStep

\* Idle remembers nothing.
LEMMA IdleMemory ==
  ASSUME NEW p
  PROVE  ProcOK(Idle) /\ MemoryInv(p, Idle)
  BY DEF ProcOK, MemoryInv, Idle

-----------------------------------------------------------------------------

\* What a process knows of its device when it settles.
LEMMA SettlingState ==
  ASSUME SyncInv, NEW p \in Process, NEW m, m = proc[p], NEW s, s = store[p[1]],
         m.pc \in {"answered", "preserved"}
  PROVE  /\ ProcOK(m) /\ MemoryInv(p, m) /\ StoreOK(s) /\ StoreInv(p[1], s)
         /\ m.candidate \in sealed /\ m.candidate \in Envelope
         /\ m.candidate.record \in DOMAIN recordHead
         /\ ProcOK(Pushing(m.queue)) /\ MemoryInv(p, Pushing(m.queue))
         /\ \A f \in s.outbox : f \in sealed /\ (f.mutation = m.candidate.mutation => f = m.candidate)
  <1>1. ProcOK(m) /\ MemoryInv(p, m) /\ StoreOK(s) /\ StoreInv(p[1], s)
    BY DEF SyncInv, TypeOK, HeldInv, Process
  <1>2. /\ m.candidate \in sealed /\ m.candidate \in Envelope
        /\ m.candidate.record \in DOMAIN recordHead
    BY <1>1 DEF MemoryInv, Own, SyncInv, TypeOK
  <1>3. /\ m.queue \subseteq Own(p[1]) /\ m.queue \subseteq Envelope
        /\ \A e \in m.queue : Published(e.record, m.queue)
    BY <1>1 DEF MemoryInv, Own, SyncInv, TypeOK
  <1>4. ProcOK(Pushing(m.queue)) /\ MemoryInv(p, Pushing(m.queue))
    BY <1>3 DEF ProcOK, MemoryInv, Pushing
  <1>5. \A f \in s.outbox : f \in sealed /\ (f.mutation = m.candidate.mutation => f = m.candidate)
    BY <1>1, <1>2 DEF StoreInv, Own, SyncInv, SealedInv
  <1> QED BY <1>1, <1>2, <1>4, <1>5

\* What a device remembers of an answer, and of a conflict it preserves.
LEMMA AnsweredMemory ==
  ASSUME NEW p, NEW m, ProcOK(m), MemoryInv(p, m), m.pc = "answered"
  PROVE  ReplyOK(m.reply) /\ AnswerInv(m.candidate, m.reply)
  <1>1. m # Idle
    BY SMTT(30) DEF Idle
  <1>2. ReplyOK(m.reply)
    BY <1>1 DEF ProcOK
  <1>3. AnswerInv(m.candidate, m.reply)
    BY DEF MemoryInv
  <1> QED BY <1>2, <1>3

LEMMA PreservedMemory ==
  ASSUME NEW p, NEW m, ProcOK(m), MemoryInv(p, m), m.pc = "preserved"
  PROVE  /\ m.copy \in Envelope /\ m.head \in Row /\ m.copy \in Own(p[1])
         /\ ~IsConflictRecord(m.candidate) /\ m.copy.record = ConflictID(m.candidate)
         /\ m.head.env.record = m.candidate.record /\ InLog(m.head.env)
  <1>1. m # Idle
    BY SMTT(30) DEF Idle
  <1>2. m.copy \in Envelope /\ m.head \in Row
    BY <1>1 DEF ProcOK
  <1> QED BY <1>2 DEF MemoryInv

\* The record of a preserved copy is no user's record.
LEMMA ConflictIDType ==
  ASSUME NEW e \in Envelope, ~IsConflictRecord(e)
  PROVE  /\ e.record \in Base
         /\ ConflictID(e) \in Base \X Mutation
         /\ ConflictID(e) \notin Base
         /\ ConflictID(e)[2] = e.mutation
  BY SyncConstants, SMTT(30) DEF Envelope, IsConflictRecord, ConflictID

-----------------------------------------------------------------------------
(* Sealing new envelopes. *)

\* e is an envelope device d may seal now, under one of its next mutations.
Sealable(d, e) ==
  /\ e \in Envelope
  /\ Valid(e)
  /\ e.digest = e.mutation
  /\ e.mutation[1] = d
  /\ e.mutation[2] \in Nat
  /\ minted[d] < e.mutation[2]
  /\ IsConflictRecord(e) =>
       e.record[2] \in DOMAIN outcome /\ outcome[e.record[2]].accepted = 0

\* Sealing under new mutations keeps what is known of history.
LEMMA SealingKeepsHistory ==
  ASSUME SyncInv, NEW d \in Device, NEW new, UNCHANGED relayVars,
         sealed' = sealed \cup new,
         \A e \in new : Sealable(d, e) /\ e.mutation[2] <= minted'[d],
         \A e, f \in new : e.mutation = f.mutation => e = f,
         minted' \in [Device -> 0..MaxMutation],
         \A c \in Device : minted[c] <= minted'[c]
  PROVE  /\ Grows /\ RelayInv' /\ SealedInv'
         /\ \A i \in 1..Len(changeLog') : changeLog'[i] \in sealed'
         /\ sealed' \subseteq Envelope
         /\ \A e \in sealed' \ sealed : Author(e) = d
  <1>1. Grows /\ RelayInv'
    BY LocalStepGrows, StutterKeepsInv DEF SyncInv, RelayInv
  <1>2. /\ \A i \in 1..Len(changeLog') : changeLog'[i] \in sealed'
        /\ sealed' \subseteq Envelope
        /\ \A e \in sealed' \ sealed : Author(e) = d
    BY DEF SyncInv, TypeOK, HeldInv, Sealable, Author, relayVars
  <1>3. minted \in [Device -> 0..MaxMutation] /\ MaxMutation \in Nat
    BY SyncConstants DEF SyncInv, TypeOK
  <1>4. \A m \in Mutation : m[1] \in Device /\ m[2] \in Nat
    BY SyncConstants, SMTT(30)
  <1>5. \A e \in sealed : /\ e.mutation \in Mutation
                          /\ e.mutation[2] <= minted[e.mutation[1]]
    BY DEF SyncInv, TypeOK, SealedInv, Author, Envelope
  <1>6. \A m \in DOMAIN outcome : /\ m \in Mutation /\ outcome[m].digest = m
                                  /\ m[2] <= minted[m[1]]
    BY DEF SyncInv, TypeOK, RelayTypeOK, SealedInv
  <1>7. \A e \in new : /\ e.mutation \notin DOMAIN outcome
                       /\ \A f \in sealed : e.mutation # f.mutation
    BY <1>3, <1>4, <1>5, <1>6, SMTT(30) DEF Sealable
  <1>8. \A m \in Mutation : m[2] <= minted[m[1]] => m[2] <= minted'[m[1]]
    BY <1>3, <1>4, SMTT(30)
  <1>9. SealedInv'
    <2>1. \A e, f \in sealed' : e.mutation = f.mutation => e = f
      BY <1>7, SMTT(30) DEF SyncInv, SealedInv
    <2>2. \A m \in DOMAIN outcome' : outcome'[m].digest = m /\ m[2] <= minted'[m[1]]
      BY <1>6, <1>8 DEF relayVars
    <2>3. ASSUME NEW e \in sealed'
          PROVE  /\ Valid(e) /\ e.digest = e.mutation
                 /\ e.mutation[2] <= minted'[e.mutation[1]]
                 /\ IsConflictRecord(e) =>
                      e.record[2] \in DOMAIN outcome /\ outcome[e.record[2]].accepted = 0
                 /\ e.rev = 1 /\ e.mutation \in DOMAIN outcome =>
                      e.record \in DOMAIN recordHead
      <3>1. CASE e \in sealed
        BY <1>5, <1>8, <3>1 DEF SyncInv, SealedInv
      <3>2. CASE e \in new
        BY <1>7, <3>2 DEF Sealable
      <3> QED BY <3>1, <3>2
    <2> QED BY <2>1, <2>2, <2>3 DEF SealedInv, Valid, Author, IsConflictRecord, relayVars
  <1> QED BY <1>1, <1>2, <1>9

\* Sealing keeps SyncInv when users' new writes are queued with it.
LEMMA SealingKeepsInv ==
  ASSUME SyncInv, NEW d \in Device, NEW new, UNCHANGED <<relayVars, late, faults>>,
         sealed' = sealed \cup new,
         \A e \in new : Sealable(d, e) /\ e.mutation[2] <= minted'[d],
         \A e, f \in new : e.mutation = f.mutation => e = f,
         minted' \in [Device -> 0..MaxMutation],
         \A c \in Device : minted[c] <= minted'[c],
         NEW t, store' = [store EXCEPT ![d] = t], StoreOK(t), StoreInv(d, t)',
         store[d].outbox \subseteq t.outbox,
         \A e \in new : IsConflictRecord(e) \/ e \in t.outbox,
         proc' = [q \in Process |-> proc'[q]],
         \A q \in Process : ProcOK(proc'[q]) /\ MemoryInv(q, proc[q])'
  PROVE  SyncInv'
  <1>1. /\ Grows /\ RelayInv' /\ SealedInv'
        /\ \A i \in 1..Len(changeLog') : changeLog'[i] \in sealed'
        /\ sealed' \subseteq Envelope
        /\ \A e \in sealed' \ sealed : Author(e) = d
    BY SealingKeepsHistory, Zenon
  <1>2. late' \subseteq sealed' /\ faults' \in 0..MaxFaults
    BY DEF SyncInv, TypeOK, HeldInv
  <1>3. PICK s : s = store[d]
    OBVIOUS
  <1>4. ASSUME NEW e \in sealed', Author(e) = d, ~IsConflictRecord(e)
        PROVE  Kept(e, t)'
    <2>1. CASE e \in sealed
      <3>1. Kept(e, s)
        BY <1>3, <1>4, <2>1 DEF SyncInv, NoLostEdit, Edits, Kept, KeptAside
      <3>2. s.outbox \subseteq t.outbox
        BY <1>3
      <3> QED BY <1>1, <3>1, <3>2, KeptGrows
    <2>2. CASE e \in new
      BY <1>4, <2>2 DEF Kept
    <2> QED BY <2>1, <2>2
  <1> QED BY <1>1, <1>2, <1>4, StepKeepsInv, Zenon

\* The next mutations of a device are new and within bounds.
LEMMA FreshMutation ==
  ASSUME SyncInv, NEW d \in Device, NEW k \in Nat \ {0}, minted[d] + k <= MaxMutation
  PROVE  /\ Fresh(d, k) \in Mutation
         /\ Fresh(d, k)[1] = d
         /\ Fresh(d, k)[2] = minted[d] + k
         /\ Fresh(d, k)[2] \in Nat
         /\ minted[d] < Fresh(d, k)[2]
  <1>1. minted[d] \in Nat /\ MaxMutation \in Nat
    BY SyncConstants, SMTT(30) DEF SyncInv, TypeOK
  <1> QED BY <1>1, SyncConstants, SMTT(30) DEF Fresh

\* e is the first envelope of r, sealed by d with its k-th next mutation.
Creating(d, e, k, r) ==
  /\ k \in Nat \ {0} /\ minted[d] + k <= MaxMutation
  /\ r \in Record
  /\ r \notin Base => r[2] \in DOMAIN outcome /\ outcome[r[2]].accepted = 0
  /\ \E payload \in BOOLEAN : e = Create(r, Fresh(d, k), payload)

\* e is the envelope after d's head of r, sealed by d with its k-th next mutation.
Updating(d, e, k, r) ==
  /\ k \in Nat \ {0} /\ minted[d] + k <= MaxMutation
  /\ CanGrow(store[d], r)
  /\ \E deleted \in BOOLEAN, payload \in BOOLEAN :
       e = Update(store[d], r, Fresh(d, k), deleted, payload)

\* A new record's first envelope.
LEMMA CreateIsSealable ==
  ASSUME SyncInv, NEW d \in Device, NEW e, NEW k, NEW r, Creating(d, e, k, r)
  PROVE  /\ Sealable(d, e)
         /\ e.mutation = Fresh(d, k) /\ e.record = r /\ e.rev = 1
  <1>a. /\ k \in Nat \ {0} /\ minted[d] + k <= MaxMutation /\ r \in Record
        /\ r \notin Base => r[2] \in DOMAIN outcome /\ outcome[r[2]].accepted = 0
    BY DEF Creating
  <1>b. PICK payload \in BOOLEAN : e = Create(r, Fresh(d, k), payload)
    BY DEF Creating
  <1>c. /\ Fresh(d, k) \in Mutation
        /\ Fresh(d, k)[1] = d /\ Fresh(d, k)[2] = minted[d] + k
        /\ Fresh(d, k)[2] \in Nat /\ minted[d] < Fresh(d, k)[2]
    BY <1>a, FreshMutation
  <1>1. PICK m \in Mutation : m = Fresh(d, k)
    BY <1>c
  <1>2. /\ e.record = r /\ e.rev = 1 /\ e.parent = NoDigest /\ e.mutation = m
        /\ e.digest = m
    BY <1>b, <1>1 DEF Create
  <1>3. e \in Envelope
    BY <1>a, <1>b, <1>1, SyncConstants, EnvelopeConstants, SMTT(30) DEF Create, Envelope
  <1> QED BY <1>a, <1>c, <1>1, <1>2, <1>3, SMTT(30) DEF Sealable, Valid, IsConflictRecord

\* The envelope after a stored head.
LEMMA UpdateIsSealable ==
  ASSUME SyncInv, NEW d \in Device, NEW e, NEW k, NEW r, Updating(d, e, k, r)
  PROVE  /\ Sealable(d, e)
         /\ e.mutation = Fresh(d, k) /\ e.record = r
         /\ r \in Record /\ r \in DOMAIN store[d].heads
  <1>a. k \in Nat \ {0} /\ minted[d] + k <= MaxMutation /\ CanGrow(store[d], r)
    BY DEF Updating
  <1>b. PICK deleted \in BOOLEAN, payload \in BOOLEAN :
          e = Update(store[d], r, Fresh(d, k), deleted, payload)
    BY DEF Updating
  <1>c. /\ Fresh(d, k) \in Mutation
        /\ Fresh(d, k)[1] = d /\ Fresh(d, k)[2] = minted[d] + k
        /\ Fresh(d, k)[2] \in Nat /\ minted[d] < Fresh(d, k)[2]
    BY <1>a, FreshMutation
  <1>1. PICK m \in Mutation : m = Fresh(d, k)
    BY <1>c
  <1>2. PICK s, h : s = store[d] /\ h = HeadEnv(s, r)
    OBVIOUS
  <1>3. StoreOK(s) /\ StoreInv(d, s) /\ r \in DOMAIN s.heads /\ h.rev < MaxRev
    BY <1>a, <1>2 DEF SyncInv, TypeOK, HeldInv, CanGrow, HasHead
  <1>4. h \in Envelope /\ h \in sealed /\ h.record = r /\ r \in Record
    BY <1>2, <1>3 DEF StoreOK, StoreInv, Row, HeadEnv
  <1>5. h.rev \in Nat /\ h.rev >= 1 /\ h.digest \in Digest /\ h.rev + 1 \in 1..MaxRev
    BY <1>3, <1>4, EnvelopeConstants, SMTT(30) DEF Envelope
  <1>6. /\ e.record = r /\ e.rev = h.rev + 1 /\ e.parent = h.digest /\ e.mutation = m
        /\ e.digest = m
    BY <1>b, <1>1, <1>2 DEF Update
  <1>7. e \in Envelope
    BY <1>b, <1>1, <1>2, <1>4, <1>5, SyncConstants DEF Update, Envelope
  <1>8. Valid(e)
    BY <1>5, <1>6, EnvelopeConstants, SMTT(30) DEF Valid
  <1>9. IsConflictRecord(e) =>
          e.record[2] \in DOMAIN outcome /\ outcome[e.record[2]].accepted = 0
    BY <1>4, <1>6, SMTT(30) DEF SyncInv, SealedInv, IsConflictRecord
  <1> QED BY <1>c, <1>1, <1>2, <1>3, <1>4, <1>6, <1>7, <1>8, <1>9, SMTT(30) DEF Sealable

-----------------------------------------------------------------------------
(* The engine's steps that leave the device's store alone. *)

\* Reading the outbox, and starting the pull.
LEMMA BeginSyncKeepsInv ==
  ASSUME SyncInv, NEW p \in Process, BeginSync(p)
  PROVE  SyncInv'
  <1>1. PICK q : q = store[p[1]].outbox
    OBVIOUS
  <1>2. q \subseteq Envelope /\ q \subseteq Own(p[1]) /\ \A e \in q : Published(e.record, q)
    BY <1>1 DEF SyncInv, HeldInv, StoreInv, TypeOK, StoreOK, Process
  <1>3. ProcOK(Pushing(q)) /\ MemoryInv(p, Pushing(q))
    BY <1>2 DEF ProcOK, MemoryInv, Pushing
  <1>4. Become(p, Pushing(q)) /\ late' \subseteq sealed /\ faults' \in 0..MaxFaults
        /\ UNCHANGED <<relayVars, store, minted, sealed>>
    BY <1>1 DEF BeginSync, SyncInv, HeldInv, TypeOK
  <1> QED BY <1>3, <1>4, QuietStep

LEMMA BeginPullKeepsInv ==
  ASSUME SyncInv, NEW p \in Process, BeginPull(p)
  PROVE  SyncInv'
  <1>1. PICK c : c = store[p[1]].cursor
    OBVIOUS
  <1>2. c \in Nat /\ c <= CurrentSeq /\ CurrentSeq \in Nat
    BY <1>1, SMTT(30) DEF SyncInv, HeldInv, StoreInv, TypeOK, StoreOK, Process, RelayTypeOK, CurrentSeq
  <1>3. ProcOK(Pulling(c, 0)) /\ MemoryInv(p, Pulling(c, 0))
    BY <1>2, SMTT(30) DEF ProcOK, MemoryInv, Pulling
  <1>4. Become(p, Pulling(c, 0)) /\ late' \subseteq sealed /\ faults' \in 0..MaxFaults
        /\ UNCHANGED <<relayVars, store, minted, sealed>>
    BY <1>1 DEF BeginPull, SyncInv, HeldInv, TypeOK
  <1> QED BY <1>3, <1>4, QuietStep

\* The steps of the pull, and the ends of a sync.
LEMMA FetchPageKeepsInv ==
  ASSUME SyncInv, NEW p \in Process, FetchPage(p)
  PROVE  SyncInv'
  <1>1. PICK m : m = proc[p]
    OBVIOUS
  <1>2. m.pc = "pull" /\ ProcOK(m) /\ MemoryInv(p, m)
    BY <1>1 DEF FetchPage, At, SyncInv, TypeOK
  <1>3. m.since \in Nat /\ m.through \in Nat /\ CurrentSeq \in Nat
    BY <1>2, SMTT(30) DEF ProcOK, Idle, SyncInv, TypeOK, RelayTypeOK, CurrentSeq
  <1>4. /\ m.through <= CurrentSeq /\ m.since <= CurrentSeq
        /\ m.through = 0 \/ m.since <= m.through
    BY <1>2 DEF MemoryInv
  <1>5. PICK through \in Nat : through = IF m.through = 0 THEN CurrentSeq ELSE m.through
    BY <1>3
  <1>6. PICK next \in PageEnds(m.since, through, PageLimit) :
          Become(p, Fetched(m.since, through, next))
    BY <1>1, <1>5 DEF FetchPage
  <1>7. next \in Nat /\ next <= through /\ through <= CurrentSeq
    BY <1>3, <1>4, <1>5, SMTT(30) DEF PageEnds
  <1>8. /\ ProcOK(Fetched(m.since, through, next))
        /\ MemoryInv(p, Fetched(m.since, through, next))
    BY <1>3, <1>7 DEF ProcOK, MemoryInv, Fetched
  <1>9. late' \subseteq sealed /\ faults' \in 0..MaxFaults
        /\ UNCHANGED <<relayVars, store, minted, sealed>>
    BY DEF FetchPage, SyncInv, HeldInv, TypeOK
  <1> QED BY <1>6, <1>8, <1>9, QuietStep

LEMMA CheckPageKeepsInv ==
  ASSUME SyncInv, NEW p \in Process, CheckPage(p)
  PROVE  SyncInv'
  <1>1. PICK m : m = proc[p]
    OBVIOUS
  <1>2. m.pc = "fetched" /\ ProcOK(m) /\ MemoryInv(p, m)
    BY <1>1 DEF CheckPage, At, SyncInv, TypeOK
  <1>3. m.since \in Nat /\ m.through \in Nat /\ m.next \in Nat
    BY <1>2, SMTT(30) DEF ProcOK, Idle
  <1>4. m.next <= m.through /\ m.through <= CurrentSeq
    BY <1>2 DEF MemoryInv
  <1>5. late' \subseteq sealed /\ faults' \in 0..MaxFaults
        /\ UNCHANGED <<relayVars, store, minted, sealed>>
    BY DEF CheckPage, SyncInv, HeldInv, TypeOK
  <1>6. PICK batch :
          batch = {i \in m.since + 1 .. m.next : Ahead(store[p[1]], changeLog[i])}
    BY Zenon
  <1>7. batch \subseteq Nat /\ batch \subseteq 1..m.next
    BY <1>3, <1>6, SMTT(30)
  <1>8. /\ ProcOK(Filtered(m.through, m.next, batch))
        /\ MemoryInv(p, Filtered(m.through, m.next, batch))
    BY <1>3, <1>4, <1>7 DEF ProcOK, MemoryInv, Filtered
  <1>9. Become(p, Idle) \/ Become(p, Filtered(m.through, m.next, batch))
    BY <1>1, <1>6 DEF CheckPage
  <1> QED BY <1>5, <1>8, <1>9, IdleMemory, QuietStep

LEMMA StopKeepsInv ==
  ASSUME SyncInv, NEW p \in Process, Stop(p)
  PROVE  SyncInv'
  <1>1. Become(p, Idle) /\ late' \subseteq sealed /\ faults' \in 0..MaxFaults
        /\ UNCHANGED <<relayVars, store, minted, sealed>>
    BY SyncConstants, SMTT(30) DEF Stop, SyncInv, HeldInv, TypeOK
  <1> QED BY <1>1, IdleMemory, QuietStep

LEMMA GiveUpKeepsInv ==
  ASSUME SyncInv, NEW p \in Process, GiveUp(p)
  PROVE  SyncInv'
  <1>1. late' \subseteq sealed
    <2>1. proc[p].queue \subseteq sealed
      BY DEF GiveUp, At, SyncInv, MemoryInv, Own
    <2> QED BY <2>1 DEF GiveUp, Foremost, SyncInv, HeldInv
  <1>2. Become(p, Idle) /\ faults' \in 0..MaxFaults
        /\ UNCHANGED <<relayVars, store, minted, sealed>>
    BY SyncConstants, SMTT(30) DEF GiveUp, SyncInv, TypeOK
  <1> QED BY <1>1, <1>2, IdleMemory, QuietStep

-----------------------------------------------------------------------------
(* Writes at the relay. *)

\* A sealed envelope arriving keeps what is known of history.
LEMMA ArrivalKeepsHistory ==
  ASSUME SyncInv, NEW e \in sealed, PutRecord(e), UNCHANGED <<minted, sealed>>
  PROVE  /\ Grows /\ RelayInv' /\ SealedInv'
         /\ \A i \in 1..Len(changeLog') : changeLog'[i] \in sealed'
  <1>1. e \in Envelope
    BY DEF SyncInv, TypeOK
  <1>2. Grows /\ RelayInv'
    BY <1>1, RelayStepGrows, PutRecordKeepsInv DEF SyncInv, RelayInv
  <1>3. \A i \in 1..Len(changeLog') : changeLog'[i] \in sealed'
    <2>1. \A i \in 1..Len(changeLog) : changeLog[i] \in sealed
      BY DEF SyncInv, HeldInv
    <2>2. CASE changeLog' = changeLog
      BY <2>1, <2>2
    <2>3. CASE changeLog' = Append(changeLog, e)
      BY <1>1, <2>1, <2>3, AppendEntries, SMTT(30) DEF SyncInv, RelayInv, RelayTypeOK
    <2> QED BY <2>2, <2>3 DEF PutRecord, Replay, Reject, Accept, relayVars
  <1>4. SealedInv'
    <2>1. \A m \in DOMAIN outcome' : m \notin DOMAIN outcome =>
            m = e.mutation /\ outcome'[m].digest = e.digest
      BY SMTT(30) DEF PutRecord, Replay, Reject, Accept, RecordOutcome, Upsert, relayVars
    <2>2. \A m \in DOMAIN outcome' : outcome'[m].digest = m /\ m[2] <= minted[m[1]]
      BY <1>2, <2>1, SMTT(30) DEF SyncInv, SealedInv, Grows, Author
    <2>3. \A f \in sealed : IsConflictRecord(f) =>
            f.record[2] \in DOMAIN outcome' /\ outcome'[f.record[2]].accepted = 0
      BY <1>2 DEF SyncInv, SealedInv, Grows
    <2>4. ASSUME e.rev = 1 PROVE e.record \in DOMAIN recordHead'
      BY <2>4 DEF PutRecord, Replay, Replayed, Reject, Accept, Upsert, relayVars,
                  ParentMismatch, SyncInv, SealedInv
    <2>5. ASSUME NEW f \in sealed, f.rev = 1, f.mutation \in DOMAIN outcome'
          PROVE  f.record \in DOMAIN recordHead'
      <3>1. CASE f.mutation \in DOMAIN outcome
        BY <1>2, <2>5, <3>1 DEF SyncInv, SealedInv, Grows
      <3>2. CASE f.mutation \notin DOMAIN outcome
        <4>1. f = e
          BY <2>1, <2>5, <3>2 DEF SyncInv, SealedInv
        <4> QED BY <2>4, <2>5, <4>1
      <3> QED BY <3>1, <3>2
    <2>6. /\ \A f, g \in sealed : f.mutation = g.mutation => f = g
          /\ \A f \in sealed : Valid(f) /\ f.digest = f.mutation
                               /\ f.mutation[2] <= minted[Author(f)]
      BY DEF SyncInv, SealedInv
    <2> QED BY <2>2, <2>3, <2>5, <2>6 DEF SealedInv, Valid, IsConflictRecord, Author
  <1> QED BY <1>2, <1>3, <1>4

\* The head sent with a rejection is the record's last accepted version.
LEMMA HeadSent ==
  ASSUME RelayInv, NEW r \in DOMAIN recordHead
  PROVE  /\ HeadOf(r) # {} /\ HeadOf(r) \subseteq Row
         /\ \A head \in HeadOf(r) : head.env.record = r /\ InLog(head.env)
  BY SMTT(30) DEF HeadOf, RelayInv, RelayTypeOK, HeadIsLatest, LatestAt, InLog

(***************************************************************************)
(* The relay's answer is true of the relay after the write: an accepted    *)
(* envelope is in the log, a rejected one has that outcome for good and    *)
(* comes with a head.  The second premise is what Published and the order  *)
(* of the queue give: the record is known to the relay or is being made.   *)
(***************************************************************************)
LEMMA AnswerIsTrue ==
  ASSUME SyncInv, NEW e \in sealed, PutRecord(e),
         e.record \in DOMAIN recordHead \/ e.rev = 1,
         UNCHANGED <<minted, sealed>>,
         NEW reply, reply = PutReply(e)
  PROVE  /\ e.record \in DOMAIN recordHead'
         /\ ReplyOK(reply)
         /\ AnswerInv(e, reply)'
  <1>1. Grows /\ RelayInv' /\ SealedInv'
    BY ArrivalKeepsHistory
  <1>2. e \in Envelope /\ RelayInv /\ SealedInv /\ CurrentSeq \in Nat
    BY SMTT(30) DEF SyncInv, TypeOK, RelayTypeOK, CurrentSeq
  <1>3. ~OtherContent(e)
    BY <1>2 DEF OtherContent, Replayed, SealedInv
  <1>4. CASE Replay(e)
    <2>1. e.mutation \in DOMAIN outcome /\ UNCHANGED relayVars
      BY <1>4 DEF Replay, Replayed
    <2>2. outcome[e.mutation].accepted \in {0, 1} /\ outcome[e.mutation].seq \in Nat
      BY <1>2, <2>1 DEF RelayInv, RelayTypeOK
    <2>3. e.record \in DOMAIN recordHead
      BY <1>2, <2>1 DEF SealedInv
    <2>4. CASE outcome[e.mutation].accepted = 1
      <3>1. reply = Acceptance(outcome[e.mutation].seq)
        BY <1>3, <2>1, <2>4, SMTT(30) DEF PutReply, Replayed
      <3>2. InLog(e)
        BY <1>2, <2>1, <2>4, SMTT(30) DEF RelayInv, ExactlyOnce, SealedInv, InLog, SyncInv, HeldInv
      <3>3. AnswerInv(e, reply)
        BY <3>1, <3>2, SMTT(30) DEF AnswerInv, Acceptance
      <3>4. AnswerInv(e, reply)'
        BY <1>1, <3>3, AnswerGrows
      <3> QED BY <2>1, <2>2, <2>3, <3>1, <3>4, SMTT(30) DEF ReplyOK, Acceptance, relayVars
    <2>5. CASE outcome[e.mutation].accepted = 0
      <3>1. reply = Rejection(e.record)
        BY <1>3, <2>1, <2>5, SMTT(30) DEF PutReply, Replayed
      <3>2. /\ reply.kind = "rejected" /\ reply.seq = 0 /\ reply.head = HeadOf(e.record)
        BY <3>1, SMTT(30) DEF Rejection
      <3>3. AnswerInv(e, reply)
        BY <1>2, <2>1, <2>3, <2>5, <3>2, HeadSent DEF AnswerInv
      <3>4. AnswerInv(e, reply)'
        BY <1>1, <3>3, AnswerGrows
      <3> QED BY <1>2, <2>1, <2>3, <3>2, <3>4, HeadSent, SMTT(30) DEF ReplyOK, relayVars
    <2> QED BY <2>2, <2>4, <2>5
  <1>5. CASE Reject(e)
    <2>1. e.record \in DOMAIN recordHead /\ UNCHANGED recordHead
      BY <1>5 DEF Reject, ParentMismatch
    <2>2. reply = Rejection(e.record)
      BY <1>3, <1>5 DEF PutReply, Reject
    <2>3. /\ reply.kind = "rejected" /\ reply.seq = 0 /\ reply.head = HeadOf(e.record)
      BY <2>2, SMTT(30) DEF Rejection
    <2>4. e.mutation \in DOMAIN outcome' /\ outcome'[e.mutation].accepted = 0
      BY <1>5 DEF Reject, RecordOutcome, Upsert
    <2>5. /\ reply.head # {} /\ reply.head \subseteq Row
          /\ \A head \in reply.head : head.env.record = e.record /\ InLog(head.env)
      BY <1>2, <2>1, <2>3, HeadSent
    <2>6. \A head \in reply.head : InLog(head.env)'
      BY <1>1, <2>5, InLogGrows
    <2>7. AnswerInv(e, reply)'
      BY <2>3, <2>4, <2>5, <2>6 DEF AnswerInv
    <2> QED BY <2>1, <2>3, <2>5, <2>7, SMTT(30) DEF ReplyOK
  <1>6. CASE Accept(e)
    <2>1. reply = Acceptance(CurrentSeq + 1)
      BY <1>3, <1>6 DEF PutReply, Accept
    <2>2. e.record \in DOMAIN recordHead'
      BY <1>6 DEF Accept, Upsert
    <2>3. InLog(e)'
      BY <1>2, <1>6, AppendEntries, SMTT(30) DEF Accept, RelayInv, RelayTypeOK, InLog
    <2>4. AnswerInv(e, reply)'
      BY <2>1, <2>3, SMTT(30) DEF AnswerInv, Acceptance
    <2> QED BY <1>2, <2>1, <2>2, <2>4, SMTT(30) DEF ReplyOK, Acceptance
  <1> QED BY <1>4, <1>5, <1>6 DEF PutRecord

\* The candidate next in order is known to the relay or creates its record.
LEMMA ForemostIsKnown ==
  ASSUME SyncInv, NEW p \in Process, NEW m, m = proc[p], m.pc = "push",
         NEW e \in Foremost(m.queue)
  PROVE  /\ e \in m.queue /\ e \in sealed /\ e \in Envelope
         /\ e.record \in DOMAIN recordHead \/ e.rev = 1
  <1>1. /\ m.queue \subseteq sealed /\ m.queue \subseteq Envelope
        /\ \A f \in m.queue : Published(f.record, m.queue)
    BY DEF MemoryInv, Own, SyncInv, TypeOK
  <1>2. /\ e \in m.queue /\ e \in sealed /\ e \in Envelope
        /\ \A f \in m.queue : f.record = e.record => e.rev <= f.rev
    BY <1>1 DEF Foremost
  <1>3. e.rev \in 1..MaxRev
    BY <1>2 DEF Envelope
  <1>4. e.rev \in Nat /\ e.rev >= 1
    BY <1>3, EnvelopeConstants, SMTT(30)
  <1> QED BY <1>1, <1>2, <1>4, SMTT(30) DEF Published

\* The answer to such a candidate is one push can settle.
LEMMA AnswerSettles ==
  ASSUME SyncInv, NEW e \in sealed, e.record \in DOMAIN recordHead \/ e.rev = 1
  PROVE  Settles(PutReply(e))
  <1>1. e \in Envelope /\ RelayInv /\ SealedInv
    BY DEF SyncInv, TypeOK
  <1>2. ~OtherContent(e)
    BY <1>1 DEF OtherContent, Replayed, SealedInv
  <1>3. ASSUME NEW n PROVE Settles(Acceptance(n))
    BY DEF Settles, Acceptance
  <1>4. ASSUME e.record \in DOMAIN recordHead PROVE Settles(Rejection(e.record))
    BY <1>1, <1>4, HeadSent DEF Settles, Rejection
  <1>5. CASE Replayed(e)
    <2>1. outcome[e.mutation].accepted \in {0, 1} /\ e.record \in DOMAIN recordHead
      BY <1>1, <1>5 DEF Replayed, RelayInv, RelayTypeOK, SealedInv
    <2> QED BY <1>2, <1>3, <1>4, <1>5, <2>1 DEF PutReply
  <1>6. CASE ~Replayed(e) /\ ParentMismatch(e)
    <2>1. e.record \in DOMAIN recordHead
      BY <1>6 DEF ParentMismatch
    <2> QED BY <1>2, <1>4, <1>6, <2>1 DEF PutReply
  <1>7. CASE ~Replayed(e) /\ ~ParentMismatch(e)
    BY <1>2, <1>3, <1>7 DEF PutReply
  <1> QED BY <1>5, <1>6, <1>7

\* A write arriving, with the memories it leaves already checked.
LEMMA ArrivalKeepsInv ==
  ASSUME SyncInv, NEW e \in sealed, PutRecord(e),
         UNCHANGED <<store, minted, sealed, faults>>, late' \subseteq sealed,
         proc' = [q \in Process |-> proc'[q]],
         \A q \in Process : ProcOK(proc'[q]) /\ MemoryInv(q, proc[q])'
  PROVE  SyncInv'
  <1>1. /\ Grows /\ RelayInv' /\ SealedInv'
        /\ \A i \in 1..Len(changeLog') : changeLog'[i] \in sealed'
    BY ArrivalKeepsHistory
  <1>2. PICK d \in Device : d = Author(e)
    BY SyncConstants DEF SyncInv, TypeOK, Author, Envelope
  <1>3. PICK s : s = store[d]
    OBVIOUS
  <1>4. StoreOK(s) /\ StoreInv(d, s) /\ store' = [store EXCEPT ![d] = s]
    BY <1>3 DEF SyncInv, TypeOK, HeldInv
  <1>5. StoreInv(d, s)'
    BY <1>1, <1>4, StoreInvGrows
  <1>6. /\ late' \subseteq sealed' /\ sealed' \subseteq Envelope
        /\ minted' \in [Device -> 0..MaxMutation] /\ faults' \in 0..MaxFaults
        /\ \A f \in sealed' \ sealed : Author(f) = d
    BY DEF SyncInv, TypeOK
  <1>7. ASSUME NEW f \in sealed', Author(f) = d, ~IsConflictRecord(f)
        PROVE  Kept(f, s)'
    <2>1. Kept(f, s)
      BY <1>3, <1>7 DEF SyncInv, NoLostEdit, Edits, Kept, KeptAside
    <2> QED BY <1>1, <2>1, KeptGrows
  <1> QED BY <1>1, <1>4, <1>5, <1>6, <1>7, StepKeepsInv, Zenon

LEMMA LateArrivalKeepsInv ==
  ASSUME SyncInv, LateArrival
  PROVE  SyncInv'
  <1>1. PICK e \in late : PutRecord(e) /\ late' = late \ {e}
    BY DEF LateArrival
  <1>2. /\ e \in sealed /\ late' \subseteq sealed
        /\ UNCHANGED <<store, minted, proc, sealed, faults>>
    BY <1>1 DEF LateArrival, SyncInv, HeldInv
  <1>3. Grows
    BY <1>1, <1>2, ArrivalKeepsHistory
  <1>4. /\ proc' = [q \in Process |-> proc'[q]]
        /\ \A q \in Process : ProcOK(proc'[q]) /\ MemoryInv(q, proc[q])'
    BY <1>2, <1>3, NoProcessStep
  <1> QED BY <1>1, <1>2, <1>4, ArrivalKeepsInv

LEMMA PushCandidateKeepsInv ==
  ASSUME SyncInv, NEW p \in Process, PushCandidate(p)
  PROVE  SyncInv'
  <1>1. PICK m : m = proc[p]
    OBVIOUS
  <1>2. m.pc = "push" /\ ProcOK(m) /\ MemoryInv(p, m)
    BY <1>1 DEF PushCandidate, At, SyncInv, TypeOK
  <1>3. PICK e \in Foremost(m.queue) :
          /\ PutRecord(e)
          /\ Become(p, IF Settles(PutReply(e))
                       THEN Answered(m.queue \ {e}, e, PutReply(e)) ELSE Idle)
    BY <1>1 DEF PushCandidate
  <1>4. PICK reply : reply = PutReply(e)
    OBVIOUS
  <1>5. UNCHANGED <<store, minted, sealed, faults>> /\ late' \subseteq sealed
    BY DEF PushCandidate, SyncInv, HeldInv
  <1>6. /\ m.queue \subseteq Own(p[1]) /\ m.queue \subseteq Envelope
        /\ \A f \in m.queue : Published(f.record, m.queue)
    BY <1>2 DEF MemoryInv, Own, SyncInv, TypeOK
  <1>7. /\ e \in m.queue /\ e \in sealed /\ e \in Envelope
        /\ e.record \in DOMAIN recordHead \/ e.rev = 1
    BY <1>1, <1>2, ForemostIsKnown
  <1>8. Settles(PutReply(e))
    BY <1>7, AnswerSettles
  <1>9. /\ e.record \in DOMAIN recordHead' /\ ReplyOK(reply) /\ AnswerInv(e, reply)'
    BY <1>3, <1>4, <1>5, <1>7, AnswerIsTrue
  <1>10. Grows
    BY <1>3, <1>5, <1>7, ArrivalKeepsHistory
  <1>11. PICK queue : queue = m.queue \ {e}
    BY Zenon
  <1>12. \A f \in queue : Published(f.record, queue)'
    <2>1. \A f \in m.queue : Published(f.record, m.queue)'
      BY <1>6, <1>10, PublishedGrows
    <2> QED BY <1>9, <1>11, <2>1 DEF Published
  <1>13. queue \subseteq Envelope /\ queue \subseteq Own(p[1])' /\ e \in Own(p[1])'
    BY <1>6, <1>7, <1>10, <1>11, OwnGrows
  <1>14. ProcOK(Answered(queue, e, reply))
    BY <1>7, <1>9, <1>13 DEF ProcOK, Answered
  <1>15. MemoryInv(p, Answered(queue, e, reply))'
    BY <1>9, <1>12, <1>13 DEF MemoryInv, Answered
  <1>16. Become(p, Answered(queue, e, reply))
    BY <1>3, <1>4, <1>8, <1>11
  <1>17. /\ proc' = [q \in Process |-> proc'[q]]
         /\ \A q \in Process : ProcOK(proc'[q]) /\ MemoryInv(q, proc[q])'
    BY <1>10, <1>14, <1>15, <1>16, ProcessStep
  <1> QED BY <1>3, <1>5, <1>7, <1>17, ArrivalKeepsInv

-----------------------------------------------------------------------------
\* Sealing the copy of a rejected write; only the process holds it yet.
LEMMA PreserveKeepsInv ==
  ASSUME SyncInv, NEW p \in Process, Preserve(p)
  PROVE  SyncInv'
  <1>0. PICK d \in Device : d = p[1]
    BY DEF Process
  <1>1. PICK m, s : m = proc[p] /\ d = p[1] /\ s = store[p[1]]
    BY <1>0
  <1>2. m.pc = "answered" /\ m.reply.kind = "rejected"
    BY <1>1 DEF Preserve, At
  <1>3. /\ ProcOK(m) /\ MemoryInv(p, m) /\ StoreOK(s) /\ StoreInv(d, s)
        /\ m.candidate \in sealed /\ m.candidate \in Envelope
        /\ m.candidate.record \in DOMAIN recordHead
        /\ ProcOK(Pushing(m.queue)) /\ MemoryInv(p, Pushing(m.queue))
    BY <1>1, <1>2, SettlingState
  <1>4. PICK e, removal : e = m.candidate /\ removal = e.deleted
    OBVIOUS
  <1>5. /\ e \in Envelope /\ removal \in BOOLEAN /\ ~IsConflictRecord(e)
        /\ e.mutation \in DOMAIN outcome /\ outcome[e.mutation].accepted = 0
    <2>1. e \in Envelope /\ e = proc[p].candidate
      BY <1>1, <1>3, <1>4, Zenon
    <2>2. ~IsConflictRecord(e)
      BY <2>1, Zenon DEF Preserve
    <2>3. AnswerInv(m.candidate, m.reply)
      BY <1>2, <1>3, Zenon DEF MemoryInv
    <2>4. e.mutation \in DOMAIN outcome /\ outcome[e.mutation].accepted = 0
      BY <1>2, <1>4, <2>3, Zenon DEF AnswerInv
    <2>5. removal \in BOOLEAN
      BY <1>4, <2>1 DEF Envelope
    <2> QED BY <2>1, <2>2, <2>4, <2>5, Zenon
  <1>6. PICK c \in Record : c = ConflictID(e) /\ c \notin Base /\ c[2] = e.mutation
    BY <1>5, ConflictIDType, SyncConstants
  <1>7. minted \in [Device -> 0..MaxMutation] /\ minted[d] \in Nat /\ MaxMutation \in Nat
        /\ minted[d] + 1 <= MaxMutation
    <2>1. minted \in [Device -> 0..MaxMutation] /\ minted[d] \in Nat /\ MaxMutation \in Nat
      BY SyncConstants, SMTT(30) DEF SyncInv, TypeOK
    <2>2. minted[d] < MaxMutation
      BY <1>1, Zenon DEF Preserve
    <2> QED BY <2>1, <2>2, SMTT(30)
  <1>8. PICK no \in BOOLEAN : no = FALSE
    BY Zenon
  <1>9. PICK copy : copy = IF HasHead(store[d], c)
                           THEN Update(store[d], c, Fresh(d, 1), no, removal)
                           ELSE Create(c, Fresh(d, 1), removal)
    OBVIOUS
  <1>one. 1 \in Nat \ {0}
    BY SMTT(30)
  <1>10. Sealable(d, copy) /\ copy.mutation = Fresh(d, 1) /\ copy.record = c
    <2>1. CASE HasHead(store[d], c)
      <3>1. CanGrow(store[d], c)
        BY <1>1, <1>4, <1>6, <2>1, Zenon DEF Preserve
      <3>2. copy = Update(store[d], c, Fresh(d, 1), no, removal)
        BY <1>9, <2>1
      <3>3. Updating(d, copy, 1, c)
        BY <1>5, <1>7, <1>8, <1>one, <3>1, <3>2, Zenon DEF Updating
      <3> QED BY <3>3, UpdateIsSealable, Zenon
    <2>2. CASE ~HasHead(store[d], c)
      <3>1. copy = Create(c, Fresh(d, 1), removal)
        BY <1>9, <2>2
      <3>2. c \notin Base => c[2] \in DOMAIN outcome /\ outcome[c[2]].accepted = 0
        BY <1>5, <1>6
      <3>3. Creating(d, copy, 1, c)
        BY <1>5, <1>6, <1>7, <1>one, <3>1, <3>2, Zenon DEF Creating
      <3> QED BY <3>3, CreateIsSealable, ZenonT(60)
    <2> QED BY <2>1, <2>2
  <1>11. /\ UNCHANGED relayVars /\ UNCHANGED <<relayVars, late, faults>>
         /\ UNCHANGED store
         /\ sealed' = sealed \cup {copy}
         /\ minted' = [minted EXCEPT ![d] = minted[d] + 1]
    BY <1>1, <1>4, <1>6, <1>8, <1>9, Zenon DEF Preserve
  <1>12. PICK head \in m.reply.head : Become(p, Preserved(m.queue, e, head, copy))
    BY <1>1, <1>4, <1>6, <1>8, <1>9, ZenonT(30) DEF Preserve
  <1>13. head \in Row /\ head.env.record = e.record /\ InLog(head.env)
    <2>1. AnswerInv(m.candidate, m.reply)
      BY <1>2, <1>3, Zenon DEF MemoryInv
    <2>2. ReplyOK(m.reply)
      BY <1>2, <1>3, SMTT(30) DEF ProcOK, Idle
    <2> QED BY <1>4, <1>12, <2>1, <2>2 DEF ReplyOK, AnswerInv
  <1>14. /\ minted' \in [Device -> 0..MaxMutation]
         /\ \A x \in Device : minted[x] <= minted'[x]
         /\ minted'[d] = minted[d] + 1
    BY <1>7, <1>11, SMTT(30)
  <1>15. PICK new : new = {copy}
    BY Zenon
  <1>16. copy.mutation[2] <= minted'[d]
    BY <1>7, <1>10, <1>14, FreshMutation, SMTT(30)
  <1>17. /\ sealed' = sealed \cup new
         /\ \A f \in new : Sealable(d, f) /\ f.mutation[2] <= minted'[d]
         /\ \A f, g \in new : f.mutation = g.mutation => f = g
    BY <1>10, <1>11, <1>15, <1>16
  <1>18. Grows
    BY <1>11, <1>14, <1>17, SealingKeepsHistory, ZenonT(60)
  <1>19. copy \in Envelope /\ copy \in Own(d)' /\ IsConflictRecord(copy)
    BY <1>6, <1>10, <1>11 DEF Sealable, Own, Author, IsConflictRecord
  <1>20. ProcOK(Preserved(m.queue, e, head, copy))
    <2>1. m.queue \subseteq Envelope
      BY <1>2, <1>3, SMTT(30), ZenonT(60) DEF ProcOK, Idle
    <2> QED BY <1>5, <1>13, <1>19, <2>1, Zenon DEF ProcOK, Preserved
  <1>21. MemoryInv(p, Preserved(m.queue, e, head, copy))'
    <2>1. MemoryInv(p, m)'
      BY <1>3, <1>18, MemoryGrows
    <2>2. InLog(head.env)'
      BY <1>13, <1>18, InLogGrows
    <2>3. /\ m.queue \subseteq Own(p[1])' /\ \A x \in m.queue : Published(x.record, m.queue)'
          /\ e \in Own(p[1])' /\ e.record \in DOMAIN recordHead'
      BY <1>2, <1>4, <2>1 DEF MemoryInv
    <2> QED BY <1>1, <1>5, <1>6, <1>10, <1>13, <1>19, <2>2, <2>3
            DEF MemoryInv, Preserved, IsConflictRecord, ConflictID
  <1>22. /\ proc' = [q \in Process |-> proc'[q]]
         /\ \A q \in Process : ProcOK(proc'[q]) /\ MemoryInv(q, proc[q])'
    BY <1>12, <1>18, <1>20, <1>21, ProcessStep
  <1>23. /\ store' = [store EXCEPT ![d] = s]
         /\ StoreInv(d, s)' /\ store[d].outbox \subseteq s.outbox
    BY <1>1, <1>3, <1>11, <1>18, StoreInvGrows DEF SyncInv, TypeOK
  <1>24. \A f \in new : IsConflictRecord(f) \/ f \in s.outbox
    BY <1>15, <1>19
  <1> QED BY <1>3, <1>11, <1>14, <1>17, <1>22, <1>23, <1>24, SealingKeepsInv, ZenonT(60)

-----------------------------------------------------------------------------
(* Steps that commit to the store. *)

LEMMA ApplyPageKeepsInv ==
  ASSUME SyncInv, NEW p \in Process, ApplyPage(p)
  PROVE  SyncInv'
  <1>1. PICK m, s : m = proc[p] /\ s = store[p[1]]
    OBVIOUS
  <1>2. m.pc = "filtered" /\ ProcOK(m) /\ MemoryInv(p, m)
    BY <1>1 DEF ApplyPage, At, SyncInv, TypeOK
  <1>3. StoreOK(s) /\ StoreInv(p[1], s)
    BY <1>1 DEF Process, SyncInv, HeldInv, TypeOK
  <1>4. m.through \in Nat /\ m.next \in Nat
    BY <1>2, SMTT(30) DEF ProcOK, Idle
  <1>5. /\ m.next <= m.through /\ m.through <= CurrentSeq
        /\ m.batch \subseteq 1..m.next
    BY <1>2 DEF MemoryInv
  <1>6. late' \subseteq sealed /\ faults' \in 0..MaxFaults
        /\ UNCHANGED <<relayVars, minted, sealed>>
    BY DEF ApplyPage, SyncInv, HeldInv, TypeOK
  <1>7. CASE Become(p, Idle) /\ UNCHANGED store
    BY <1>6, <1>7, IdleMemory, QuietStep
  <1>8. CASE /\ Commit(p, ApplyRemoteBatch(s, changeLog, m.batch, m.next))
             /\ Become(p, IF m.next < m.through
                          THEN Pulling(m.next, m.through) ELSE Idle)
    <2>1. PICK t : t = ApplyRemoteBatch(s, changeLog, m.batch, m.next)
      OBVIOUS
    <2>2. changeLog \in Seq(Envelope) /\ CurrentSeq = Len(changeLog) /\ Len(changeLog) \in Nat
      BY SMTT(30) DEF SyncInv, TypeOK, RelayTypeOK, CurrentSeq
    <2>3. m.batch \subseteq 1..Len(changeLog)
      BY <1>4, <1>5, <2>2, SMTT(30)
    <2>4. /\ StoreOK(t) /\ t.outbox = s.outbox /\ t.cursor = m.next
          /\ HeadsFrom(s, t, EntriesAt(changeLog, m.batch))
      <3>1. PositionsOf(changeLog, m.batch)
        BY <2>2, <2>3, SMTT(30) DEF PositionsOf
      <3> QED BY <1>3, <1>4, <2>1, <3>1, ApplyRemoteBatchStore, SMTT(30)
    <2>5. StoreInv(p[1], t)
      <3>1. \A i \in m.batch :
              changeLog[i] \in sealed /\ changeLog[i].record \in DOMAIN recordHead
        BY <2>3 DEF SyncInv, HeldInv, RelayInv, HeadIsLatest
      <3>2. ASSUME NEW r \in DOMAIN t.heads
            PROVE  HeadEnv(t, r) \in sealed /\ Published(r, t.outbox)
        <4>1. CASE r \in DOMAIN s.heads
          BY <1>3, <2>4, <3>1, <4>1 DEF HeadsFrom, StoreInv, HeadEnv, EntriesAt
        <4>2. CASE r \notin DOMAIN s.heads
          BY <2>4, <3>1, <4>2, SMTT(30) DEF HeadsFrom, Published, EntriesAt
        <4> QED BY <4>1, <4>2
      <3>3. t.cursor <= CurrentSeq
        BY <1>4, <1>5, <2>2, <2>4, SMTT(30)
      <3> QED BY <1>3, <2>4, <3>2, <3>3 DEF StoreInv
    <2>6. \A e \in Edits : Author(e) = p[1] /\ Kept(e, store[p[1]]) => Kept(e, t)
      BY <1>1, <2>4 DEF Kept
    <2>7. /\ ProcOK(Pulling(m.next, m.through)) /\ MemoryInv(p, Pulling(m.next, m.through))
      BY <1>4, <1>5, <2>2, SMTT(30) DEF ProcOK, MemoryInv, Pulling
    <2>8. Become(p, Idle) \/ Become(p, Pulling(m.next, m.through))
      BY <1>8
    <2> QED BY <1>6, <1>8, <2>1, <2>4, <2>5, <2>6, <2>7, <2>8, IdleMemory, SettleStep
  <1> QED BY <1>1, <1>7, <1>8 DEF ApplyPage

-----------------------------------------------------------------------------
(* Settling a candidate. *)

LEMMA SettleAcceptedKeepsInv ==
  ASSUME SyncInv, NEW p \in Process, SettleAccepted(p)
  PROVE  SyncInv'
  <1>1. PICK m, s : m = proc[p] /\ s = store[p[1]]
    OBVIOUS
  <1>2. m.pc = "answered" /\ m.reply.kind = "accepted"
    BY <1>1 DEF SettleAccepted, At
  <1>3. /\ ProcOK(m) /\ MemoryInv(p, m) /\ StoreOK(s) /\ StoreInv(p[1], s)
        /\ m.candidate \in sealed /\ m.candidate \in Envelope
        /\ m.candidate.record \in DOMAIN recordHead
        /\ ProcOK(Pushing(m.queue)) /\ MemoryInv(p, Pushing(m.queue))
        /\ \A f \in s.outbox : f.mutation = m.candidate.mutation => f = m.candidate
    BY <1>1, <1>2, SettlingState
  <1>4. m.reply.seq \in Nat /\ InLog(m.candidate)
    BY <1>2, <1>3, AnsweredMemory DEF ReplyOK, AnswerInv
  <1>5. PICK t : t = AcceptOutbox(s, m.candidate, m.reply.seq)
    OBVIOUS
  <1>6. /\ StoreOK(t) /\ t.cursor = s.cursor
        /\ t.outbox = {f \in s.outbox : f.mutation # m.candidate.mutation}
        /\ HeadsFrom(s, t, {m.candidate})
    <2>1. PICK e \in Envelope, n \in Nat : e = m.candidate /\ n = m.reply.seq
      BY <1>3, <1>4
    <2>2. /\ StoreOK(t) /\ t.cursor = s.cursor
          /\ t.outbox = {f \in s.outbox : f.mutation # e.mutation}
          /\ HeadsFrom(s, t, {e})
      <3>1. StoreOK(s) /\ t = AcceptOutbox(s, e, n)
        BY <1>3, <1>5, <2>1
      <3>2. /\ StoreOK(AcceptOutbox(s, e, n))
            /\ AcceptOutbox(s, e, n).cursor = s.cursor
            /\ AcceptOutbox(s, e, n).outbox
                 = {f \in s.outbox : f.mutation # e.mutation}
            /\ HeadsFrom(s, AcceptOutbox(s, e, n), {e})
        BY <3>1, AcceptOutboxStore
      <3> QED BY <3>1, <3>2
    <2> QED BY <2>1, <2>2
  <1>7. \A r : Published(r, s.outbox) => Published(r, t.outbox)
    BY <1>3, <1>6 DEF Published
  <1>8. StoreInv(p[1], t)
    <2>1. ASSUME NEW r \in DOMAIN t.heads
          PROVE  HeadEnv(t, r) \in sealed /\ Published(r, t.outbox)
      <3>1. CASE r \in DOMAIN s.heads
        BY <1>3, <1>6, <1>7, <3>1 DEF HeadsFrom, StoreInv, HeadEnv
      <3>2. CASE r \notin DOMAIN s.heads
        BY <1>3, <1>6, <3>2 DEF HeadsFrom, Published
      <3> QED BY <3>1, <3>2
    <2> QED BY <1>3, <1>6, <1>7, <2>1 DEF StoreInv
  <1>9. ASSUME NEW e \in Edits, Kept(e, s) PROVE Kept(e, t)
    BY <1>3, <1>4, <1>6, <1>9 DEF Kept, InLog
  <1>10. /\ Commit(p, t) /\ Become(p, Pushing(m.queue))
         /\ late' \subseteq sealed /\ faults' \in 0..MaxFaults
         /\ UNCHANGED <<relayVars, minted, sealed>>
    BY <1>1, <1>5 DEF SettleAccepted, SyncInv, HeldInv, TypeOK
  <1> QED BY <1>1, <1>3, <1>6, <1>8, <1>9, <1>10, SettleStep

LEMMA SettleSupersededKeepsInv ==
  ASSUME SyncInv, NEW p \in Process, SettleSuperseded(p)
  PROVE  SyncInv'
  <1>1. PICK m, s : m = proc[p] /\ s = store[p[1]]
    OBVIOUS
  <1>2. m.pc = "answered" /\ IsConflictRecord(m.candidate)
    BY <1>1 DEF SettleSuperseded, At
  <1>3. /\ ProcOK(m) /\ MemoryInv(p, m) /\ StoreOK(s) /\ StoreInv(p[1], s)
        /\ m.candidate \in sealed /\ m.candidate \in Envelope
        /\ m.candidate.record \in DOMAIN recordHead
        /\ ProcOK(Pushing(m.queue)) /\ MemoryInv(p, Pushing(m.queue))
    BY <1>1, <1>2, SettlingState
  <1>4. PICK head \in m.reply.head : Commit(p, Supersede(s, head))
    BY <1>1 DEF SettleSuperseded
  <1>5. /\ head \in Row /\ head.env.record = m.candidate.record /\ InLog(head.env)
    BY <1>2, <1>3, AnsweredMemory DEF ReplyOK, AnswerInv
  <1>6. PICK t : t = Supersede(s, head)
    OBVIOUS
  <1>7. /\ StoreOK(t) /\ t.cursor = s.cursor
        /\ t.outbox = {f \in s.outbox : f.record # head.env.record}
        /\ HeadsFrom(s, t, {head.env})
    BY <1>3, <1>5, <1>6, SupersedeStore
  <1>8. \A r : Published(r, s.outbox) => Published(r, t.outbox)
    BY <1>3, <1>5, <1>7 DEF Published
  <1>9. StoreInv(p[1], t)
    <2>1. head.env \in sealed
      BY <1>5 DEF InLog, SyncInv, HeldInv
    <2>2. ASSUME NEW r \in DOMAIN t.heads
          PROVE  HeadEnv(t, r) \in sealed /\ Published(r, t.outbox)
      <3>1. CASE r \in DOMAIN s.heads
        BY <1>3, <1>7, <1>8, <2>1, <3>1 DEF HeadsFrom, StoreInv, HeadEnv
      <3>2. CASE r \notin DOMAIN s.heads
        BY <1>3, <1>5, <1>7, <2>1, <3>2, SMTT(30) DEF HeadsFrom, Published
      <3> QED BY <3>1, <3>2
    <2> QED BY <1>3, <1>7, <1>8, <2>2 DEF StoreInv
  <1>10. ASSUME NEW e \in Edits, Kept(e, s) PROVE Kept(e, t)
    <2>1. e.record # head.env.record
      BY <1>2, <1>5 DEF Edits, IsConflictRecord
    <2>2. (\E f \in s.outbox : f.record = ConflictID(e)) =>
            \/ \E f \in t.outbox : f.record = ConflictID(e)
            \/ \E i \in 1..Len(changeLog) : changeLog[i].record = ConflictID(e)
      BY <1>5, <1>7 DEF InLog
    <2> QED BY <1>7, <1>10, <2>1, <2>2 DEF Kept
  <1>11. /\ Commit(p, t) /\ Become(p, Pushing(m.queue))
         /\ late' \subseteq sealed /\ faults' \in 0..MaxFaults
         /\ UNCHANGED <<relayVars, minted, sealed>>
    BY <1>1, <1>4, <1>6 DEF SettleSuperseded, SyncInv, HeldInv, TypeOK
  <1> QED BY <1>1, <1>3, <1>7, <1>9, <1>10, <1>11, SettleStep

LEMMA SettlePreservedKeepsInv ==
  ASSUME SyncInv, NEW p \in Process, SettlePreserved(p)
  PROVE  SyncInv'
  <1>1. PICK m, s : m = proc[p] /\ s = store[p[1]]
    OBVIOUS
  <1>2. m.pc = "preserved"
    BY <1>1 DEF SettlePreserved, At
  <1>3. /\ ProcOK(m) /\ MemoryInv(p, m) /\ StoreOK(s) /\ StoreInv(p[1], s)
        /\ m.candidate \in sealed /\ m.candidate \in Envelope
        /\ m.candidate.record \in DOMAIN recordHead
        /\ ProcOK(Pushing(m.queue)) /\ MemoryInv(p, Pushing(m.queue))
        /\ \A f \in s.outbox : f \in sealed /\ (f.mutation = m.candidate.mutation => f = m.candidate)
    BY <1>1, <1>2, SettlingState
  <1>4. PICK e, copy, head : e = m.candidate /\ copy = m.copy /\ head = m.head
    OBVIOUS
  <1>5. /\ ~IsConflictRecord(e)
        /\ copy \in Own(p[1]) /\ copy \in sealed /\ copy.record = ConflictID(e)
        /\ head.env.record = e.record /\ InLog(head.env)
        /\ copy \in Envelope /\ head \in Row
    BY <1>2, <1>3, <1>4, PreservedMemory DEF Own
  <1>6. late' \subseteq sealed /\ faults' \in 0..MaxFaults
        /\ UNCHANGED <<relayVars, minted, sealed>>
    BY DEF SettlePreserved, SyncInv, HeldInv, TypeOK
  <1>7. CASE Become(p, Idle) /\ UNCHANGED store
    BY <1>6, <1>7, IdleMemory, QuietStep
  <1>8. CASE /\ CanResolveConflict(s, copy)
             /\ Commit(p, ResolveConflict(s, e, copy, head))
             /\ Become(p, Pushing(m.queue))
    <2>1. PICK t : t = ResolveConflict(s, e, copy, head)
      OBVIOUS
    <2>2. e \in Envelope /\ e \in sealed /\ e.record \in Base /\ copy.record \notin Base
          /\ copy # e
      BY <1>3, <1>4, <1>5, ConflictIDType
    <2>3. copy.mutation # e.mutation
      BY <1>5, <2>2 DEF SyncInv, SealedInv
    <2>4. /\ StoreOK(t) /\ t.cursor = s.cursor
          /\ t.outbox \subseteq s.outbox \cup {copy}
          /\ {f \in s.outbox : f.mutation # e.mutation} \subseteq t.outbox
          /\ copy.mutation # e.mutation => \E f \in t.outbox : f.mutation = copy.mutation
          /\ HeadsFrom(s, t, {copy, head.env})
      <3>1. StoreOK(s) /\ copy \in Envelope /\ head \in Row
        BY <1>3, <1>5
      <3> QED BY <2>1, <3>1, ResolveConflictStore, SMTT(30)
    <2>5. copy \in t.outbox
      <3>1. PICK f \in t.outbox : f.mutation = copy.mutation
        BY <2>3, <2>4
      <3>2. f \in sealed
        BY <1>3, <1>5, <2>4
      <3> QED BY <1>5, <3>1, <3>2 DEF SyncInv, SealedInv
    <2>6. \A f \in s.outbox : f # e => f \in t.outbox
      BY <1>3, <1>4, <2>4
    <2>7. \A r : Published(r, s.outbox) => Published(r, t.outbox)
      BY <1>3, <1>4, <2>6 DEF Published
    <2>8. Published(copy.record, t.outbox)
      BY <1>3, <1>8, <2>5, <2>7 DEF CanResolveConflict, CanPut, HasHead, StoreInv, Published
    <2>9. StoreInv(p[1], t)
      <3>1. head.env \in sealed
        BY <1>5 DEF InLog, SyncInv, HeldInv
      <3>2. ASSUME NEW r \in DOMAIN t.heads
            PROVE  HeadEnv(t, r) \in sealed
        BY <1>3, <1>5, <2>4, <3>1 DEF HeadsFrom, StoreInv, HeadEnv
      <3>3. ASSUME NEW r \in DOMAIN t.heads
            PROVE  Published(r, t.outbox)
        <4>1. CASE r \in DOMAIN s.heads
          BY <1>3, <2>7, <4>1 DEF StoreInv
        <4>2. CASE r \notin DOMAIN s.heads
          <5>1. r = copy.record \/ r = e.record
            BY <1>5, <2>4, <4>2 DEF HeadsFrom
          <5> QED BY <1>3, <1>4, <2>8, <5>1 DEF Published
        <4> QED BY <4>1, <4>2
      <3>4. t.outbox \subseteq Own(p[1]) /\ \A f \in t.outbox : Published(f.record, t.outbox)
        BY <1>3, <1>5, <2>4, <2>7, <2>8 DEF StoreInv
      <3> QED BY <1>3, <2>4, <3>2, <3>3, <3>4 DEF StoreInv
    <2>10. ASSUME NEW x \in Edits, Kept(x, s) PROVE Kept(x, t)
      <3>1. x \in Envelope /\ ~IsConflictRecord(x)
        BY DEF Edits, SyncInv, TypeOK
      <3>2. ConflictID(x) # e.record
        BY <2>2, <3>1, ConflictIDType
      <3>3. (\E f \in s.outbox : f.record = ConflictID(x)) =>
              \E f \in t.outbox : f.record = ConflictID(x)
        BY <2>6, <3>2
      <3>4. CASE x = e
        BY <1>5, <2>5, <3>4 DEF Kept
      <3>5. CASE x # e
        BY <2>6, <2>10, <3>3, <3>5 DEF Kept
      <3> QED BY <3>4, <3>5
    <2>11. Commit(p, t)
      BY <1>8, <2>1
    <2> QED BY <1>1, <1>3, <1>6, <1>8, <2>4, <2>9, <2>10, <2>11, SettleStep, SMTT(30)
  <1> QED BY <1>1, <1>4, <1>7, <1>8 DEF SettlePreserved

-----------------------------------------------------------------------------
(* Every step. *)

(* A user's writes. *)

\* ApplyLocal of a sealed write keeps the device's store correct.
LEMMA ApplyLocalInv ==
  ASSUME SealedInv', NEW d, NEW s, StoreOK(s), StoreInv(d, s)', NEW e \in Envelope,
         e \in sealed', Author(e) = d, e.rev = 1 \/ e.record \in DOMAIN s.heads,
         NEW t, t = ApplyLocal(s, e)
  PROVE  /\ StoreOK(t) /\ StoreInv(d, t)'
         /\ e \in t.outbox /\ s.outbox \subseteq t.outbox
         /\ DOMAIN s.heads \subseteq DOMAIN t.heads
  <1>1. /\ StoreOK(t) /\ t.cursor = s.cursor /\ HeadsOrKept(s, t, e)
        /\ t.outbox \subseteq s.outbox \cup {e} /\ s.outbox \subseteq t.outbox
        /\ \E f \in t.outbox : f.mutation = e.mutation
    BY ApplyLocalStore
  <1>2. e \in t.outbox
    <2>1. PICK f \in t.outbox : f.mutation = e.mutation
      BY <1>1
    <2>2. f \in sealed'
      BY <1>1, <2>1 DEF StoreInv, Own
    <2> QED BY <2>1, <2>2 DEF SealedInv
  <1>3. \A r : Published(r, s.outbox)' => Published(r, t.outbox)'
    BY <1>1 DEF Published
  <1>4. Published(e.record, t.outbox)'
    <2>1. CASE e.rev = 1
      BY <1>2, <2>1 DEF Published
    <2>2. CASE e.record \in DOMAIN s.heads
      BY <1>3, <2>2 DEF StoreInv
    <2> QED BY <2>1, <2>2
  <1>5. ASSUME NEW r \in DOMAIN t.heads
        PROVE  HeadEnv(t, r) \in sealed' /\ Published(r, t.outbox)'
    <2>1. CASE r \in DOMAIN s.heads
      BY <1>1, <1>3, <2>1 DEF HeadsOrKept, StoreInv, HeadEnv
    <2>2. CASE r \notin DOMAIN s.heads
      BY <1>1, <1>4, <2>2 DEF HeadsOrKept
    <2> QED BY <2>1, <2>2
  <1>6. /\ t.outbox \subseteq Own(d)' /\ t.cursor <= CurrentSeq'
        /\ \A f \in t.outbox : Published(f.record, t.outbox)'
    BY <1>1, <1>3, <1>4 DEF StoreInv, Own, Author
  <1> QED BY <1>1, <1>2, <1>5, <1>6 DEF StoreInv, HeadEnv, HeadsOrKept

\* One write of a user.
LEMMA WriteKeepsInv ==
  ASSUME SyncInv, NEW d \in Device, UserMayWrite(d, 1), NEW e, Sealable(d, e),
         e.mutation = Fresh(d, 1), e.rev = 1 \/ e.record \in DOMAIN store[d].heads,
         Write(d, e)
  PROVE  SyncInv'
  <1>1. PICK s, t : s = store[d] /\ t = ApplyLocal(s, e)
    OBVIOUS
  <1>2. minted \in [Device -> 0..MaxMutation] /\ minted[d] \in Nat /\ MaxMutation \in Nat
        /\ minted[d] + 1 <= MaxMutation
    BY SyncConstants, SMTT(30) DEF SyncInv, TypeOK, UserMayWrite
  <1>3. /\ UNCHANGED <<relayVars, late, faults>> /\ UNCHANGED proc
        /\ sealed' = sealed \cup {e}
        /\ minted' = [minted EXCEPT ![d] = minted[d] + 1]
        /\ store' = [store EXCEPT ![d] = t]
    BY <1>1 DEF Write
  <1>n. PICK new : new = {e}
    BY Zenon
  <1>4. /\ minted' \in [Device -> 0..MaxMutation]
        /\ \A c \in Device : minted[c] <= minted'[c]
        /\ minted'[d] = minted[d] + 1
    BY <1>2, <1>3, SMTT(30)
  <1>e. e.mutation[2] <= minted'[d]
    BY <1>2, <1>4, FreshMutation, SMTT(30)
  <1>5. /\ sealed' = sealed \cup new
        /\ \A f \in new : Sealable(d, f) /\ f.mutation[2] <= minted'[d]
        /\ \A f, g \in new : f.mutation = g.mutation => f = g
    BY <1>3, <1>n, <1>e
  <1>6. Grows /\ SealedInv'
    <2>1. UNCHANGED relayVars
      BY <1>3
    <2> QED BY <1>4, <1>5, <2>1, SealingKeepsHistory, Zenon
  <1>7. StoreOK(s) /\ StoreInv(d, s)'
    BY <1>1, <1>6, StoreInvGrows DEF SyncInv, TypeOK, HeldInv
  <1>8. e \in Envelope /\ e \in sealed' /\ Author(e) = d
    BY <1>3 DEF Sealable, Author
  <1>9. /\ StoreOK(t) /\ StoreInv(d, t)' /\ e \in t.outbox /\ s.outbox \subseteq t.outbox
    BY <1>1, <1>6, <1>7, <1>8, ApplyLocalInv
  <1>10. /\ proc' = [q \in Process |-> proc'[q]]
         /\ \A q \in Process : ProcOK(proc'[q]) /\ MemoryInv(q, proc[q])'
    BY <1>3, <1>6, NoProcessStep
  <1>11. /\ store[d].outbox \subseteq t.outbox
         /\ \A f \in new : IsConflictRecord(f) \/ f \in t.outbox
    BY <1>1, <1>9, <1>n
  <1> QED BY <1>3, <1>4, <1>5, <1>9, <1>10, <1>11, SealingKeepsInv, Zenon

LEMMA AddKeepsInv ==
  ASSUME SyncInv, NEW d \in Device, NEW r \in Base, Add(d, r)
  PROVE  SyncInv'
  <1>1. UserMayWrite(d, 1) /\ minted[d] + 1 <= MaxMutation /\ r \in Record
    <2>1. minted[d] \in Nat
      BY SyncConstants, SMTT(30) DEF SyncInv, TypeOK
    <2> QED BY <2>1, SyncConstants, SMTT(30) DEF Add, UserMayWrite
  <1>n. PICK no \in BOOLEAN : no = FALSE
    BY Zenon
  <1>2. PICK e : e = Create(r, Fresh(d, 1), no)
    OBVIOUS
  <1>3. Sealable(d, e) /\ e.mutation = Fresh(d, 1) /\ e.rev = 1
    <2>1. 1 \in Nat \ {0}
      BY SMTT(30)
    <2>2. Creating(d, e, 1, r)
      BY <1>1, <1>2, <2>1, Zenon DEF Creating
    <2> QED BY <2>2, CreateIsSealable, ZenonT(60)
  <1>4. Write(d, e)
    BY <1>n, <1>2, Zenon DEF Add
  <1> QED BY <1>1, <1>3, <1>4, WriteKeepsInv

\* Edit, Remove, DiscardConflict and ResolveMoot all write after a head.
LEMMA WriteAfterHeadKeepsInv ==
  ASSUME SyncInv, NEW d \in Device, UserMayWrite(d, 1), NEW r, CanGrow(store[d], r),
         NEW deleted \in BOOLEAN, Write(d, Update(store[d], r, Fresh(d, 1), deleted, FALSE))
  PROVE  SyncInv'
  <1>1. minted[d] + 1 <= MaxMutation
    <2>1. minted[d] \in Nat
      BY SyncConstants, SMTT(30) DEF SyncInv, TypeOK
    <2> QED BY <2>1, SyncConstants, SMTT(30) DEF UserMayWrite
  <1>n. PICK no \in BOOLEAN : no = FALSE
    BY Zenon
  <1>2. PICK e : e = Update(store[d], r, Fresh(d, 1), deleted, no)
    OBVIOUS
  <1>3. /\ Sealable(d, e) /\ e.mutation = Fresh(d, 1)
        /\ e.record \in DOMAIN store[d].heads
    <2>1. 1 \in Nat \ {0}
      BY SMTT(30)
    <2>2. Updating(d, e, 1, r)
      BY <1>1, <1>2, <1>n, <2>1, Zenon DEF Updating
    <2>3. /\ Sealable(d, e) /\ e.mutation = Fresh(d, 1) /\ e.record = r
          /\ r \in DOMAIN store[d].heads
      BY <2>2, UpdateIsSealable, Zenon
    <2> QED BY <2>3, Zenon
  <1>4. Write(d, e)
    BY <1>n, <1>2, Zenon
  <1> QED BY <1>3, <1>4, WriteKeepsInv

\* The kept edit and the retirement, committed together.
LEMMA ResolveKeptKeepsInv ==
  ASSUME SyncInv, NEW d \in Device, NEW c \in ConflictsOf(d), NEW resurrect \in BOOLEAN,
         ResolveKept(d, c, resurrect)
  PROVE  SyncInv'
  <1>1. minted \in [Device -> 0..MaxMutation] /\ minted[d] \in Nat /\ MaxMutation \in Nat
        /\ minted[d] + 1 <= MaxMutation /\ minted[d] + 2 <= MaxMutation
    <2>1. minted \in [Device -> 0..MaxMutation] /\ minted[d] \in Nat
      BY SyncConstants, SMTT(30) DEF SyncInv, TypeOK
    <2> QED BY <2>1, SyncConstants, SMTT(30) DEF ResolveKept, UserMayWrite
  <1>2. PICK s, removal : s = store[d] /\ removal = HeadEnv(store[d], c).payload
    OBVIOUS
  <1>3. CanGrow(store[d], c) /\ CanGrow(store[d], c[1])
    BY DEF ResolveKept
  <1>4. StoreOK(s) /\ c \in DOMAIN s.heads
    BY <1>2 DEF SyncInv, TypeOK, ConflictsOf
  <1>5. removal \in BOOLEAN
    <2>1. HeadEnv(s, c) \in Envelope
      BY <1>4 DEF StoreOK, Row, HeadEnv
    <2> QED BY <1>2, <2>1, SyncConstants DEF Envelope
  <1>b. PICK no \in BOOLEAN, yes \in BOOLEAN : no = FALSE /\ yes = TRUE
    BY Zenon
  <1>6. PICK again, retire :
          /\ again = Update(store[d], c[1], Fresh(d, 1), removal, no)
          /\ retire = Update(store[d], c, Fresh(d, 2), yes, no)
    OBVIOUS
  <1>7. /\ Sealable(d, again) /\ again.mutation = Fresh(d, 1)
        /\ again.record \in DOMAIN s.heads
    <2>1. 1 \in Nat \ {0}
      BY SMTT(30)
    <2>2. Updating(d, again, 1, c[1])
      BY <1>1, <1>3, <1>5, <1>6, <1>b, <2>1, Zenon DEF Updating
    <2>3. /\ Sealable(d, again) /\ again.mutation = Fresh(d, 1) /\ again.record = c[1]
          /\ c[1] \in DOMAIN store[d].heads
      BY <2>2, UpdateIsSealable, Zenon
    <2> QED BY <1>2, <2>3, Zenon
  <1>8. /\ Sealable(d, retire) /\ retire.mutation = Fresh(d, 2)
        /\ retire.record \in DOMAIN s.heads
    <2>1. 2 \in Nat \ {0}
      BY SMTT(30)
    <2>2. Updating(d, retire, 2, c)
      BY <1>1, <1>3, <1>6, <1>b, <2>1, Zenon DEF Updating
    <2>3. /\ Sealable(d, retire) /\ retire.mutation = Fresh(d, 2) /\ retire.record = c
          /\ c \in DOMAIN store[d].heads
      BY <2>2, UpdateIsSealable, Zenon
    <2> QED BY <1>2, <2>3, Zenon
  <1>9. PICK u, t : u = ApplyLocal(s, again) /\ t = ApplyLocal(u, retire)
    OBVIOUS
  <1>10. /\ UNCHANGED <<relayVars, late, faults>> /\ UNCHANGED proc
         /\ sealed' = sealed \cup {again, retire}
         /\ minted' = [minted EXCEPT ![d] = minted[d] + 2]
         /\ store' = [store EXCEPT ![d] = t]
    BY <1>2, <1>6, <1>9, <1>b, Zenon DEF ResolveKept, Retirement
  <1>11. /\ minted' \in [Device -> 0..MaxMutation]
         /\ \A x \in Device : minted[x] <= minted'[x]
         /\ minted'[d] = minted[d] + 2
    BY <1>1, <1>10, SMTT(30)
  <1>12. /\ again.mutation[2] = minted[d] + 1 /\ retire.mutation[2] = minted[d] + 2
    BY <1>1, <1>7, <1>8, FreshMutation, SMTT(30)
  <1>n. PICK new : new = {again, retire}
    BY Zenon
  <1>13. /\ sealed' = sealed \cup new
         /\ \A e \in new : Sealable(d, e) /\ e.mutation[2] <= minted'[d]
         /\ \A e, f \in new : e.mutation = f.mutation => e = f
    BY <1>1, <1>7, <1>8, <1>10, <1>11, <1>12, <1>n, SMTT(30)
  <1>14. Grows /\ SealedInv'
    BY <1>10, <1>11, <1>13, SealingKeepsHistory, ZenonT(60)
  <1>15. StoreInv(d, s)'
    BY <1>2, <1>4, <1>14, StoreInvGrows DEF SyncInv, HeldInv
  <1>16. /\ again \in Envelope /\ again \in sealed' /\ Author(again) = d
         /\ retire \in Envelope /\ retire \in sealed' /\ Author(retire) = d
    BY <1>7, <1>8, <1>10 DEF Sealable, Author
  <1>17. /\ StoreOK(u) /\ StoreInv(d, u)' /\ again \in u.outbox
         /\ s.outbox \subseteq u.outbox /\ DOMAIN s.heads \subseteq DOMAIN u.heads
    BY <1>4, <1>7, <1>9, <1>14, <1>15, <1>16, ApplyLocalInv
  <1>18. retire.record \in DOMAIN u.heads
    BY <1>8, <1>17
  <1>19. /\ StoreOK(t) /\ StoreInv(d, t)' /\ retire \in t.outbox
         /\ u.outbox \subseteq t.outbox
    BY <1>9, <1>14, <1>16, <1>17, <1>18, ApplyLocalInv
  <1>20. /\ proc' = [q \in Process |-> proc'[q]]
         /\ \A q \in Process : ProcOK(proc'[q]) /\ MemoryInv(q, proc[q])'
    BY <1>10, <1>14, NoProcessStep
  <1>21. /\ store[d].outbox \subseteq t.outbox
         /\ \A e \in new : IsConflictRecord(e) \/ e \in t.outbox
    BY <1>2, <1>17, <1>19, <1>n
  <1> QED BY <1>10, <1>11, <1>13, <1>19, <1>20, <1>21, SealingKeepsInv, ZenonT(60)

-----------------------------------------------------------------------------
(* The theorems. *)

LEMMA SyncInvInit == Init => SyncInv
  <1> SUFFICES ASSUME Init PROVE SyncInv
    OBVIOUS
  <1>1. RelayInv
    BY RelayInvInit DEF Init
  <1>2. /\ changeLog = <<>> /\ DOMAIN outcome = {} /\ sealed = {} /\ late = {}
    BY DEF Init, RelayInit, EmptyTable
  <1>3. ASSUME NEW d \in Device PROVE StoreOK(store[d]) /\ StoreInv(d, store[d])
    <2>1. PICK s : s = store[d]
      OBVIOUS
    <2>2. DOMAIN s.heads = {} /\ s.outbox = {} /\ s.cursor = 0 /\ s.ancestors = {}
      BY <2>1, StoreFields, SMTT(30) DEF Init, EmptyStore, EmptyTable
    <2> QED BY <1>2, <2>1, <2>2, SMTT(30) DEF StoreOK, StoreInv, CurrentSeq
  <1>4. \A p \in Process : ProcOK(proc[p]) /\ MemoryInv(p, proc[p])
    BY IdleMemory DEF Init
  <1>5. TypeOK
    BY <1>1, <1>2, <1>3, <1>4, SyncConstants, SMTT(30) DEF Init, RelayInv, TypeOK
  <1>6. SealedInv /\ HeldInv /\ NoLostEdit
    BY <1>2, <1>3, SMTT(30) DEF SealedInv, HeldInv, NoLostEdit, Edits
  <1> QED BY <1>1, <1>4, <1>5, <1>6 DEF SyncInv

LEMMA UserStepKeepsInv ==
  ASSUME SyncInv, NEW d \in Device, UserStep(d)
  PROVE  SyncInv'
  <1>1. CASE \E r \in Base : Add(d, r)
    BY <1>1, AddKeepsInv
  <1>2. CASE \E r \in Base : Edit(d, r)
    BY <1>2, WriteAfterHeadKeepsInv, Zenon DEF Edit
  <1>3. CASE \E r \in Base : Remove(d, r)
    BY <1>3, WriteAfterHeadKeepsInv, Zenon DEF Remove
  <1>4. CASE \E c \in ConflictsOf(d) : DiscardConflict(d, c)
    BY <1>4, WriteAfterHeadKeepsInv, Zenon DEF DiscardConflict, Retirement
  <1>5. CASE \E c \in ConflictsOf(d) : ResolveMoot(d, c)
    BY <1>5, WriteAfterHeadKeepsInv, Zenon DEF ResolveMoot, Retirement
  <1>6. CASE \E c \in ConflictsOf(d) : \E resurrect \in BOOLEAN : ResolveKept(d, c, resurrect)
    BY <1>6, ResolveKeptKeepsInv
  <1> QED BY <1>1, <1>2, <1>3, <1>4, <1>5, <1>6 DEF UserStep

LEMMA StutteringKeepsInv ==
  ASSUME SyncInv, UNCHANGED vars
  PROVE  SyncInv'
  <1>1. UNCHANGED <<relayVars, minted, sealed>> /\ UNCHANGED proc
        /\ UNCHANGED <<store, late, faults>>
    BY DEF vars, deviceVars
  <1>2. Grows /\ RelayInv' /\ SealedInv'
    BY <1>1, LocalStepGrows, StutterKeepsInv, SealedInvKept DEF SyncInv, RelayInv
  <1>3. \A q \in Process : MemoryInv(q, proc[q])'
    BY <1>1, <1>2, NoProcessStep
  <1>4. ASSUME NEW d \in Device PROVE StoreInv(d, store[d])'
    <2>1. PICK s : s = store[d]
      OBVIOUS
    <2>2. StoreInv(d, s)'
      BY <1>2, <2>1, StoreInvGrows DEF SyncInv, TypeOK, HeldInv
    <2> QED BY <1>1, <2>1, <2>2
  <1>5. HeldInv'
    BY <1>1, <1>4 DEF SyncInv, HeldInv, relayVars
  <1>6. TypeOK'
    <2>1. RelayTypeOK'
      BY <1>2 DEF RelayInv
    <2> QED BY <1>1, <2>1 DEF SyncInv, TypeOK, Process
  <1>7. NoLostEdit'
    BY <1>1, Zenon DEF SyncInv, NoLostEdit, Edits, InLog, KeptAside, relayVars, IsConflictRecord,
                ConflictID, Author
  <1> QED BY <1>2, <1>3, <1>5, <1>6, <1>7 DEF SyncInv, Process

(***************************************************************************)
(* SyncInv holds in every reachable state, for any number of devices,      *)
(* concurrent syncs, records, edits and faults.                            *)
(***************************************************************************)
THEOREM SyncIsCorrect == Spec => []SyncInv
  <1>1. SyncInv /\ [Next]_vars => SyncInv'
    <2> SUFFICES ASSUME SyncInv, [Next]_vars PROVE SyncInv'
      OBVIOUS
    <2>1. CASE UNCHANGED vars
      BY <2>1, StutteringKeepsInv
    <2>2. CASE \E d \in Device : UserStep(d)
      BY <2>2, UserStepKeepsInv
    <2>3. ASSUME NEW p \in Process, SyncStep(p) PROVE SyncInv'
      BY <2>3, BeginSyncKeepsInv, PushCandidateKeepsInv, SettleAcceptedKeepsInv,
         SettleSupersededKeepsInv, PreserveKeepsInv,
         SettlePreservedKeepsInv, BeginPullKeepsInv, FetchPageKeepsInv,
         CheckPageKeepsInv, ApplyPageKeepsInv, SMTT(30) DEF SyncStep
    <2>4. CASE \E p \in Process : Stop(p) \/ GiveUp(p)
      BY <2>4, StopKeepsInv, GiveUpKeepsInv
    <2>5. CASE LateArrival
      BY <2>5, LateArrivalKeepsInv
    <2> QED BY <2>1, <2>2, <2>3, <2>4, <2>5 DEF Next
  <1> QED BY SyncInvInit, <1>1, PTL DEF Spec

\* Stores, memories and messages are well formed.
THEOREM SyncTypeCorrect == Spec => []TypeOK
  <1>1. SyncInv => TypeOK
    BY DEF SyncInv
  <1> QED BY <1>1, SyncIsCorrect, PTL

\* No write of a user is ever lost, whatever stops, repeats or overlaps.
THEOREM SyncLosesNoEdit == Spec => []NoLostEdit
  <1>1. SyncInv => NoLostEdit
    BY DEF SyncInv
  <1> QED BY <1>1, SyncIsCorrect, PTL

\* No write is both accepted and kept aside as a conflict.
THEOREM SyncOneFate == Spec => []OneFate
  <1>1. ASSUME SyncInv PROVE OneFate
    <2> SUFFICES ASSUME NEW e \in Edits, InLog(e), KeptAside(e) PROVE FALSE
      BY DEF OneFate
    <2>1. e \in sealed /\ e \in Envelope /\ ~IsConflictRecord(e)
      BY <1>1 DEF Edits, SyncInv, TypeOK
    <2>2. Author(e) \in Device
      BY <2>1, SyncConstants DEF Author, Envelope
    <2>3. PICK f \in sealed : f.record = ConflictID(e)
      BY <1>1, <2>2 DEF KeptAside, SyncInv, HeldInv, StoreInv, Own
    <2>4. f.record \notin Base /\ f.record[2] = e.mutation
      BY <2>1, <2>3, ConflictIDType
    <2>5. outcome[e.mutation].accepted = 0
      BY <1>1, <2>4 DEF SyncInv, SealedInv, IsConflictRecord
    <2>6. outcome[e.mutation].accepted = 1
      BY <1>1, SMTT(30) DEF InLog, SyncInv, RelayInv, ExactlyOnce
    <2> QED BY <2>5, <2>6, SMTT(30)
  <1> QED BY <1>1, SyncIsCorrect, PTL

\* Every answer a push receives is one it can settle.
THEOREM SyncPushNeverWedges == Spec => []PushNeverWedges
  <1>1. ASSUME SyncInv PROVE PushNeverWedges
    <2> SUFFICES ASSUME NEW p \in Process, At(p, "push"),
                        NEW e \in Foremost(proc[p].queue)
                 PROVE  Settles(PutReply(e))
      BY DEF PushNeverWedges
    <2>1. e \in sealed /\ (e.record \in DOMAIN recordHead \/ e.rev = 1)
      BY <1>1, ForemostIsKnown DEF At
    <2> QED BY <1>1, <2>1, AnswerSettles
  <1> QED BY <1>1, SyncIsCorrect, PTL

\* No cursor and no page of a pull passes the relay's log.
THEOREM SyncCursorWithinLog == Spec => []CursorWithinLog
  <1>1. ASSUME SyncInv PROVE CursorWithinLog
    <2>1. \A d \in Device : store[d].cursor <= CurrentSeq
      BY <1>1 DEF SyncInv, HeldInv, StoreInv
    <2>2. ASSUME NEW p \in Process
          PROVE  /\ At(p, "pull") => /\ proc[p].since <= CurrentSeq
                                     /\ proc[p].through # 0 =>
                                          proc[p].since <= proc[p].through
                 /\ At(p, "fetched") \/ At(p, "filtered") => proc[p].next <= CurrentSeq
      <3>1. PICK m : m = proc[p]
        OBVIOUS
      <3>2. ProcOK(m) /\ MemoryInv(p, m) /\ CurrentSeq \in Nat
        BY <1>1, <3>1, SMTT(30) DEF SyncInv, TypeOK, RelayTypeOK, CurrentSeq
      <3> QED BY <3>1, <3>2, SMTT(30) DEF ProcOK, Idle, MemoryInv, At
    <2> QED BY <2>1, <2>2 DEF CursorWithinLog
  <1> QED BY <1>1, SyncIsCorrect, PTL

(***************************************************************************)
(* The composition implements the relay's own specification: whatever the  *)
(* devices and the network do, the relay only ever takes PutRecord steps,  *)
(* so all the relay's theorems hold of the whole system.                   *)
(***************************************************************************)
THEOREM SyncImplementsRelay == Spec => RelaySpec
  <1>1. Init => RelayInit
    BY DEF Init
  <1>2. SyncInv /\ [Next]_vars => [RelayNext]_relayVars
    <2> SUFFICES ASSUME SyncInv, [Next]_vars, ~UNCHANGED relayVars
                 PROVE  RelayNext
      OBVIOUS
    <2>1. ~\E d \in Device : UserStep(d)
      BY DEF UserStep, Add, Edit, Remove, DiscardConflict, ResolveMoot, ResolveKept, Write
    <2>2. ASSUME NEW p \in Process, SyncStep(p)
          PROVE  PushCandidate(p)
      BY <2>2 DEF SyncStep, BeginSync, SettleAccepted, SettleSuperseded, Preserve,
             SettlePreserved, BeginPull, FetchPage, CheckPage, ApplyPage
    <2>3. \A p \in Process : ~Stop(p) /\ ~GiveUp(p)
      BY DEF Stop, GiveUp
    <2>4. LateArrival \/ \E p \in Process : PushCandidate(p)
      <3>1. ~UNCHANGED vars
        BY DEF vars
      <3> QED BY <2>1, <2>2, <2>3, <3>1 DEF Next
    <2>5. PICK e : PutRecord(e) /\ (e \in late \/ \E p \in Process : /\ At(p, "push")
                                                             /\ e \in proc[p].queue)
      BY <2>4 DEF LateArrival, PushCandidate, Foremost
    <2>6. e \in Envelope
      BY <2>5, SMTT(30) DEF SyncInv, TypeOK, ProcOK, At, Idle
    <2> QED BY <2>5, <2>6 DEF RelayNext
  <1> QED BY <1>1, <1>2, SyncIsCorrect, PTL DEF Spec, RelaySpec
=============================================================================
