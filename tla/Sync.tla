-------------------------------- MODULE Sync --------------------------------
(***************************************************************************)
(* Devices editing their own copy of the vault and synchronising it        *)
(* through the relay (internal/syncengine/engine.go over the two stores).  *)
(*                                                                         *)
(* A device's control socket serves every request in a goroutine of its    *)
(* own and nothing serialises `sync', so a device runs one sync process    *)
(* per slot, and its user's operations interleave with all of them.  A     *)
(* process is stepped at every point where it leaves memory: a request to  *)
(* the relay, a transaction on the local store, a read whose result is     *)
(* used by a later step.  It may stop at any of them (a network error, a   *)
(* locked vault, a crash): what it held in memory is gone, what it         *)
(* committed stays.                                                        *)
(***************************************************************************)
EXTENDS RelayStore, VaultStore

CONSTANTS Device,       \* the enrolled devices
          Slot,         \* sync requests a device may be serving at once
          Base,         \* host, key and known_host record identifiers
          PageLimit,    \* syncengine.PageLimit
          MaxEdits,     \* bound: mutations after which a device's user stops
          MaxMutation,  \* bound: mutation identifiers per device
          MaxFaults     \* bound: syncs that stop before their end

ASSUME SyncConstants ==
  /\ PageLimit \in Nat \ {0}
  /\ MaxEdits \in Nat /\ MaxMutation \in Nat /\ MaxFaults \in Nat
  /\ MaxEdits <= MaxMutation
  /\ Mutation = Device \X (1..MaxMutation)
  /\ Digest = Mutation
  /\ Base \cap (Base \X Mutation) = {}
  /\ Record = Base \cup (Base \X Mutation)
  /\ Payload = BOOLEAN

VARIABLES store,   \* device -> its VaultStore
          minted,  \* device -> mutation identifiers used
          proc,    \* <<device, slot>> -> the sync process in that slot
          late,    \* writes whose sender gave up, still on their way
          sealed,  \* history: every envelope a device has sealed
          faults,  \* syncs that stopped before their end
          overlapped \* history: devices that have run two syncs at once

deviceVars == <<store, minted, proc, late, sealed, faults, overlapped>>
vars == <<relayVars, deviceVars>>

Process == Device \X Slot

-----------------------------------------------------------------------------
(* Writing locally.  Operations run under the manager's mutex; a sync may  *)
(* still move the head between an operation's read and its transaction,    *)
(* and then putRecordTx refuses the write and nothing changes.             *)

\* protocol.ConflictID: derived from the record and the rejected mutation.
ConflictID(e) == <<e.record, e.mutation>>

IsConflictRecord(e) == e.record \notin Base

Author(e) == e.mutation[1]

\* The k-th mutation device d seals from now.
Fresh(d, k) == <<d, minted[d] + k>>

Create(r, m, payload) ==
  [record |-> r, rev |-> 1, parent |-> NoDigest, mutation |-> m, digest |-> m,
   deleted |-> FALSE, payload |-> payload]

Update(s, r, m, deleted, payload) ==
  [record |-> r, rev |-> HeadEnv(s, r).rev + 1, parent |-> HeadEnv(s, r).digest,
   mutation |-> m, digest |-> m, deleted |-> deleted, payload |-> payload]

\* There is a revision after the head's.
CanGrow(s, r) == HasHead(s, r) /\ HeadEnv(s, r).rev < MaxRev

UserMayWrite(d, n) == minted[d] + n <= MaxEdits

\* One write of a user, committed by ApplyLocal.
Write(d, e) ==
  /\ store' = [store EXCEPT ![d] = ApplyLocal(@, e)]
  /\ minted' = [minted EXCEPT ![d] = @ + 1]
  /\ sealed' = sealed \cup {e}
  /\ UNCHANGED <<relayVars, proc, late, faults, overlapped>>

\* AddHost, AddKey: a new record under a new identifier.
Add(d, r) ==
  /\ UserMayWrite(d, 1)
  /\ \A e \in sealed : e.record # r
  /\ Write(d, Create(r, Fresh(d, 1), FALSE))

\* EditHost, ApproveKnownHost, RevokeKnownHost, SetKnownHostPending.
Edit(d, r) ==
  /\ UserMayWrite(d, 1)
  /\ Live(store[d], r) /\ CanGrow(store[d], r)
  /\ Write(d, Update(store[d], r, Fresh(d, 1), FALSE, FALSE))

\* removal: a tombstone.
Remove(d, r) ==
  /\ UserMayWrite(d, 1)
  /\ Live(store[d], r) /\ CanGrow(store[d], r)
  /\ Write(d, Update(store[d], r, Fresh(d, 1), TRUE, FALSE))

\* retirement: the conflict record is tombstoned.
Retirement(d, c, k) == Update(store[d], c, Fresh(d, k), TRUE, FALSE)

DiscardConflict(d, c) ==
  /\ UserMayWrite(d, 1)
  /\ Live(store[d], c) /\ CanGrow(store[d], c)
  /\ Write(d, Retirement(d, c, 1))

\* ResolveConflict of a removal whose record is already gone.
ResolveMoot(d, c) ==
  /\ UserMayWrite(d, 1)
  /\ Live(store[d], c) /\ CanGrow(store[d], c)
  /\ HeadEnv(store[d], c).payload
  /\ HasHead(store[d], c[1]) /\ ~Live(store[d], c[1])
  /\ Write(d, Retirement(d, c, 1))

\* ResolveConflict otherwise: the kept edit, or the kept removal, is written
\* again on the current head and the conflict record retired, together.  A
\* deleted record is written again only when the user asks to resurrect it.
ResolveKept(d, c, resurrect) ==
  LET removal == HeadEnv(store[d], c).payload
      again == Update(store[d], c[1], Fresh(d, 1), removal, FALSE)
      retire == Retirement(d, c, 2)
  IN  /\ UserMayWrite(d, 2)
      /\ Live(store[d], c) /\ CanGrow(store[d], c) /\ CanGrow(store[d], c[1])
      /\ Live(store[d], c[1]) \/ (resurrect /\ ~removal)
      /\ store' = [store EXCEPT ![d] = ApplyLocal(ApplyLocal(@, again), retire)]
      /\ minted' = [minted EXCEPT ![d] = @ + 2]
      /\ sealed' = sealed \cup {again, retire}
      /\ UNCHANGED <<relayVars, proc, late, faults, overlapped>>

ConflictsOf(d) == DOMAIN store[d].heads \ Base

UserStep(d) ==
  \/ \E r \in Base : Add(d, r) \/ Edit(d, r) \/ Remove(d, r)
  \/ \E c \in ConflictsOf(d) :
       \/ DiscardConflict(d, c)
       \/ ResolveMoot(d, c)
       \/ \E resurrect \in BOOLEAN : ResolveKept(d, c, resurrect)

-----------------------------------------------------------------------------
(* The sync process.  Its state is what it holds in memory between steps.  *)

Idle == [pc |-> "idle"]
Pushing(queue) == [pc |-> "push", queue |-> queue]
Answered(queue, e, reply) ==
  [pc |-> "answered", queue |-> queue, candidate |-> e, reply |-> reply]
Preserved(queue, e, head, copy) ==
  [pc |-> "preserved", queue |-> queue, candidate |-> e, head |-> head, copy |-> copy]
Pulling(since, through) == [pc |-> "pull", since |-> since, through |-> through]
Fetched(since, through, next) ==
  [pc |-> "fetched", since |-> since, through |-> through, next |-> next]
Filtered(through, next, batch) ==
  [pc |-> "filtered", through |-> through, next |-> next, batch |-> batch]

At(p, pc) == proc[p].pc = pc
Become(p, state) == proc' = [proc EXCEPT ![p] = state]
Commit(p, s) == store' = [store EXCEPT ![p[1]] = s]

NoteOverlap(p) ==
  overlapped' = IF \E q \in Process : q # p /\ q[1] = p[1] /\ ~At(q, "idle")
                THEN overlapped \cup {p[1]} ELSE overlapped

\* The relay must not be behind the cursor; then the outbox is read once.
BeginSync(p) ==
  /\ At(p, "idle")
  /\ store[p[1]].cursor <= CurrentSeq
  /\ Become(p, Pushing(store[p[1]].outbox))
  /\ NoteOverlap(p)
  /\ UNCHANGED <<relayVars, store, minted, late, sealed, faults>>

\* The order of the candidates: by revision within a record.
Foremost(queue) ==
  {e \in queue : \A f \in queue : f.record = e.record => e.rev <= f.rev}

\* The answers the client passes on to push; any other is an error that ends
\* the sync: other content under the same mutation, or a rejection without the
\* head it lost to.
Settles(reply) ==
  reply.kind = "accepted" \/ (reply.kind = "rejected" /\ reply.head # {})

\* PutRecord at the relay, and its answer.
PushCandidate(p) ==
  /\ At(p, "push")
  /\ \E e \in Foremost(proc[p].queue) :
       /\ PutRecord(e)
       /\ Become(p, IF Settles(PutReply(e))
                    THEN Answered(proc[p].queue \ {e}, e, PutReply(e))
                    ELSE Idle)
  /\ UNCHANGED <<store, minted, late, sealed, faults, overlapped>>

SettleAccepted(p) ==
  /\ At(p, "answered")
  /\ proc[p].reply.kind = "accepted"
  /\ Commit(p, AcceptOutbox(store[p[1]], proc[p].candidate, proc[p].reply.seq))
  /\ Become(p, Pushing(proc[p].queue))
  /\ UNCHANGED <<relayVars, minted, late, sealed, faults, overlapped>>

\* A rejected write of a conflict record gives way to the relay's copy.
SettleSuperseded(p) ==
  /\ At(p, "answered")
  /\ proc[p].reply.kind = "rejected"
  /\ IsConflictRecord(proc[p].candidate)
  /\ \E head \in proc[p].reply.head : Commit(p, Supersede(store[p[1]], head))
  /\ Become(p, Pushing(proc[p].queue))
  /\ UNCHANGED <<relayVars, minted, late, sealed, faults, overlapped>>

\* PreserveCandidate seals the copy; nothing is stored yet.
Preserve(p) ==
  LET d == p[1]
      e == proc[p].candidate
      c == ConflictID(e)
      copy == IF HasHead(store[d], c)
              THEN Update(store[d], c, Fresh(d, 1), FALSE, e.deleted)
              ELSE Create(c, Fresh(d, 1), e.deleted)
  IN  /\ At(p, "answered")
      /\ proc[p].reply.kind = "rejected"
      /\ ~IsConflictRecord(e)
      /\ HasHead(store[d], c) => CanGrow(store[d], c)
      /\ minted[d] < MaxMutation
      /\ minted' = [minted EXCEPT ![d] = @ + 1]
      /\ sealed' = sealed \cup {copy}
      /\ \E head \in proc[p].reply.head :
           Become(p, Preserved(proc[p].queue, e, head, copy))
      /\ UNCHANGED <<relayVars, store, late, faults, overlapped>>

\* Store.ResolveConflict, or the end of the sync when it fails.
SettlePreserved(p) ==
  LET s == store[p[1]]
  IN  /\ At(p, "preserved")
      /\ IF CanResolveConflict(s, proc[p].copy)
         THEN /\ Commit(p, ResolveConflict(s, proc[p].candidate, proc[p].copy,
                                           proc[p].head))
              /\ Become(p, Pushing(proc[p].queue))
         ELSE /\ Become(p, Idle)
              /\ UNCHANGED store
      /\ UNCHANGED <<relayVars, minted, late, sealed, faults, overlapped>>

\* The pull starts from the cursor as stored now.
BeginPull(p) ==
  /\ At(p, "push")
  /\ proc[p].queue = {}
  /\ Become(p, Pulling(store[p[1]].cursor, 0))
  /\ UNCHANGED <<relayVars, store, minted, late, sealed, faults, overlapped>>

\* One page.  The first one fixes the snapshot the pull runs to.
FetchPage(p) ==
  LET since == proc[p].since
      through == IF proc[p].through = 0 THEN CurrentSeq ELSE proc[p].through
  IN  /\ At(p, "pull")
      /\ \E next \in PageEnds(since, through, PageLimit) :
           Become(p, Fetched(since, through, next))
      /\ UNCHANGED <<relayVars, store, minted, late, sealed, faults, overlapped>>

(***************************************************************************)
(* ahead, for every envelope of the page: it is applied when it is new to  *)
(* the device or a later revision, and another digest at the revision the  *)
(* device holds is a fork, which ends the sync.  The store is read once    *)
(* per envelope; writes to different records commute, so reading the page  *)
(* in one step loses no interleaving.                                      *)
(***************************************************************************)
Ahead(s, e) == HasHead(s, e.record) => e.rev > HeadEnv(s, e.record).rev

\* Mutation of Fork: the same version, met again, counts as a fork.
ForkAgain(s, e) == HasHead(s, e.record) /\ e.rev = HeadEnv(s, e.record).rev

Fork(s, e) ==
  /\ HasHead(s, e.record)
  /\ e.rev = HeadEnv(s, e.record).rev
  /\ e.digest # HeadEnv(s, e.record).digest

CheckPage(p) ==
  LET s == store[p[1]]
      page == proc[p].since + 1 .. proc[p].next
  IN  /\ At(p, "fetched")
      /\ Become(p, IF \E i \in page : Fork(s, changeLog[i])
                   THEN Idle
                   ELSE Filtered(proc[p].through, proc[p].next,
                                 {i \in page : Ahead(s, changeLog[i])}))
      /\ UNCHANGED <<relayVars, store, minted, late, sealed, faults, overlapped>>

\* Mutation of ApplyPage: a page saves the position of the whole snapshot.
ApplyPageSavesThrough(p) ==
  LET s == store[p[1]]
      next == proc[p].next
  IN  /\ At(p, "filtered")
      /\ CanApplyRemoteBatch(s, changeLog, proc[p].batch)
      /\ Commit(p, ApplyRemoteBatch(s, changeLog, proc[p].batch, proc[p].through))
      /\ Become(p, IF next < proc[p].through
                   THEN Pulling(next, proc[p].through) ELSE Idle)
      /\ UNCHANGED <<relayVars, minted, late, sealed, faults, overlapped>>

\* ApplyRemoteBatch, then the next page when this one was not the last.
ApplyPage(p) ==
  LET s == store[p[1]]
      next == proc[p].next
  IN  /\ At(p, "filtered")
      /\ IF CanApplyRemoteBatch(s, changeLog, proc[p].batch)
         THEN /\ Commit(p, ApplyRemoteBatch(s, changeLog, proc[p].batch, next))
              /\ Become(p, IF next < proc[p].through
                           THEN Pulling(next, proc[p].through) ELSE Idle)
         ELSE /\ Become(p, Idle)
              /\ UNCHANGED store
      /\ UNCHANGED <<relayVars, minted, late, sealed, faults, overlapped>>

SyncStep(p) ==
  \/ BeginSync(p)
  \/ PushCandidate(p)
  \/ SettleAccepted(p) \/ SettleSuperseded(p)
  \/ Preserve(p) \/ SettlePreserved(p)
  \/ BeginPull(p) \/ FetchPage(p) \/ CheckPage(p) \/ ApplyPage(p)

-----------------------------------------------------------------------------
(* What the network and the machines do. *)

\* A sync stops: an error, a lost answer, a locked vault, a crash.
Stop(p) ==
  /\ ~At(p, "idle")
  /\ faults < MaxFaults
  /\ faults' = faults + 1
  /\ Become(p, Idle)
  /\ UNCHANGED <<relayVars, store, minted, late, sealed, overlapped>>

\* A sync gives up on a write that is still on its way to the relay ...
GiveUp(p) ==
  /\ At(p, "push")
  /\ \E e \in Foremost(proc[p].queue) : late' = late \cup {e}
  /\ faults < MaxFaults
  /\ faults' = faults + 1
  /\ Become(p, Idle)
  /\ UNCHANGED <<relayVars, store, minted, sealed, overlapped>>

\* ... and which arrives after all, with nobody to hear the answer.
LateArrival ==
  /\ \E e \in late : PutRecord(e) /\ late' = late \ {e}
  /\ UNCHANGED <<store, minted, proc, sealed, faults, overlapped>>

-----------------------------------------------------------------------------

Init ==
  /\ RelayInit
  /\ store = [d \in Device |-> EmptyStore]
  /\ minted = [d \in Device |-> 0]
  /\ proc = [p \in Process |-> Idle]
  /\ late = {}
  /\ sealed = {}
  /\ faults = 0
  /\ overlapped = {}

Next ==
  \/ \E d \in Device : UserStep(d)
  \/ \E p \in Process : SyncStep(p) \/ Stop(p) \/ GiveUp(p)
  \/ LateArrival

Spec == Init /\ [][Next]_vars

(***************************************************************************)
(* Sync is an explicit command.  Fairness says that the users of every     *)
(* device keep running it and that a sync which can take its next step     *)
(* takes it; it promises no delivery (a sync may stop MaxFaults times) and *)
(* nothing about when, or whether, users edit.                             *)
(***************************************************************************)
Fairness == \A p \in Process : WF_vars(SyncStep(p))

FairSpec == Spec /\ Fairness

-----------------------------------------------------------------------------
(* Type invariant: stores, process memories and messages are well formed.  *)
ReplyOK(reply) ==
  /\ reply.kind \in {"accepted", "rejected", "mismatch"}
  /\ reply.seq \in Nat
  /\ reply.head \subseteq Row

ProcOK(m) ==
  \/ m = Idle
  \/ m.pc = "push" /\ m.queue \subseteq Envelope
  \/ /\ m.pc = "answered" /\ m.queue \subseteq Envelope
     /\ m.candidate \in Envelope /\ ReplyOK(m.reply)
  \/ /\ m.pc = "preserved" /\ m.queue \subseteq Envelope
     /\ m.candidate \in Envelope /\ m.head \in Row /\ m.copy \in Envelope
  \/ m.pc = "pull" /\ m.since \in Nat /\ m.through \in Nat
  \/ m.pc = "fetched" /\ m.since \in Nat /\ m.through \in Nat /\ m.next \in Nat
  \/ /\ m.pc = "filtered" /\ m.through \in Nat /\ m.next \in Nat
     /\ m.batch \subseteq Nat

TypeOK ==
  /\ RelayTypeOK
  /\ store = [d \in Device |-> store[d]] /\ \A d \in Device : StoreOK(store[d])
  /\ minted \in [Device -> 0..MaxMutation]
  /\ proc = [p \in Process |-> proc[p]] /\ \A p \in Process : ProcOK(proc[p])
  /\ late \subseteq Envelope
  /\ sealed \subseteq Envelope
  /\ faults \in 0..MaxFaults

-----------------------------------------------------------------------------
\* The writes users made to their records; the rest are conflict records.
Edits == {e \in sealed : ~IsConflictRecord(e)}

InLog(e) == \E i \in 1..Len(changeLog) : changeLog[i] = e

\* A copy of the rejected write e is in the log or in its author's outbox.
KeptAside(e) ==
  \/ \E i \in 1..Len(changeLog) : changeLog[i].record = ConflictID(e)
  \/ \E f \in store[Author(e)].outbox : f.record = ConflictID(e)

(***************************************************************************)
(* No write of a user is ever lost: it is in the accepted log, still in    *)
(* its author's outbox, or kept aside as a conflict record that is itself  *)
(* accepted or queued -- through rejections, repeated and concurrent syncs,*)
(* stops between any two steps and requests that arrive late (engine.go    *)
(* push, store_records.go ResolveConflict and Supersede).                  *)
(***************************************************************************)
NoLostEdit ==
  \A e \in Edits : InLog(e) \/ e \in store[Author(e)].outbox \/ KeptAside(e)

(***************************************************************************)
(* A write has one fate: what the relay accepted is never also kept aside  *)
(* as a conflict, although the answer may have been lost and the write     *)
(* sent again after the record moved on (replayOutcome comes before        *)
(* parentMismatch).                                                        *)
(***************************************************************************)
OneFate == \A e \in Edits : ~(InLog(e) /\ KeptAside(e))

(***************************************************************************)
(* Whatever a sync may send next, it can settle the answer: a rejection    *)
(* comes with the head it lost to, and the same mutation is never sent     *)
(* with other content.  An answer push cannot settle would stop this and   *)
(* every later sync of the device at the same candidate.                   *)
(***************************************************************************)
PushNeverWedges ==
  \A p \in Process : At(p, "push") =>
    \A e \in Foremost(proc[p].queue) : Settles(PutReply(e))

(***************************************************************************)
(* The cursor tells the truth: of every record with no queued write, a     *)
(* device holds the last version at or before its cursor, or a later one.  *)
(* A page skipped by `ahead' or a head put back by AcceptOutbox must not   *)
(* leave the device behind a position it will never read again.  It does   *)
(* on a device that ran two syncs at once, which are therefore left out:   *)
(* both push the same candidate, and the second AcceptOutbox               *)
(* (store_records.go:367) puts it back as the head after the first sync    *)
(* has pulled a newer one and moved the cursor past it.                    *)
(***************************************************************************)
CursorIsHonest ==
  \A d \in Device \ overlapped : \A n \in 1..store[d].cursor :
    LET r == changeLog[n].record
    IN  Queued(store[d], r) = {} =>
          /\ HasHead(store[d], r)
          /\ \E j \in n..Len(changeLog) : changeLog[j] = HeadEnv(store[d], r)

(***************************************************************************)
(* The cursor never passes the relay's log: with a relay that was not      *)
(* restored, checkRelayNotBehind never refuses a sync and Changes never    *)
(* refuses a page as out of bounds.                                        *)
(***************************************************************************)
CursorWithinLog ==
  /\ \A d \in Device : store[d].cursor <= CurrentSeq
  /\ \A p \in Process :
       /\ At(p, "pull") => /\ proc[p].since <= CurrentSeq
                           /\ proc[p].through # 0 =>
                                proc[p].since <= proc[p].through
       /\ At(p, "fetched") \/ At(p, "filtered") => proc[p].next <= CurrentSeq

(***************************************************************************)
(* A conflict is a disagreement between devices: an edit is only set aside *)
(* when another device's write of the same record was accepted, as the     *)
(* listing of conflicts tells the user (cli/sync.go).                      *)
(***************************************************************************)
ConflictNeedsTwoDevices ==
  \A d \in Device : \A c \in ConflictsOf(d) :
    \E i \in 1..Len(changeLog) :
      changeLog[i].record = c[1] /\ Author(changeLog[i]) # c[2][1]

(***************************************************************************)
(* Once edits and faults stop, every device ends with an empty outbox and  *)
(* the relay's head of every record, and stays there.                      *)
(***************************************************************************)
Converged ==
  \A d \in Device :
    /\ store[d].outbox = {}
    /\ DOMAIN store[d].heads = DOMAIN recordHead
    /\ \A r \in DOMAIN recordHead : HeadEnv(store[d], r) = recordHead[r].env

Converges == <>[]Converged
=============================================================================
