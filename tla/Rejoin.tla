------------------------------- MODULE Rejoin -------------------------------
(***************************************************************************)
(* A relay restored from a backup, or lost and started again, and the      *)
(* devices that rejoin it (internal/syncengine/rejoin.go,                  *)
(* internal/relay/history.go), on top of Sync.  The relay names its        *)
(* numbering of the log with a history identifier and devices keep it      *)
(* beside their cursor.  A rejoining device offers each of its heads with  *)
(* the digests of the versions it has seen, settles the relay's answer in  *)
(* its store, and starts pulling from 0.                                   *)
(*                                                                         *)
(* The heads are offered one by one: the code's batches are a matter of    *)
(* size, and two heads never concern the same record.  Uploading missing   *)
(* membership events is left to Membership.                                *)
(***************************************************************************)
EXTENDS Sync

CONSTANT MaxRestores  \* bound: restores and losses of the relay

ASSUME RejoinConstants == MaxRestores \in Nat

VARIABLES history,   \* the relay's history identifier
          origin,    \* history_origin
          backup,    \* the relay's tables as saved, with their history
          restores,
          seen,      \* by device, the history it stored; 0 for none
          rejoin,    \* by device, its rejoin in progress
          waiting,   \* devices that have not synced since the last restore
          rejoined,  \* devices that have rejoined since
          astray     \* history: whether the documented procedure was left

rejoinVars == <<history, origin, backup, restores, seen, rejoin, waiting, rejoined,
                astray>>
allVars == <<vars, rejoinVars>>

NotRejoining == [pc |-> "none"]
RejoinAt(d, pc) == rejoin[d].pc = pc

-----------------------------------------------------------------------------
(* The relay's operator. *)

NoTables == [log |-> <<>>, heads |-> EmptyTable, outcomes |-> EmptyTable,
             ancestors |-> {}, history |-> 0, origin |-> "seeded"]

TakeBackup ==
  /\ backup = NoTables /\ restores = 0 /\ changeLog # <<>>
  /\ backup' = [log |-> changeLog, heads |-> recordHead, outcomes |-> outcome,
                ancestors |-> recordAncestor, history |-> history, origin |-> origin]
  /\ UNCHANGED <<vars, history, origin, restores, seen, rejoin, waiting, rejoined,
                 astray>>

\* Every write the relay accepted is at or before its writer's cursor: no
\* device was stopped between an acceptance and its pull.
Settled ==
  \A d \in Device : \A r \in DOMAIN store[d].heads :
    store[d].heads[r].seq <= store[d].cursor

\* The relay comes back with the backup's tables or, seeded anew by the first
\* device to connect, with none; its connections are gone.
RestoreRelay ==
  /\ restores < MaxRestores
  /\ Len(backup.log) < CurrentSeq
  /\ astray' = (astray \/ ~Settled)
  /\ \A d \in Device : RejoinAt(d, "none")
  /\ restores' = restores + 1
  /\ changeLog' = backup.log /\ recordHead' = backup.heads
  /\ outcome' = backup.outcomes /\ recordAncestor' = backup.ancestors
  /\ history' = IF backup = NoTables THEN history + 1 ELSE backup.history
  /\ origin' = backup.origin
  /\ proc' = [p \in Process |-> Idle] /\ late' = {}
  /\ waiting' = Device /\ rejoined' = {}
  /\ UNCHANGED <<store, minted, sealed, faults, overlapped, backup, seen, rejoin>>

-----------------------------------------------------------------------------
(* checkRelayNotBehind. *)

HistoryChanged(d) ==
  \/ seen[d] = 0 /\ store[d].cursor # 0 /\ origin # "created"
  \/ seen[d] # 0 /\ seen[d] # history

RelayBehind(d) == store[d].cursor > CurrentSeq

NeedsRejoin(d) == HistoryChanged(d) \/ RelayBehind(d)

\* docs/cli-flows.md, 9: the most up-to-date machine rejoins first.
FirstToRejoin(d) ==
  waiting = Device => \A x \in Device : store[x].cursor <= store[d].cursor

\* A sync that passes the check; a device without a stored history adopts it.
CheckedBegin(p) ==
  LET d == p[1] IN
  /\ ~NeedsRejoin(d) /\ RejoinAt(d, "none")
  /\ astray' = (astray \/ ~FirstToRejoin(d))
  /\ BeginSync(p)
  /\ seen' = [seen EXCEPT ![d] = history]
  /\ waiting' = waiting \ {d}
  /\ UNCHANGED <<history, origin, backup, restores, rejoin, rejoined>>

-----------------------------------------------------------------------------
(* Engine.Rejoin. *)

StartRejoin(d) ==
  /\ RejoinAt(d, "none") /\ \A s \in Slot : At(<<d, s>>, "idle")
  /\ NeedsRejoin(d)
  /\ astray' = (astray \/ ~FirstToRejoin(d))
  /\ rejoin' = [rejoin EXCEPT ![d] =
       [pc |-> "importing", stored |-> seen[d], history |-> history,
        todo |-> {HeadEnv(store[d], r) : r \in DOMAIN store[d].heads}]]
  /\ UNCHANGED <<vars, history, origin, backup, restores, seen, waiting, rejoined>>

SeenBy(d, r) == {g \in Digest : <<r, g>> \in store[d].ancestors}

ClaimsAncestor(e, ancestors, g) == e.parent = g \/ g \in ancestors

\* Mutation of ImportOutcome: what does not extend the head replaces it.
ImportOverwrites(e, ancestors) ==
  IF e.record \in DOMAIN recordHead /\ recordHead[e.record].env.digest = e.digest
  THEN "current" ELSE "imported"

\* importOne's decision.
ImportOutcome(e, ancestors) ==
  LET known == e.record \in DOMAIN recordHead
      head == recordHead[e.record].env
  IN  CASE known /\ head.digest = e.digest -> "current"
        [] known /\ head.digest # e.digest /\ ~ClaimsAncestor(e, ancestors, head.digest) ->
             IF <<e.record, e.digest>> \in recordAncestor THEN "behind" ELSE "diverged"
        [] OTHER -> "imported"

AncestorsOf(e, ancestors) == Vouches(e) \cup {<<e.record, g>> : g \in ancestors}

\* Mutation of ImportRecords: the history is kept.
ImportKeepsHistory(e, ancestors, stored) ==
  LET out == ImportOutcome(e, ancestors) IN
  /\ recordAncestor' = IF out \in {"current", "imported"}
       THEN recordAncestor \cup AncestorsOf(e, ancestors) ELSE recordAncestor
  /\ IF out = "imported"
     THEN /\ changeLog' = Append(changeLog, e)
          /\ recordHead' = Upsert(recordHead, e.record, [env |-> e, seq |-> CurrentSeq + 1])
          /\ outcome' = IF Replayed(e) THEN outcome
                        ELSE Upsert(outcome, e.mutation,
                               [digest |-> e.digest, accepted |-> 1, seq |-> CurrentSeq + 1])
     ELSE UNCHANGED <<changeLog, recordHead, outcome>>
  /\ UNCHANGED <<history, origin>>

\* ImportRecords with one record: one transaction.  A caller still on the
\* relay's history restarts it, so that every other device notices.
ImportRecords(e, ancestors, stored) ==
  LET out == ImportOutcome(e, ancestors)
      restart == out = "imported" /\ stored = history
  IN
  /\ recordAncestor' = IF out \in {"current", "imported"}
       THEN recordAncestor \cup AncestorsOf(e, ancestors) ELSE recordAncestor
  /\ IF out = "imported"
     THEN /\ changeLog' = Append(changeLog, e)
          /\ recordHead' = Upsert(recordHead, e.record, [env |-> e, seq |-> CurrentSeq + 1])
          /\ outcome' = IF Replayed(e) THEN outcome
                        ELSE Upsert(outcome, e.mutation,
                               [digest |-> e.digest, accepted |-> 1, seq |-> CurrentSeq + 1])
     ELSE UNCHANGED <<changeLog, recordHead, outcome>>
  /\ history' = IF restart THEN history + 1 ELSE history
  /\ origin' = IF restart THEN "restarted" ELSE origin

\* flush: the relay imports one head and answers.
Import(d) ==
  /\ RejoinAt(d, "importing")
  /\ \E e \in rejoin[d].todo :
       /\ ImportRecords(e, SeenBy(d, e.record), rejoin[d].stored)
       /\ rejoin' = [rejoin EXCEPT ![d] =
            [pc |-> "answered", stored |-> @.stored, history |-> history',
             todo |-> @.todo \ {e}, mine |-> e,
             outcome |-> ImportOutcome(e, SeenBy(d, e.record)),
             head |-> IF e.record \in DOMAIN recordHead' THEN {recordHead'[e.record]} ELSE {}]]
  /\ UNCHANGED <<store, minted, proc, late, sealed, faults, overlapped, backup, restores,
                 seen, waiting, rejoined, astray>>

\* dropPendingTx: the queued writes of a record up to a revision.
DropPending(s, e) ==
  StoreOf(s.heads, {f \in s.outbox : f.record = e.record => f.rev > e.rev},
          s.cursor, s.ancestors)

\* PreserveCandidate's copy of a version that went a different way.
CopyOf(d, e) ==
  LET c == ConflictID(e)
  IN  IF HasHead(store[d], c) THEN Update(store[d], c, Fresh(d, 1), FALSE, e.deleted)
                              ELSE Create(c, Fresh(d, 1), e.deleted)

SettleStep(d) ==
  /\ RejoinAt(d, "answered")
  /\ rejoin' = [rejoin EXCEPT ![d] = [pc |-> "importing", stored |-> @.stored,
                                      history |-> @.history, todo |-> @.todo]]
  /\ UNCHANGED <<relayVars, proc, late, faults, overlapped, history, origin, backup,
                 restores, seen, waiting, rejoined, astray>>

\* AcceptImported, for imported and current.
SettleImported(d) ==
  /\ rejoin[d].pc = "answered" /\ rejoin[d].outcome \in {"imported", "current"}
  /\ \E head \in rejoin[d].head :
       store' = [store EXCEPT ![d] =
                   DropPending(ReplaceHead(@, rejoin[d].mine, head.seq), rejoin[d].mine)]
  /\ SettleStep(d) /\ UNCHANGED <<minted, sealed>>

SettleBehind(d) ==
  /\ rejoin[d].pc = "answered" /\ rejoin[d].outcome = "behind"
  /\ store' = [store EXCEPT ![d] = DropPending(@, rejoin[d].mine)]
  /\ SettleStep(d) /\ UNCHANGED <<minted, sealed>>

\* Mutation of SettleDiverged: the relay's head is adopted, no copy is kept.
SettleDivergedPlain(d) ==
  /\ rejoin[d].pc = "answered" /\ rejoin[d].outcome = "diverged"
  /\ \E head \in rejoin[d].head :
       store' = [store EXCEPT ![d] = Supersede(@, head)]
  /\ SettleStep(d) /\ UNCHANGED <<minted, sealed>>

\* keepAside: the copy is queued and the relay's head adopted, together; all
\* queued writes of the record go.  A conflict record keeps no copy.
SettleDiverged(d) ==
  LET e == rejoin[d].mine IN
  /\ rejoin[d].pc = "answered" /\ rejoin[d].outcome = "diverged"
  /\ \E head \in rejoin[d].head :
       IF IsConflictRecord(e)
       THEN /\ store' = [store EXCEPT ![d] = Supersede(@, head)]
            /\ UNCHANGED <<minted, sealed>>
       ELSE /\ minted[d] < MaxMutation
            /\ store' = [store EXCEPT ![d] = Supersede(ApplyLocal(@, CopyOf(d, e)), head)]
            /\ minted' = [minted EXCEPT ![d] = @ + 1]
            /\ sealed' = sealed \cup {CopyOf(d, e)}
  /\ SettleStep(d)

\* Mutation of FinishRejoin: the cursor is kept.
FinishKeepsCursor(d) ==
  /\ RejoinAt(d, "importing") /\ rejoin[d].todo = {}
  /\ seen' = [seen EXCEPT ![d] = rejoin[d].history]
  /\ rejoin' = [rejoin EXCEPT ![d] = NotRejoining]
  /\ waiting' = waiting \ {d} /\ rejoined' = rejoined \cup {d}
  /\ UNCHANGED <<vars, history, origin, backup, restores, astray>>

\* RestartHistory.
FinishRejoin(d) ==
  /\ RejoinAt(d, "importing") /\ rejoin[d].todo = {}
  /\ store' = [store EXCEPT ![d].cursor = 0]
  /\ seen' = [seen EXCEPT ![d] = rejoin[d].history]
  /\ rejoin' = [rejoin EXCEPT ![d] = NotRejoining]
  /\ waiting' = waiting \ {d} /\ rejoined' = rejoined \cup {d}
  /\ UNCHANGED <<relayVars, minted, proc, late, sealed, faults, overlapped,
                 history, origin, backup, restores, astray>>

\* A rejoin stops; what was settled stays, and the command is run again.
StopRejoin(d) ==
  /\ ~RejoinAt(d, "none") /\ faults < MaxFaults
  /\ faults' = faults + 1
  /\ rejoin' = [rejoin EXCEPT ![d] = NotRejoining]
  /\ UNCHANGED <<relayVars, store, minted, proc, late, sealed, overlapped, history, origin,
                 backup, restores, seen, waiting, rejoined, astray>>

-----------------------------------------------------------------------------

RejoinInit ==
  /\ Init
  /\ history = 1 /\ origin = "created" /\ backup = NoTables /\ restores = 0
  /\ seen = [d \in Device |-> 0]
  /\ rejoin = [d \in Device |-> NotRejoining]
  /\ waiting = {} /\ rejoined = {} /\ astray = FALSE

\* A stopped sync has left a head behind an edit queued after it.
Hidden(d) ==
  \E e \in store[d].outbox : HeadEnv(store[d], e.record).rev < e.rev

\* An edit, at any time: also while a sync or a rejoin of the device runs.
EditStep(d) ==
  /\ astray' = \/ astray \/ ~RejoinAt(d, "none")
               \/ \E s \in Slot : ~At(<<d, s>>, "idle")
               \/ Hidden(d)
  /\ UserStep(d)
  /\ UNCHANGED <<history, origin, backup, restores, seen, rejoin, waiting, rejoined>>

RunningSync(p) ==
  /\ \/ PushCandidate(p) \/ SettleAccepted(p) \/ SettleSuperseded(p)
     \/ Preserve(p) \/ SettlePreserved(p)
     \/ BeginPull(p) \/ FetchPage(p) \/ CheckPage(p) \/ ApplyPage(p)
     \/ Stop(p) \/ GiveUp(p)
  /\ UNCHANGED rejoinVars

RejoinStep(d) ==
  \/ StartRejoin(d) \/ Import(d)
  \/ SettleImported(d) \/ SettleBehind(d) \/ SettleDiverged(d)
  \/ FinishRejoin(d) \/ StopRejoin(d)

RejoinNext ==
  \/ TakeBackup \/ RestoreRelay
  \/ LateArrival /\ UNCHANGED rejoinVars
  \/ \E d \in Device : EditStep(d) \/ RejoinStep(d)
  \/ \E p \in Process : CheckedBegin(p) \/ RunningSync(p)

RejoinSpec == RejoinInit /\ [][RejoinNext]_allVars

-----------------------------------------------------------------------------
(* Properties.  The first three are about relays that are restored and     *)
(* devices that rejoin as docs/cli-flows.md, 9, has it.  A history is      *)
(* astray once a relay was restored although a device had stopped between  *)
(* an acceptance and its pull, a machine rejoined before one that was      *)
(* ahead of it, or a user edited a vault in the middle of its sync or      *)
(* rejoin, or after a stopped sync left a head behind a queued edit.       *)

\* f was written on e: the parents of sealed envelopes lead from f back to e.
RECURSIVE Built(_, _)
Built(f, e) ==
  f = e \/ \E g \in sealed : /\ g.record = f.record /\ g.digest = f.parent
                             /\ Built(g, e)

\* A version somebody still has to show for it: accepted, queued, kept aside
\* as a conflict record, or the head of a device yet to settle with the relay.
Kept(f) ==
  \/ InLog(f)
  \/ \E d \in Device : f \in store[d].outbox
  \/ \E i \in 1..Len(changeLog) : changeLog[i].record = ConflictID(f)
  \/ \E d \in Device : \E g \in store[d].outbox : g.record = ConflictID(f)
  \/ \E d \in waiting : HasHead(store[d], f.record) /\ HeadEnv(store[d], f.record) = f
  \/ \E d \in waiting : HasHead(store[d], ConflictID(f))

(***************************************************************************)
(* A relay restored from an older backup, or lost, costs no edit           *)
(* (cli/rejoin_test.go, TestARelayRestoredFromAnOlderBackupLosesNothing;   *)
(* syncengine/rejoin.go): every version a user wrote, or one written on    *)
(* it, is accepted, queued, kept aside, or held by a device that has yet   *)
(* to rejoin.  For users who keep to the documented order and do not edit  *)
(* while a sync or rejoin of that machine runs, and a relay that stopped   *)
(* between syncs: `astray' has every other course.                         *)
(***************************************************************************)
NothingLost ==
  ~astray => \A e \in Edits : \E f \in Edits : Built(f, e) /\ Kept(f)

(***************************************************************************)
(* The relay's line is never rewritten silently: each accepted version of  *)
(* a record was written on the one before it, imports included, so nothing *)
(* a device had not built on is replaced (relay/history.go importOne), by  *)
(* the same course.                                                        *)
(***************************************************************************)
NothingOverwritten ==
  ~astray =>
    \A i, k \in 1..Len(changeLog) :
      i < k /\ changeLog[i].record = changeLog[k].record =>
        Built(changeLog[k], changeLog[i])

(***************************************************************************)
(* A device that settled with the relay has an honest cursor again, under  *)
(* the relay's new numbering: of every record with no queued write it      *)
(* holds what each entry up to its cursor says, or a version written on it *)
(* (RestartHistory, and pulling again what was pulled before), by the same *)
(* course.                                                                 *)
(***************************************************************************)
RejoinedCursorIsHonest ==
  ~astray =>
    \A d \in Device \ waiting : ~NeedsRejoin(d) =>
      \A n \in 1..store[d].cursor :
        LET r == changeLog[n].record
        IN  Queued(store[d], r) = {} =>
              HasHead(store[d], r) /\ Built(HeadEnv(store[d], r), changeLog[n])

(***************************************************************************)
(* Once one machine rejoins, every other machine's sync is refused until   *)
(* it rejoins too (docs/cli-flows.md, 9): the log may have grown past      *)
(* their cursors again, so only the restarted history tells them           *)
(* (relay/history.go ImportRecords, syncengine checkRelayNotBehind).       *)
(***************************************************************************)
OthersNotice ==
  rejoined # {} =>
    \A d \in waiting : store[d].cursor # 0 => NeedsRejoin(d)
=============================================================================
