# sshstate in TLA+

A verification project for sshstate: TLA+ modules that model how a vault is
made, edited, synchronised, shared with new machines, recovered and published
to OpenSSH; TLC configurations that check them on small instances; and TLAPS
proofs, for every instance, that synchronisation, membership, pairing, recovery,
sessions and the writing of files are safe.

## The system

sshstate keeps a user's SSH hosts, keys and host-key trust as encrypted, signed
*records* in a vault. Every machine (*device*) runs a per-user daemon with its
own copy of the vault in SQLite; an optional *relay* stores ciphertext and
orders writes. The parts, and how they interact:

| part | code (`src/internal`) | state | changed by |
|---|---|---|---|
| record envelope | `protocol/record.go`, `vault/record.go` | revision, parent digest, mutation id, tombstone flag | sealed once, immutable |
| relay record store | `relay/store.go` | change log, heads, outcome per mutation, ancestors | `PutRecord`; read by `Changes` |
| relay history, import | `relay/history.go` | history id, ancestors | `ImportRecords` |
| relay pairing | `relay/pairing.go` | session: confirmations, bundle, snapshot, expiry | create, confirm x2, complete, acknowledge |
| relay recovery | `relay/envelopes.go`, `relay/handlers.go` | recovery copy, challenges | upload; challenge, recover |
| vault store | `vault/store_records.go` | heads, outbox, cursor, ancestors | one transaction per method |
| sync engine | `syncengine/engine.go` | memory of a running sync | membership, relay check, push, pull |
| rejoin | `syncengine/rejoin.go` | batches of imports | after the relay lost history |
| vault operations | `vault/manager_*.go` | — (writes the store) | add, edit, remove, trust, resolve, discard, import |
| session | `vault/manager.go`, `agentsrv/` | keys in memory, idle and hard deadline | unlock, lock, expiry, use |
| membership | `membership/` | signed chain of enrolments and revocations | appended at the relay, copied by devices |
| pairing | `enroll/`, `daemon/pair.go`, `cli/pair.go` | joiner and approver | offer, approve, confirm, deliver, install |
| generation | `daemon/generate.go`, `sshconfig/generate.go` | public keys, config, known_hosts | the end of every changing request |
| user's config | `sshconfig/install.go`, `comment.go` | `~/.ssh/config` | install, import, setup, uninstall, and the user |

A user operation seals an envelope on the device's head of the record and, in
one transaction, makes it the head and queues it in the outbox. `sshstate sync`
pushes the outbox candidate by candidate. The relay accepts a write that
extends its head and otherwise answers with that head; the losing edit is then
kept as a *conflict record*, a record of its own under an identifier derived
from the losing write. The sync then pulls the relay's log in pages after its
cursor.

What makes this hard to test:

- the daemon serves each request in a goroutine: nothing serialises syncs of
  one device, and edits, captures and regenerations interleave with them;
- answers get lost and requests arrive after their sender gave up;
- state is read, something is awaited, and the state is used: pages are
  filtered before the transaction that applies them, chains are validated
  before the transaction that appends, files are planned before they are
  written, the user's config is parsed before prompts;
- everything may stop between any two steps, and what follows must finish it;
- edits that are each checked locally merge into tables nobody checked.

`PROJECT.json` lists each hazard at its line with the properties that cover it.

## Modules

| module | models |
|---|---|
| `Envelopes` | the envelope, what it vouches for, table insertion |
| `RelayStore` | the relay's record tables and `PutRecord`; `RelaySpec` is the relay on its own |
| `VaultStore` | the transactions of a device's store, as operators from store to store |
| `Sync` | devices, users, sync processes and the network over the two stores |
| `Rejoin` | `Sync` with a relay that is restored from a backup or lost, and devices that rejoin it |
| `Chain` | the membership chain: validation, who is a member, building events |
| `Membership` | the chain at the relay and its copies, with enrolments, revocations, writes and pulls |
| `PairingPromise`, `Pairing` | what pairing promises; joiner, approvers and relay session, which implement it |
| `Recovery` | the recovery copy on the relay and the machine that recovers from it |
| `Session` | making a vault, unlocking, the two deadlines, the agent, approvals, confirming the kit |
| `Merge` | the two stores with record contents and a sync in larger steps: the ground of the next two |
| `Hosts` | hosts, keys and jump hosts: edits, imports, conflicts, and which hosts are rendered |
| `Trust` | host keys: capture, approval, revocation, import, and the planned known_hosts |
| `Publish` | requests that change the vault and write the generated files beside each other |
| `UserConfig` | the user's config under install, import, setup, uninstall and an editor |
| `MC*` | instances for TLC |
| `SyncProofs` | proofs about the two stores; the inductive invariant of `Sync`, the theorems and the refinement of the relay's specification |
| `SyncCursorProofs` | the cursor's invariant, on devices whose syncs have not overlapped |
| `MembershipProofs` | the inductive invariants of `Membership`, and the theorems |
| `PairingProofs` | the inductive invariant of `Pairing`, the theorems and the refinement of `PairingPromise` |
| `RecoveryProofs`, `SessionProofs`, `PublishProofs`, `UserConfigProofs` | the inductive invariants of these modules, and the theorems |

`Rejoin` extends `Sync`; `Sync` and `Merge` are built from the same `RelayStore`
and `VaultStore`; `Hosts` and `Trust` extend `Merge`; `Membership`, `Pairing` and
`Recovery` share `Chain`. In every module a step ends where the code leaves
memory: a request, a transaction, a file operation, or a read used later. The
one exception is the end of a request in `Trust`, which plans known_hosts and
writes it in one step; `Publish` takes that apart.

### Correspondence with the code

`RelayStore`: `changeLog`, `recordHead`, `outcome`, `recordAncestor` are the
tables `change_log`, `record_head`, `mutation`, `record_ancestor`. `PutRecord`
is one transaction on the relay's single connection, hence one step; `Replay`,
`Reject` and `Accept` are its three ends and `PutReply` is the answer. Sequence
numbers are dense (`max(seq) + 1`), so position in `changeLog` is the number. A
page (`PageEnds`) may end early at any entry but has at least one: the byte
bound of `Changes`.

`VaultStore`: a store has the tables `records`, `outbox`, `record_history` and
the `records` cursor. `Put` is `putRecordTx`, `ReplaceHead` is `replaceHeadTx`,
and the other operators are the store methods of the same name. A `Can...`
predicate says when the transaction commits.

`Sync`: the daemon serves each request in a goroutine of its own, so a device
has a sync process per `Slot`. `overlapped` is a history variable: the devices
that have run two syncs at once.

| action | code |
|---|---|
| `Add`, `Edit`, `Remove` | `AddHost`/`AddKey`, `EditHost` and the trust changes, `removal` |
| `DiscardConflict`, `ResolveMoot`, `ResolveKept` | `Manager.DiscardConflict`, `Manager.ResolveConflict` |
| `BeginSync` | `checkRelayNotBehind`, then `Outbox` |
| `PushCandidate` | `Client.PutRecord` for the next candidate |
| `SettleAccepted`, `SettleSuperseded`, `Preserve`, `SettlePreserved` | the branches of `push`; `Preserve` is `PreserveCandidate`, which seals but stores nothing |
| `BeginPull`, `FetchPage`, `CheckPage`, `ApplyPage` | `pull` and `applyPage` |
| `Stop`, `GiveUp`, `LateArrival` | an error, crash or lock; a request outliving its sender |

`Rejoin` adds the history identifier and its origin, the operator's backup and
restore, and `Engine.Rejoin`: `StartRejoin` reads the heads, `ImportRecords` is
the relay's judgement of one head by the ancestors offered with it, the
`Settle...` actions are the branches of `settle` and `keepAside`, `FinishRejoin`
is `RestartHistory`.

`Membership`: `Compare`, `StoreChain` and `RecordDevices` are `syncMembership`;
`CheckWriter` and `CommitWrite` are the two halves of `PutRecord`; `CheckAppend`
and `Insert` are those of `AppendMembership`; `NoteRevocations` comes after a
complete pull. `overlapped` is again the devices that have served two requests
at once. A record is the device that wrote it. `Fresh` says that the
identifier a pairing or a recovery makes is new: nothing at the relay, at a
device or in a request names it. `IsPrefixOf` is the comparison by which
`syncMembership` tells a chain that went on from one that forked or fell back.

`Pairing`: a session is named by its joiner and a transcript is the joiner, the
approver and the approver's challenge. The relay's `ConfirmApprover` is two
steps, since it reads the chain before its transaction; expiry may strike
before any request. `StartChain` is the chain before any joiner comes, valid
and with exactly the approvers enrolled. `Pairing` implements `PairingPromise` under the mapping
`Promise` (agreement, keys sent, membership, vault held, session closed).

`Recovery`: `SyncNow` is a sync; `ReadState`, then building, uploading and noting
are the four steps of `refreshRecovery`; `Announce` and `Commit` are the two
halves of the install transaction, the relay's recovery handler in between. No
copy, and nothing noted, is `None`: the state of a chain that has not begun.

`Session`: every manager method is one step, for it holds the mutex. `Init`
writes row by row and stops anywhere; a signature, an approval, a confirmation
and the ticker are several calls.

`Hosts`, `Trust`: a payload is what decides a later step: alias, jump host and
key; destinations, key, marker and status. `Rendered` is `planHosts`, `PlanTrust`
is `planTrust`. A request in `Trust` is a list of what is left of its handler:
each reading that is used later, each transaction and the publishing is a step,
and other requests of the machine and its syncs come in between. `capture` is the
file OpenSSH adds accepted keys to, which `reconcileCapture` compares with the
vault as it was when it was read; approving, revoking, importing and resolving
are the other handlers, and `file` is the known_hosts they end with.

`Publish`: a request makes its change, reads hosts, keys and observations one
after the other, and writes public keys, config and known_hosts one after the
other. A pull brings its pages one by one.

`UserConfig`: the file is a sequence of lines of a few kinds, or there is none
(`NoFile`), and then an edit makes it without a backup or a second reading. Each
other edit reads, backs up, reads again and renames; `Off(l)` is a commented
line, whoever commented it.

Abstractions, and why they lose nothing the properties speak of:

- A digest identifies sealed content, so a device's digest is its mutation
  identifier; `RelayStore` on its own keeps them apart, so that other content
  under the same identifier is possible there.
- In `Sync`, `payload` says of a conflict record whether it keeps a removal, the
  only part of a plaintext that decides what `ResolveConflict` writes.
- A user operation on records is one step. Between its read of the head and its
  transaction only a sync can move that head, and then `putRecordTx` refuses
  the write and nothing changes.
- `CheckPage` reads the heads of a page in one step although the code reads
  them one by one: writes to different records commute.
- The queue is a set from which any record's lowest revision may go next. The
  code sorts by record identifier, which is random, and revision.
- Every vault has one key epoch, since rotation is not implemented.
- `Merge` pushes one write or pulls one entry per step, with no lost answers:
  those are the subject of `Sync`, and `Hosts` and `Trust` are about what merged
  tables say.
- Signatures verify when made with the key the code looks up; the relay is
  honest in the sense that it runs the code in `relay/`.

## Properties and runs

| run | instance | checks |
|---|---|---|
| `relay_store` | 2 records, 4 mutations, 3 digests, revisions to 3, every envelope | `HeadIsLatest`, `UnforkedLog`, `ExactlyOnce`, `StableHistory` |
| `sync_two_devices` | 2 devices, one sync each at a time, 2 edits each and a third to settle a conflict, 1 fault, fair | `NoLostEdit`, `OneFate`, `PushNeverWedges`, `CursorIsHonest`, `Converges` |
| `self_conflict` | 1 device, 3 edits | `ConflictNeedsTwoDevices`: violated |
| `membership` | 2 devices and the recovery kit, 2 requests at once, 3 events, 1 write, 1 fault | `ChainIsValid`, `LocalIsPrefix`, `WritersAreKnown`, `NotedIsSound` |
| `pairing` | 1 joiner, 2 approvers, 3 approvals, 3 faults, 1 revocation | `InstalledIsMember`, `KeepsPromise` |
| `rejoin` | 2 devices, 3 edits, 1 restore, 1 fault | `NothingLost`, `NothingOverwritten`, `RejoinedCursorIsHonest`, `OthersNotice` |
| `recovery` | 2 devices, 2 requests at once, 1 write, 3 events, 2 challenges, 2 faults, fair | `RecoveredIsMember`, `StaleCopyIsNoticed`, `RecoveryWorks` |
| `session` | 2 passwords, 1 client, 2 confirming commands, 2 ticks of the clock, fair | `OpenedIsComplete`, `UsesAreInTime`, `ProofIsFresh`, `KeysAreReleased`, `ApprovalsAreDropped` |
| `hosts` | 2 devices, 3 hosts, 1 key, 3 aliases, six vaults to start from, 2 edits | `PlanIsExact`, `SomeRemedyWorks`, `LocalEditsKeepWhole`, `CutImportResumes` |
| `trust` | 2 devices, 2 destinations, 2 keys, four vaults to start from, 2 requests, 2 user actions | `KeyIsShared`, `RevocationReaches`, `OnlyAgreeingKeys`, `ProhibitionStands` |
| `publish` | 2 requests at once, 1 host, 2 keys, 1 change beside a pull, 1 fault, fair | `PubFilesPresent`, `FilesCatchUp` |
| `config` | 6 files (one empty, one absent) and 2 vaults to start from, 4 commands, 1 save of the user's, 1 stop | `AliasesResolve`, `EveryChangeIsBackedUp`, `UninstallRestores` |

What they show:

- **The relay's tables agree** whatever is sent: the head is the record's last
  log entry, the log of a record is one unforked line, and a mutation is in the
  log exactly once if its outcome says so and never otherwise. Outcomes and
  entries never change.
- **No edit is lost** (`NoLostEdit`): it is accepted, queued, or kept aside in
  a conflict record that is itself accepted or queued. **It has one fate**
  (`OneFate`): an accepted write is never also kept aside.
- **Push never wedges**: the answer to the next candidate can always be
  settled. **The cursor is honest**: on a device that has not run two syncs at
  once, a clean record is never behind the cursor. **Devices converge** to the
  relay's heads once edits and faults stop, forks reported by a pull on the way included.
- **Membership is one line.** Concurrent enrolments and revocations leave a
  valid chain with a member in it; what a device stores is a prefix of it; every
  record taken in has its writer's key on file; and, on a device that has not
  served two requests at once, nothing of a revoked writer past the noted
  position is taken in.
- **Pairing keeps its promise.** With two approvers on one session, repeated
  approvals, expiries and failures, keys go out only after both users agreed on
  one transcript, then comes membership, then the vault, then the session
  closes, and none of it is undone.
- **A lost relay loses nothing**, by the documented procedure: every edit is on
  the relay, queued, kept aside or on a machine that has yet to rejoin, nothing
  unseen is replaced, and cursors are honest under the new numbering. That the
  other machines notice (`OthersNotice`) holds by any course.
- **Recovery works** when tried again, and what recovers is a member. A copy
  that fell behind is known to be stale by some machine.
- **A vault that opens is complete**, wherever its making was cut off. Keys are
  used within both deadlines and leave memory; approvals do too; a kit is
  confirmed by an answer to the newest challenge, in time, at the first attempt.
- **Exactly the usable hosts are rendered** (`PlanIsExact` compares `planHosts`
  with a definition by reachability over chains of any length). A local edit by
  itself breaks nothing, what a merge broke can be put right with a listed
  command, and an import cut off goes on where it stopped.
- **A first key and a revocation reach every machine** that has synced and
  published since. No known_hosts has two keys for a host, whatever two machines
  learned before they heard of each other (`OnlyAgreeingKeys`), and a prohibition
  the relay holds becomes a permission only when a user resolves a kept edit in
  its favour (`ProhibitionStands`).
- **The config never names a missing public key**, and the files catch up with
  the vault after any race, failure or stop.
- **Aliases go on resolving**, what an edit replaces is in a backup, and
  **uninstall gives the file back**, whichever commands were cut off in which
  order.

### Where a property has a premise

Some interleavings break what the documentation says in general. They are part
of the models: nothing is switched off. A history variable records that one has
happened, and the property speaks of the behaviours without it.

- `astray` in `Rejoin`: the relay was restored while a device had a write
  accepted that it had not pulled past; the first machine to sync or rejoin was
  not the most up-to-date one; a user edited while that machine was syncing or
  rejoining, or after a stopped sync had left a head behind a queued edit (as in
  `self_conflict`). Then an accepted write may be on one device only and never
  uploaded (`checkRelayNotBehind` looks at the cursor alone), an import may take
  a regressed head for a successor, and `keepAside`'s `Supersede` drops an edit
  made since the heads were read.
- `overlapped` in `Sync` and `Membership`: the devices that ran two syncs, or
  served two requests, at once. `AcceptOutbox` of one sync may put an older head
  back over one the other pulled, behind the cursor, and `syncMembership` may
  store a shorter chain over a longer one (`syncengine/engine.go:104` compares
  before it stores; the next sync brings the chain back). `CursorIsHonest` and
  `NotedIsSound` speak of the other devices, whatever these do.
- `crossed` in `Recovery`: an upload whose sender gave up arrived late, or two
  requests of one machine refreshed the copy at once. Of the two, one may upload
  an older copy and stop before it notes it, while the other has noted the newer
  one. `RecoveryWorks` supposes that the copy has the relay's chain: an attempt
  that dies after the relay took its enrolment and before the local commit leaves
  a chain the copy does not fit, and later attempts are refused.
- `unseen` in `UserConfig`: the user saved between the second reading and the
  rename, or, when an edit found no file, before its rename; between the
  parse and the commenting-out that uses its line numbers, or during an import's prompts.
  `UninstallRestores` is for files in which the user had commented out no
  directive: `ReactivateBlocks` cannot tell such a line below an imported block
  from its own.
- `Published` in `Trust`: the vaults are settled and every machine has planned
  since.
- `KeyIsShared` leaves out a key that another observation of the machine
  contests, and `RevocationReaches` an imported `@revoked` line that waits for
  review because another is approved for its host.

Further departures from the repository's statements that the models show and no
run states: a pulled head two revisions ahead covers an edit queued after the
sync read the outbox (the edit stays queued and is preserved by the next sync);
a write checked before a revocation may commit after it, and a machine that has
noted the revocation then refuses that entry; after a merge a rename can close a
jump loop, and a rename of a shared alias that another host jumps through is
refused, so that the other listed command is needed; `ResolveConflict` can write
a kept approval over a revocation; of two requests that regenerate at once, the
older plan may be written last until the next command; a request that ends
during an incomplete pull publishes the pages so far.

One run states such a sentence and is violated, with a finding in
`PROJECT.json`: in `self_conflict` an edit made while the record's previous edit
is being pushed is hidden when `AcceptOutbox` puts the pushed version back as the
head. The next edit starts from the older version, and the device ends in
conflict with itself.

### Bounds

`MaxEdits` bounds what users write, `MaxFaults` the failures, and `MaxMutation`
all the identifiers a device uses, preserved copies included. In
`sync_two_devices` two edits per device give create/edit, edit/edit, edit/delete
and delete/delete races, with the loser in the middle of any step of the other.
`FewEdits` leaves three edits to a run with a fault, and lets a user of a run
without one write a third time to retire a conflict, so that two machines settle
the same one and the relay refuses the second (`SettleSuperseded`). It cuts off
writes of users only, of whom fairness asks nothing.
`MaxMutation` 6 and `MaxRev` 8 cut nothing off (the state count is the same with
larger ones). `PageLimit` 2 with logs of up to six entries makes pulls of several
pages, and short pages occur. `self_conflict` needs three edits of one device.

`sync_two_devices` has one sync at a time per device: with two, a device may be
left behind for good (see `overlapped` above) and would not converge. What
overlapping syncs keep is proved for any number of them.

`membership` has room for an enrolment and a revocation by either device, or of
both by the kit, around a write, with one request stopped. `FewRequests` has two
requests under way; two of one device only of the founder, in a behaviour
without a fault.

`pairing` has an approval of each approver and one repeated. `rejoin` takes one
backup and one restore; `OneAtATime` keeps one sync or rejoin under way and `FewEdits` three
edits, one before the backup, one after and one more. Where the relay is neither
backed up nor lost each user may write a third time to settle a conflict, so
that two machines settle the same one.

`recovery` has two machines, so that one can be recovered, and as many challenges as attempts;
`FewRequests` has two requests under way. Two of one machine are followed only
until their uploads may cross or the one that began first ends, and only before a
failure or a recovery, so `RecoveryWorks` is checked on the behaviours that stay
within this; `StaleCopiesAreNoticed` is proved without it.

`session` has an idle timeout of one tick and a hard one of two, the smallest
that tell them apart, so that each can run out first. `hosts` starts from six
vaults (apart, behind, in a chain, with a key, and two with an edit kept aside)
because two edits from there reach the shared aliases, loops and dangling
references that would take six from nothing. `trust` does the same with four (no
observation; a line of two names; a refused key beside one under review; an
approval kept aside of a refused key). `MaxRequests` 2 lets two requests of a
machine be in hand at once beside the syncs of both, and `MaxActs` 2 lets users
accept a key on each machine, or accept one and act on it. The seven identifiers
of observations cut nothing off.
`publish` lets one local change run beside a pull whose log replaces a key.
`config` has time for setup, import, uninstall and one more command, on files with
notes, an empty block, a directive the user commented out, no lines, and none.

Symmetry is used where no liveness is checked: over devices in `hosts`, `rejoin`
and `trust`, where they are alike, over the slots in `membership`, and over
records, mutations and digests in `relay_store`.

### Fairness

- `Sync`: each device's sync process takes a step it can take: users run
  `sshstate sync` again and again, and a running sync goes on. It may still stop
  `MaxFaults` times. Nothing is assumed of users' edits.
- `Recovery`: whoever recovers tries again (`RecoverStep`).
- `Session`: the daemon's ticker fires every second for as long as the daemon
  runs (`TickerExpire`, `TickerDrop`). Users, clients and the clock need do
  nothing.
- `Publish`: a request is served to its end, and users go on running commands.

## Proofs

TLAPS proves the following for any sets of devices, slots, records, approvers,
clients and requests, any page limit, any timeouts and any bounds.

| module | theorems |
|---|---|
| `SyncProofs` | `RelayLogUnforked`, `RelayExactlyOnce`, `RelayHeadIsLatest`, `RelayHistoryIsStable`; lemmas on what each transaction of a device's store keeps, adds and drops; `SyncTypeCorrect`, `SyncLosesNoEdit`, `SyncOneFate`, `SyncPushNeverWedges`, `SyncCursorWithinLog`, `SyncImplementsRelay` |
| `SyncCursorProofs` | `SyncCursorIsHonest` |
| `MembershipProofs` | `ChainAlwaysValid`, `CopiesArePrefixes`, `WritersAlwaysKnown`, `PositionsAreSound` |
| `PairingProofs` | `InstalledAreMembers`, `PairingImplementsPromise` |
| `RecoveryProofs` | `RecoveredAreMembers`, `StaleCopiesAreNoticed` |
| `SessionProofs` | `OpenedAlwaysComplete`, `UsesAlwaysInTime`, `ProofsAlwaysFresh` |
| `PublishProofs` | `PubFilesAlwaysPresent` |
| `UserConfigProofs` | `ChangesAreBackedUp` |

The assumptions on constants are `EnvelopeConstants`, `SyncConstants`,
`ChainConstants`, `MembershipConstants`, `PairingConstants`, `RecoveryConstants`
and `SessionConstants`: identifiers of different kinds differ, bounds are
numbers, timeouts are positive, and the chain pairing starts from is valid. TLC
evaluates all of them in the runs. `Publish` and `UserConfig` need none, and no
theorem has a further assumption: where overlapping requests break a property,
the property itself leaves out the devices on which they did (`overlapped`), or
the behaviours in which they did (`crossed`).

### The relay and the syncs

`RelayInv` is inductive for the relay on its own; the head row being the last
entry is what turns a comparison with the head into a statement about the log.
By `SyncImplementsRelay` its theorems hold of the whole system.

The properties of `Sync` are not inductive: whether settling an answer loses an
edit depends on what the sync holds in memory. `SyncInv` adds

- `SealedInv`: an envelope is known by its mutation; a conflict record exists
  only for a write the relay rejected; a creation the relay has answered is of a
  record it knows;
- `HeldInv`: everything the log, the stores and the network hold was sealed,
  and a device queues only its own writes;
- `MemoryInv`: the answer a sync holds is still what the relay would answer,
  because outcomes are stable, so it may settle it however late;
- `Published`: a record the relay does not know has its creation queued ahead
  of its later revisions.

The steps are grouped: a step that only seals, one that only settles and one
that only moves a process each preserve the invariant by a lemma, and every
action is an instance of one.

### The cursor

`CursorIsHonest` says of a record with nothing queued that the device holds a
version at least as new as every log entry up to its cursor. Three things move
a head: a page, the answer to a push, and an edit made beside the sync. They
keep the property for reasons that lie in other places, and `CursorInv` names
them:

- a queued write that the relay has accepted is no older than any entry of its
  record up to the cursor (`Settled`), so that `AcceptOutbox` may put it back as
  the head;
- whatever a device has sent and still queues is among what its sync has yet to
  settle (`Asked`). Hence nothing queued has been sent once the sync pulls, the
  entries of its pages are none of the writes still queued, and an edit that
  hides a head is not in the log;
- the head in a rejection, and the head a preserved copy lost to, are no older
  than any entry up to the cursor;
- a page after `CheckPage` leaves out only what the store has, and brings what is
  newer than its heads (`PageInv`), also when the user wrote between the check
  and the transaction: such a record then has a queued write, of which the
  property says nothing until a later sync settles it.

That revisions of one record increase along the log (`RevisionsIncrease`) turns
the code's comparison of revisions into one of positions. The second point needs
that a sync runs alone, since a second one of the device may hold the same
candidate, settle it late and put it back over a newer head. So `CursorInv` is
about the devices outside `overlapped`, and adds that a running sync of such a
device is the only one (`AloneInv`). A step of any other device leaves them as
they were: it sends only writes of its own.

### Membership

That the relay's chain is valid does not say why an event checked against one
chain may be inserted into a later one. `MemberInv` says what each request in
flight has read and how that still fits:

- `MemoryInv`: the chain in hand is a prefix of the relay's; an event that was
  checked applies to the prefix it was checked against, so that the insertion
  either meets that prefix unchanged or is refused by its sequence number; a
  checked writer is enrolled for good; the device rows are stored before records
  are pulled;
- `LateInv`: the same of the requests that outlived their sender;
- `RecoveryInv`: the identifier of a recovering machine is used by nothing else;
- `LogInv`: the writers in the relay's log are enrolled.

`PositionsAreSound` needs more: what a noted position relates (the stored chain,
the log, the pages taken in) is read at four different steps of a sync
(`NotedInv`). It is about the devices outside `overlapped`, whose request, if
they serve one, is the only one: with two a sync may store a shorter chain over a
longer one, and the position is then of a device that the stored chain does not
revoke.

### Pairing

`InstalledIsMember` is about what a joiner read several requests ago, and
`KeepsPromise` compares what four participants know. `PairInv` adds that a
joiner's transcript, and the approval in its session, are of that joiner; that
the confirmations in a session, and an approver past its wait, rest on users who
said yes; that a joiner's user says yes to one transcript only; and that an
approver who is about to append the enrolment has its bundle at the relay.

For the refinement, every action is a step of `PairingPromise` or leaves all five
of its variables alone. A user's yes is `Agree` when it is the second of the two;
the relay's taking of the bundle is `Send`; the relay's append is `Admit`; the
installation is `Hold`; the acknowledgement is `Close`. One lemma per kind of step
shows which of the five sets it can change.

### Recovery

What a sync uploads, what it notes as published and what a recovering machine
installs was each read steps earlier. `CopyInv` says that all of it is a past
state of the relay (a prefix of the chain with a sequence number reached by
then), and that the enrolment of a recovering machine is, once announced, in the
relay's chain and nobody else's; hence `RecoveredAreMembers`. For
`StaleCopiesAreNoticed`, `NoticeInv` orders what one request has read and counts
a machine that has uploaded and not yet noted with those that noted. It holds
until uploads have `crossed`, and adds that until then a request which refreshes
the copy is the only one of its machine to do so.

### Session and files

Three parts of `Session`'s state are independent, and each has its invariant.
The rows: `Init` leaves the key epoch, which `Unlock` reads, for the end, and the
device identifier, which a manager reads, beside it. The deadlines: the session's
hard one is counted from the password and its idle one from the last activity,
and a use looks at both under the mutex. The challenge: the one outstanding is
the newest issued and no answer to it has been looked at.

In `Publish` every request holds a plan that may be outdated. `PublishInv` says
that a request about to write the config has seen every public key of its own
plan written, and files are only added, so that it does not matter which of
several outdated plans is written last.

In `UserConfig` the backup, the second reading and the rename are three steps.
`BackupInv` says that from the backup on the text that was read is in it, and
that between the second reading and the rename the file is that text, or is
still absent if it was, or the user saved where no command looks (`unseen`).

### Only model-checked

- Liveness is out of the prover's reach: `Converges`, `RecoveryWorks`,
  `KeysAreReleased`, `ApprovalsAreDropped`, `FilesCatchUp`.
- `Rejoin` (`NothingLost`, `NothingOverwritten`, `RejoinedCursorIsHonest`,
  `OthersNotice`) builds on a recursive definition (`Built`), which the prover
  cannot reason about.
- `Hosts` (`PlanIsExact`, `SomeRemedyWorks`, `LocalEditsKeepWhole`,
  `CutImportResumes`) and `Trust` (`KeyIsShared`, `RevocationReaches`,
  `OnlyAgreeingKeys`, `ProhibitionStands`) are about the results of
  walks over jump chains and of folds over tables, and `AliasesResolve` and
  `UninstallRestores` in `UserConfig` about folds over the lines of a file: what
  those compute for every input would need induction over data.

## Not modelled

- The bootstrap secret, the connect command and the first history of a relay
  (`relay/auth.go`, `BootstrapHistory`): modelled relays have their vault.
- Nonces and windows of signed requests (`httpsig/`, `relay/auth.go`): a request
  of a member is served. The signature base is a pure function over bytes.
- Collecting a joiner's snapshot or an export (`manager_sync.go`,
  `daemon/sync.go buildExport`): `Pairing` and `Recovery` take them as one read
  of the store. The code reads table by table, so an edit or a sync in between
  may show in one and not the other.
- The back-fill of ancestors for databases of an older version, and merging
  membership into a relay that lost events.
- Cryptographic primitives (assumed), key rotation (types without an
  operation), canonical JSON, archive writing, the text of `ssh_config` and
  `known_hosts` beyond the kinds of lines above, the doctor (reads only), the
  command line's wording, operating-system services and sockets (I/O).

`PROJECT.json` lists every component with its status and, for each definition,
the lines it models.
