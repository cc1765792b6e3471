----------------------------- MODULE Membership -----------------------------
(***************************************************************************)
(* The relay's membership chain, the copy every device keeps of it, and    *)
(* what both decide with it: who may append, who may write, whose records  *)
(* a pull accepts.  (internal/relay/store.go, internal/syncengine, the     *)
(* revoke and pairing handlers of internal/daemon, vault.Restore.)         *)
(*                                                                         *)
(* A record is abstracted to the device that wrote it: heads and parents   *)
(* are RelayStore's subject.  A device serves one request per slot; every  *)
(* read whose result a later step uses is a step of its own, at the relay  *)
(* too, where a handler reads the chain outside the transaction it opens.  *)
(***************************************************************************)
EXTENDS Chain, Integers

CONSTANTS Slot,        \* requests a device may be serving at once
          MaxEvents,   \* bound: events a chain may hold
          MaxWrites,   \* bound: records written
          MaxFaults    \* bound: requests that stop before their end

\* What a request is for, when it is not to enrol the device it names.
Purpose == {"sync", "self", "install"}

ASSUME MembershipConstants ==
  /\ MaxEvents \in Nat /\ MaxWrites \in Nat /\ MaxFaults \in Nat
  /\ Device \cap Purpose = {}

VARIABLES membership,  \* relay table membership, in chain_seq order
          log,         \* relay table change_log: the writer of each record
          local,       \* device -> table membership; <<>> before a vault exists
          known,       \* device -> table device: the writers it can verify
          cursor,      \* device -> cursor "records"
          noted,       \* device -> cursors "revoked_at:*", Absent when not stored
          notice,      \* devices whose revoked_notice is set
          invited,     \* joiner -> seq of the bundle delivered to it
          proc,        \* <<device, slot>> -> the request in that slot
          late,        \* relay handlers whose client gave up
          overlapped,  \* history: devices that have served two requests at once
          faults

vars == <<membership, log, local, known, cursor, noted, notice, invited,
          proc, late, overlapped, faults>>
relayVars == <<membership, log>>
deviceVars == <<local, known, cursor, noted, notice>>

Process == Device \X Slot
Absent == -1
Idle == [pc |-> "idle"]

At(p, pc) == proc[p].pc = pc
Become(p, state) == proc' = [proc EXCEPT ![p] = state]
Goto(p, pc) == Become(p, [proc[p] EXCEPT !.pc = pc])

\* A request begins, beside another of its device or alone.
NoteOverlap(p) ==
  overlapped' = IF \E q \in Process \ {p} : q[1] = p[1] /\ ~At(q, "idle")
                THEN overlapped \cup {p[1]} ELSE overlapped

Installed(d) == local[d] # <<>>

\* pair and recover each make a new identifier: it is used once.
Fresh(x) ==
  /\ ~Installed(x) /\ invited[x] = Absent
  /\ \A q \in Process : q[1] = x => At(q, "idle")

Init ==
  /\ membership = <<Root>>
  /\ log = <<>>
  /\ local = [d \in Device |-> IF d = Founder THEN <<Root>> ELSE <<>>]
  /\ known = [d \in Device |-> IF d = Founder THEN {Founder} ELSE {}]
  /\ cursor = [d \in Device |-> 0]
  /\ noted = [d \in Device |-> [x \in Device |-> Absent]]
  /\ notice = {}
  /\ invited = [d \in Device |-> Absent]
  /\ proc = [p \in Process |-> Idle]
  /\ late = {}
  /\ overlapped = {}
  /\ faults = 0

-----------------------------------------------------------------------------
(* Sync: the membership part (syncMembership). *)

\* Client.Membership, a signed request: the relay answers members only and
\* tells a revoked one so.  `goal' is what the request is for: a sync, or the
\* enrolment of the joiner named (syncedSnapshot precedes the delivery).
Fetch(p, goal) ==
  LET d == p[1] IN
  /\ Installed(d)
  /\ IF d \in Authorized(membership)
     THEN Become(p, [pc |-> "fetched", chain |-> membership, goal |-> goal])
          /\ UNCHANGED notice
     ELSE Become(p, Idle) /\ notice' = notice \cup {d}
  /\ UNCHANGED <<relayVars, local, known, cursor, noted, invited, late, faults>>

StartSync(p, goal) ==
  /\ At(p, "idle")
  /\ goal # "sync" => Fresh(goal)
  /\ Fetch(p, goal)
  /\ NoteOverlap(p)

\* A revocation, and a delivery, end with a sync.
SyncAgain(p) == At(p, "appended") /\ Fetch(p, "sync") /\ UNCHANGED overlapped

\* The stored chain must be a prefix of the relay's.
Compare(p) ==
  /\ At(p, "fetched")
  /\ IF IsPrefixOf(local[p[1]], proc[p].chain) THEN Goto(p, "compared") ELSE Become(p, Idle)
  /\ UNCHANGED <<relayVars, deviceVars, invited, late, faults, overlapped>>

\* PutMembershipEvents: the table is emptied and filled, in one transaction.
StoreChain(p) ==
  /\ At(p, "compared")
  /\ local' = [local EXCEPT ![p[1]] = proc[p].chain]
  /\ Goto(p, "stored")
  /\ UNCHANGED <<relayVars, known, cursor, noted, notice, invited, late, faults, overlapped>>

\* Mutation of RecordDevices: only devices in good standing are stored.
RecordAuthorizedDevices(p) ==
  LET d == p[1]  c == proc[p].chain IN
  /\ At(p, "stored")
  /\ known' = [known EXCEPT ![d] = @ \cup Authorized(c)]
  /\ Become(p, [pc |-> "push", chain |-> c, goal |-> proc[p].goal,
                newly |-> {x \in Revoked(c) : noted[d][x] = Absent}])
  /\ UNCHANGED <<relayVars, local, cursor, noted, notice, invited, late, faults, overlapped>>

\* PutDevice for each device of the chain; which revocations are news.
RecordDevices(p) ==
  LET d == p[1]  c == proc[p].chain IN
  /\ At(p, "stored")
  /\ known' = [known EXCEPT ![d] = @ \cup Enrolled(c)]
  /\ Become(p, [pc |-> "push", chain |-> c, goal |-> proc[p].goal,
                newly |-> {x \in Revoked(c) : noted[d][x] = Absent}])
  /\ UNCHANGED <<relayVars, local, cursor, noted, notice, invited, late, faults, overlapped>>

-----------------------------------------------------------------------------
(* Sync: pushing, pulling, noting revocations. *)

\* The relay's PutRecord checks the writer, before its transaction begins.
CheckWriter(p) ==
  /\ At(p, "push")
  /\ Len(log) < MaxWrites
  /\ IF p[1] \in Authorized(membership) THEN Goto(p, "writing") ELSE Become(p, Idle)
  /\ UNCHANGED <<relayVars, deviceVars, invited, late, faults, overlapped>>

\* The transaction appends the record; the device's cursor stays.
CommitWrite(p) ==
  /\ At(p, "writing")
  /\ log' = Append(log, p[1])
  /\ Goto(p, "push")
  /\ UNCHANGED <<membership, deviceVars, invited, late, faults, overlapped>>

\* Outbox empty: Client.Records from the cursor to the end of the log.
FetchRecords(p) ==
  /\ At(p, "push")
  /\ IF p[1] \in Authorized(membership)
     THEN Become(p, [pc |-> "pulled", chain |-> proc[p].chain, goal |-> proc[p].goal,
                     newly |-> proc[p].newly, since |-> cursor[p[1]], through |-> Len(log)])
     ELSE Become(p, Idle)
  /\ UNCHANGED <<relayVars, deviceVars, invited, late, faults, overlapped>>

\* verify and checkRevokedWriter.
Verifies(d, c, i) ==
  /\ log[i] \in Enrolled(c)
  /\ log[i] \in Revoked(c) /\ noted[d][log[i]] # Absent => i <= noted[d][log[i]]

\* applyPage: one record that does not verify fails the sync.
ApplyPage(p) ==
  LET d == p[1]  q == proc[p] IN
  /\ At(p, "pulled")
  /\ IF \A i \in (q.since + 1)..q.through : Verifies(d, q.chain, i)
     THEN /\ cursor' = [cursor EXCEPT ![d] = q.through]
          /\ Goto(p, "noting")
     ELSE Become(p, Idle) /\ UNCHANGED cursor
  /\ UNCHANGED <<relayVars, local, known, noted, notice, invited, late, faults, overlapped>>

\* Mutation of NoteRevocations: the position is the one the pull began at.
NoteRevocationsAtStart(p) ==
  LET d == p[1]  q == proc[p] IN
  /\ At(p, "noting")
  /\ noted' = [noted EXCEPT ![d] =
       [x \in Device |-> IF x \in q.newly /\ @[x] = Absent THEN q.since ELSE @[x]]]
  /\ Become(p, IF q.goal = "sync" THEN Idle ELSE [pc |-> "deliver", goal |-> q.goal])
  /\ UNCHANGED <<relayVars, local, known, cursor, notice, invited, late, faults, overlapped>>

\* noteRevocation for each newly revoked device; the first position stays.
NoteRevocations(p) ==
  LET d == p[1]  q == proc[p] IN
  /\ At(p, "noting")
  /\ noted' = [noted EXCEPT ![d] =
       [x \in Device |-> IF x \in q.newly /\ @[x] = Absent THEN q.through ELSE @[x]]]
  /\ Become(p, IF q.goal = "sync" THEN Idle ELSE [pc |-> "deliver", goal |-> q.goal])
  /\ UNCHANGED <<relayVars, local, known, cursor, notice, invited, late, faults, overlapped>>

-----------------------------------------------------------------------------
(* Changing the chain: revoke, enrol through pairing, enrol with the kit.  *)
(* Each builds an event on a copy of the chain and asks the relay for it.  *)

Ask(p, c, ev, goal) == Become(p, [pc |-> "append", chain |-> c, ev |-> ev, goal |-> goal])

\* handleRevoke, up to the request.
RequestRevoke(p, x) ==
  LET d == p[1]  c == local[d] IN
  /\ At(p, "idle")
  /\ Installed(d) /\ Len(c) < MaxEvents
  /\ CanRevoke(c, d, x)
  /\ Ask(p, c, Revoke(c, d, x), IF x = d THEN "self" ELSE "sync")
  /\ NoteOverlap(p)
  /\ UNCHANGED <<relayVars, deviceVars, invited, late, faults>>

\* handlePairDeliver after its sync: the event is built on the stored chain,
\* then the session takes the bundle (once), then the event is asked for.
Deliver(p) ==
  LET d == p[1]  c == local[d]  x == proc[p].goal IN
  /\ At(p, "deliver")
  /\ IF CanEnroll(c, d) /\ invited[x] = Absent /\ Len(c) < MaxEvents
     THEN /\ invited' = [invited EXCEPT ![x] = cursor[d]]
          /\ Ask(p, c, Enroll(c, d, x), "sync")
     ELSE Become(p, Idle) /\ UNCHANGED invited
  /\ UNCHANGED <<relayVars, deviceVars, late, faults, overlapped>>

\* vault.Restore with a published archive, which may be any age: its chain is
\* one the relay had, and names the writers of the records it carries.
StartRecovery(p, n, seq) ==
  LET d == p[1]  c == Prefix(membership, n) IN
  /\ Fresh(d)
  /\ \A q \in Process : ~At(q, "idle") => proc[q].goal # d
  /\ n < MaxEvents
  /\ \A i \in 1..seq : log[i] \in Enrolled(c)
  /\ Become(p, [pc |-> "append", chain |-> c, ev |-> RecoveryEnroll(c, d),
                goal |-> "install", seq |-> seq])
  /\ UNCHANGED <<relayVars, deviceVars, invited, late, faults, overlapped>>

\* The relay admits the request, reads the chain and applies the event to it.
\* A device's request is signed by a member; the kit's by the recovery key.
CheckAppend(p) ==
  LET q == proc[p] IN
  /\ At(p, "append")
  /\ IF /\ q.goal = "install" \/ p[1] \in Authorized(membership)
        /\ Applies(membership, q.ev)
     THEN Goto(p, "inserting") ELSE Become(p, Idle)
  /\ UNCHANGED <<relayVars, deviceVars, invited, late, faults, overlapped>>

\* Mutation of Insert: the table has no key on chain_seq.
InsertUnkeyed(p) ==
  /\ At(p, "inserting")
  /\ membership' = Append(membership, proc[p].ev)
  /\ Goto(p, IF proc[p].goal = "sync" THEN "appended" ELSE "keep")
  /\ UNCHANGED <<log, deviceVars, invited, late, faults, overlapped>>

\* Mutation of Insert: the refusal is not reported to the caller.
InsertUnreported(p) ==
  /\ At(p, "inserting")
  /\ membership' = IF proc[p].ev.seq <= Len(membership) THEN membership
                   ELSE Append(membership, proc[p].ev)
  /\ Goto(p, IF proc[p].goal = "sync" THEN "appended" ELSE "keep")
  /\ UNCHANGED <<log, deviceVars, invited, late, faults, overlapped>>

\* The INSERT, a transaction of its own: chain_seq is the table's key.
Insert(p) ==
  /\ At(p, "inserting")
  /\ IF proc[p].ev.seq <= Len(membership)
     THEN Become(p, Idle) /\ UNCHANGED membership
     ELSE /\ membership' = Append(membership, proc[p].ev)
          /\ Goto(p, IF proc[p].goal = "sync" THEN "appended" ELSE "keep")
  /\ UNCHANGED <<log, deviceVars, invited, late, faults, overlapped>>

\* A device that revoked itself keeps the chain that says so; a recovering
\* machine commits the installation it announced.
Keep(p) ==
  LET d == p[1]  q == proc[p]  c == Append(q.chain, q.ev) IN
  /\ At(p, "keep")
  /\ local' = [local EXCEPT ![d] = c]
  /\ known' = [known EXCEPT ![d] = IF q.goal = "install" THEN Enrolled(c) ELSE @ \cup {d}]
  /\ cursor' = [cursor EXCEPT ![d] = IF q.goal = "install" THEN q.seq ELSE @]
  /\ Become(p, Idle)
  /\ UNCHANGED <<relayVars, noted, notice, invited, late, faults, overlapped>>

\* The joiner has its bundle and finds itself in the relay's chain.
Install(x) ==
  /\ ~Installed(x)
  /\ invited[x] # Absent
  /\ x \in Authorized(membership)
  /\ local' = [local EXCEPT ![x] = membership]
  /\ known' = [known EXCEPT ![x] = Enrolled(membership)]
  /\ cursor' = [cursor EXCEPT ![x] = invited[x]]
  /\ UNCHANGED <<relayVars, noted, notice, invited, proc, late, faults, overlapped>>

-----------------------------------------------------------------------------
(* A request stops: a timeout, a network error, a crash of the device.  A  *)
(* relay handler that had begun runs to its end all the same.              *)

Stop(p) ==
  /\ ~At(p, "idle") /\ faults < MaxFaults
  /\ late' = late \cup CASE At(p, "writing") -> {[kind |-> "write", by |-> p[1]]}
                          [] At(p, "inserting") -> {[kind |-> "insert", ev |-> proc[p].ev]}
                          [] OTHER -> {}
  /\ Become(p, Idle)
  /\ faults' = faults + 1
  /\ UNCHANGED <<relayVars, deviceVars, invited, overlapped>>

LateWrite(h) ==
  /\ h.kind = "write"
  /\ log' = Append(log, h.by)
  /\ late' = late \ {h}
  /\ UNCHANGED <<membership, deviceVars, invited, proc, faults, overlapped>>

LateInsert(h) ==
  /\ h.kind = "insert"
  /\ membership' = IF h.ev.seq <= Len(membership) THEN membership ELSE Append(membership, h.ev)
  /\ late' = late \ {h}
  /\ UNCHANGED <<log, deviceVars, invited, proc, faults, overlapped>>

Continue(p) ==
  \/ SyncAgain(p) \/ Compare(p) \/ StoreChain(p) \/ RecordDevices(p)
  \/ CheckWriter(p) \/ CommitWrite(p) \/ FetchRecords(p) \/ ApplyPage(p)
  \/ NoteRevocations(p) \/ Deliver(p)
  \/ CheckAppend(p) \/ Insert(p) \/ Keep(p)

Next ==
  \/ \E p \in Process :
       \/ Continue(p)
       \/ \E goal \in {"sync"} \cup Device : StartSync(p, goal)
       \/ \E x \in Device : RequestRevoke(p, x)
       \/ \E n \in 1..Len(membership), seq \in 0..Len(log) : StartRecovery(p, n, seq)
       \/ Stop(p)
  \/ \E x \in Device : Install(x)
  \/ \E h \in late : LateWrite(h) \/ LateInsert(h)

Spec == Init /\ [][Next]_vars

-----------------------------------------------------------------------------
(***************************************************************************)
(* The chain the relay stores always validates, so no request ever fails   *)
(* on `stored membership chain', and it always authorizes someone: however *)
(* two devices that revoke each other, an enrolment and a recovery race    *)
(* between AppendMembership's read and its INSERT, one of them is refused. *)
(***************************************************************************)
ChainIsValid == Valid(membership) /\ Authorized(membership) # {}

(***************************************************************************)
(* Every stored copy of the chain, one left by a device that revoked       *)
(* itself or that was restored with the kit included, is a prefix of the   *)
(* relay's: no device is ever told that the relay's device list forks.     *)
(***************************************************************************)
LocalIsPrefix == \A d \in Device : IsPrefixOf(local[d], membership)

(***************************************************************************)
(* For every record a device has taken in, it holds the writer's row:      *)
(* Manager.verifier, which opens the record later, reads that table and    *)
(* not the chain.  Also after a crash between the transactions of a sync,  *)
(* and for a writer revoked before the device first heard of it.           *)
(***************************************************************************)
WritersAreKnown ==
  \A d \in Device : \A i \in 1..cursor[d] : log[i] \in known[d]

(***************************************************************************)
(* A stored revocation position belongs to a device the chain revokes, and *)
(* no record of that device beyond the position has been taken in: the     *)
(* position is stored after a complete pull, at the end of that pull.      *)
(* This is for a device that has not served two requests at once: two      *)
(* syncs that overlap may store a shorter chain, or a page, beside the     *)
(* other's position (syncengine/engine.go:104).                            *)
(***************************************************************************)
NotedIsSound ==
  \A d \in Device \ overlapped, x \in Device :
    noted[d][x] # Absent =>
      /\ x \in Revoked(local[d])
      /\ \A i \in 1..cursor[d] : log[i] = x => i <= noted[d][x]
=============================================================================
