------------------------------ MODULE Recovery ------------------------------
(***************************************************************************)
(* The recovery copy: an export of the vault, sealed to the recovery kit,  *)
(* that devices leave on the relay after a sync (internal/daemon/sync.go), *)
(* and a machine that recovers from it when the others are gone            *)
(* (internal/cli/sync.go, internal/vault/restore.go,                       *)
(* internal/relay/handlers.go, envelopes.go).                              *)
(*                                                                         *)
(* A sync is one step here that brings the device's chain and cursor to    *)
(* the relay's; Sync and Membership have its inside, and an export is      *)
(* taken to be one read of the store.  What matters here is the order of   *)
(* what follows it: the state is read, the copy is built from what is      *)
(* stored by then, it is uploaded, and the state is noted as published.    *)
(***************************************************************************)
EXTENDS Chain

CONSTANTS Slot,           \* concurrent requests per device
          MaxWrites,      \* bound: accepted record writes
          MaxEvents,      \* bound: membership events
          MaxChallenges,  \* bound: recovery challenges
          MaxFaults       \* bound: faults

ASSUME RecoveryConstants ==
  /\ MaxWrites \in Nat /\ MaxEvents \in Nat /\ MaxChallenges \in Nat
  /\ MaxFaults \in Nat

VARIABLES membership,  \* the relay's chain
          seq,         \* the relay's last sequence number
          archive,     \* the relay's recovery copy, or None
          nonces,      \* recovery challenges outstanding
          issued,      \* recovery challenges so far
          view,        \* by device, its chain and cursor; None: no vault there
          published,   \* by device, meta recovery_published
          proc,        \* by device and slot, a request in the daemon
          late,        \* uploads their sender has given up on
          recover,     \* the command on the fresh machine
          crossed,     \* history: an upload arrived late, or two requests of
                       \* one machine refreshed the copy at once
          faults

relay == <<membership, seq, archive, nonces, issued>>
vars == <<relay, view, published, proc, late, recover, crossed, faults>>

Process == Device \X Slot
Idle == [pc |-> "idle"]
At(p, pc) == proc[p].pc = pc
Become(p, m) == proc' = [proc EXCEPT ![p] = m]

State(chain, cursor) == [chain |-> chain, cursor |-> cursor]
\* No vault, no copy, nothing published: a chain that has not begun.
None == State(<<>>, 0)
Installed == {d \in Device : view[d] # None}

\* Identifiers are random: which unused one is taken makes no difference.
Unused == Device \ Enrolled(membership)
NewID == CHOOSE x \in Unused : TRUE

Fails == faults < MaxFaults /\ faults' = faults + 1

-----------------------------------------------------------------------------
(* The daemon: sync, then refreshRecovery. *)

\* The engine's sync, with what it pushes; the relay serves only members.
SyncNow(p) ==
  LET d == p[1] IN
  /\ At(p, "idle") \/ At(p, "resync")
  /\ view[d] # None /\ d \in Authorized(membership)
  /\ \E n \in 0..1 :
       /\ seq + n <= MaxWrites
       /\ seq' = seq + n
       /\ view' = [view EXCEPT ![d] = State(membership, seq + n)]
  /\ Become(p, [pc |-> "synced"])
  /\ UNCHANGED <<membership, archive, nonces, issued, published, late,
                 recover, faults, crossed>>

\* Mutation of Noted: the chain is not part of the state.
NotedCursor(d, state) == published[d] # None /\ published[d].cursor = state.cursor

Noted(d, state) == published[d] = state

\* Another request of the same machine is refreshing the copy.
Refreshing(p) ==
  \E q \in Process \ {p} : q[1] = p[1] /\ proc[q].pc \in {"stale", "built", "put"}

\* refreshRecovery: nothing to do when this state was published.
ReadState(p) ==
  LET d == p[1] IN
  /\ At(p, "synced")
  /\ \/ Noted(d, view[d]) /\ Become(p, Idle) /\ UNCHANGED crossed
     \/ /\ ~Noted(d, view[d])
        /\ Become(p, [pc |-> "stale", state |-> view[d]])
        /\ crossed' = (crossed \/ Refreshing(p))
  /\ UNCHANGED <<relay, view, published, late, recover, faults>>

\* buildExport reads the store again.
BuildExport(p) ==
  /\ At(p, "stale")
  /\ Become(p, [pc |-> "built", state |-> proc[p].state, copy |-> view[p[1]]])
  /\ UNCHANGED <<relay, view, published, late, recover, faults, crossed>>

\* PutKeyEnvelope: the copy replaces the one at the same epoch, whatever it is.
PutArchive(p) ==
  /\ At(p, "built")
  /\ IF p[1] \in Authorized(membership)
     THEN /\ archive' = proc[p].copy
          /\ Become(p, [pc |-> "put", state |-> proc[p].state])
     ELSE Become(p, Idle) /\ UNCHANGED archive
  /\ UNCHANGED <<membership, seq, nonces, issued, view, published, late,
                 recover, faults, crossed>>

NotePublished(p) ==
  /\ At(p, "put")
  /\ published' = [published EXCEPT ![p[1]] = proc[p].state]
  /\ Become(p, Idle)
  /\ UNCHANGED <<relay, view, late, recover, faults, crossed>>

\* The request ends early ...
Stop(p) ==
  /\ ~At(p, "idle") /\ Fails
  /\ Become(p, Idle)
  /\ UNCHANGED <<relay, view, published, late, recover, crossed>>

\* ... or its upload is given up, and reaches the relay later.
GiveUpPut(p) ==
  /\ At(p, "built") /\ Fails
  /\ late' = late \cup {proc[p].copy}
  /\ Become(p, Idle)
  /\ UNCHANGED <<relay, view, published, recover, crossed>>

LateArchive ==
  /\ \E c \in late : archive' = c /\ late' = late \ {c}
  /\ crossed' = TRUE
  /\ UNCHANGED <<membership, seq, nonces, issued, view, published, proc,
                 recover, faults>>

\* handleRevoke of another device, and a pairing that delivered: the relay
\* appends the event if it extends the chain, and a sync with a refresh follows.
RevokeDevice(p, x) ==
  LET d == p[1] IN
  /\ At(p, "idle") /\ d # x /\ Len(membership) < MaxEvents
  /\ view[d] # None /\ d \in Authorized(membership)
  /\ view[d].chain = membership /\ CanRevoke(membership, d, x)
  /\ membership' = Append(membership, Revoke(membership, d, x))
  /\ Become(p, [pc |-> "resync"])
  /\ UNCHANGED <<seq, archive, nonces, issued, view, published, late,
                 recover, faults, crossed>>

PairDevice(p) ==
  LET d == p[1]  x == NewID IN
  /\ At(p, "idle") /\ Unused # {} /\ Len(membership) < MaxEvents
  /\ view[d] # None /\ d \in Authorized(membership) /\ view[d].chain = membership
  /\ membership' = Append(membership, Enroll(membership, d, x))
  /\ view' = [view EXCEPT ![x] = State(membership', view[d].cursor)]
  /\ Become(p, [pc |-> "resync"])
  /\ UNCHANGED <<seq, archive, nonces, issued, published, late, recover,
                 faults, crossed>>

-----------------------------------------------------------------------------
(* sshstate recover, on a machine without a vault. *)

\* handleRecoveryChallenge, with the copy inline or fetched after it.
Challenge ==
  /\ recover.pc = "idle" /\ issued < MaxChallenges
  /\ archive # None
  /\ issued' = issued + 1 /\ nonces' = nonces \cup {issued + 1}
  /\ recover' = [pc |-> "challenged", nonce |-> issued + 1, copy |-> archive]
  /\ UNCHANGED <<membership, seq, archive, view, published, proc, late,
                 faults, crossed>>

FetchArchive ==
  /\ recover.pc = "challenged" /\ archive # recover.copy
  /\ recover' = [recover EXCEPT !.copy = archive]
  /\ UNCHANGED <<relay, view, published, proc, late, faults, crossed>>

\* Ten minutes pass.
ExpireNonce ==
  /\ nonces # {} /\ Fails
  /\ nonces' = {}
  /\ UNCHANGED <<membership, seq, archive, issued, view, published, proc,
                 late, recover, crossed>>

\* Mutation of Announce: the nonce is looked up after it was consumed.
AnnounceConsumed ==
  /\ recover.pc = "challenged"
  /\ nonces' = nonces \ {recover.nonce}
  /\ Unused # {}
  /\ LET ev == RecoveryEnroll(recover.copy.chain, NewID) IN
     IF recover.nonce \in nonces' /\ Applies(membership, ev)
     THEN /\ membership' = Append(membership, ev)
          /\ recover' = [pc |-> "announced", copy |-> recover.copy, ev |-> ev]
     ELSE UNCHANGED membership /\ recover' = Idle
  /\ UNCHANGED <<seq, archive, issued, view, published, proc, late, faults,
                 crossed>>

\* Restore runs announce before it commits.  handleRecoveryComplete consumes
\* the nonce and then appends the enrolment, which the device built on the
\* chain in the copy.
Announce ==
  /\ recover.pc = "challenged"
  /\ nonces' = nonces \ {recover.nonce}
  /\ Unused # {}
  /\ LET ev == RecoveryEnroll(recover.copy.chain, NewID) IN
     IF recover.nonce \in nonces /\ Applies(membership, ev)
     THEN /\ membership' = Append(membership, ev)
          /\ recover' = [pc |-> "announced", copy |-> recover.copy, ev |-> ev]
     ELSE UNCHANGED membership /\ recover' = Idle
  /\ UNCHANGED <<seq, archive, issued, view, published, proc, late, faults,
                 crossed>>

\* Mutation of Commit: the vault is installed although the relay refused.
CommitEarly ==
  /\ recover.pc \in {"challenged", "announced"}
  /\ LET ev == IF recover.pc = "announced" THEN recover.ev
               ELSE RecoveryEnroll(recover.copy.chain, NewID)
     IN  view' = [view EXCEPT ![ev.device] =
                    State(Append(recover.copy.chain, ev), recover.copy.cursor)]
  /\ recover' = Idle
  /\ UNCHANGED <<relay, published, proc, late, faults, crossed>>

Commit ==
  /\ recover.pc = "announced"
  /\ view' = [view EXCEPT ![recover.ev.device] =
                State(Append(recover.copy.chain, recover.ev), recover.copy.cursor)]
  /\ recover' = Idle
  /\ UNCHANGED <<relay, published, proc, late, faults, crossed>>

\* The command dies, or the relay's answer is lost, before the commit.
CrashRecover ==
  /\ recover.pc # "idle" /\ Fails
  /\ recover' = Idle
  /\ UNCHANGED <<relay, view, published, proc, late, crossed>>

\* The machines that hold the vault are lost.
LoseMachines ==
  /\ Fails /\ Installed # {}
  /\ view' = [d \in Device |-> None]
  /\ published' = [d \in Device |-> None]
  /\ proc' = [p \in Process |-> Idle]
  /\ UNCHANGED <<relay, late, recover, crossed>>

-----------------------------------------------------------------------------

Init ==
  /\ membership = <<Root>> /\ seq = 0 /\ archive = None
  /\ nonces = {} /\ issued = 0
  /\ view = [d \in Device |-> IF d = Founder THEN State(<<Root>>, 0) ELSE None]
  /\ published = [d \in Device |-> None]
  /\ proc = [p \in Process |-> Idle]
  /\ late = {} /\ recover = Idle /\ crossed = FALSE /\ faults = 0

Refresh(p) ==
  SyncNow(p) \/ ReadState(p) \/ BuildExport(p) \/ PutArchive(p) \/ NotePublished(p)

RecoverStep == Challenge \/ Announce \/ Commit

Next ==
  \/ \E p \in Process : \/ Refresh(p) \/ Stop(p) \/ GiveUpPut(p)
                        \/ PairDevice(p) \/ \E x \in Device : RevokeDevice(p, x)
  \/ LateArchive
  \/ RecoverStep \/ FetchArchive \/ ExpireNonce \/ CrashRecover \/ LoseMachines

Spec == Init /\ [][Next]_vars

\* Who recovers a vault tries again until it works.
FairSpec == Spec /\ WF_vars(RecoverStep)

-----------------------------------------------------------------------------
(* Properties. *)

(***************************************************************************)
(* A machine that holds the vault is known to the relay: whatever fails in *)
(* a recovery, no device is installed whose enrolment the relay's chain    *)
(* does not carry, and its chain is the relay's (Install runs announce     *)
(* before its commit).                                                     *)
(***************************************************************************)
RecoveredIsMember ==
  \A d \in Installed : d \in Enrolled(membership) /\ IsPrefixOf(view[d].chain, membership)

Current == archive = State(membership, seq)

(***************************************************************************)
(* The recovery copy does not stay behind (cli/sync_test.go:836, "the      *)
(* recovery copy predates the last sync"): when it is not the relay's      *)
(* present chain and log, some machine has not noted that state as         *)
(* published, so that its next sync uploads again.  Uploads of several     *)
(* machines overtake each other.  Left out are an upload that its sender   *)
(* gave up on, and two requests of one machine that refresh the copy at    *)
(* once, which nothing prevents (daemon/sync.go:220): either may replace a *)
(* newer copy without a trace.                                             *)
(***************************************************************************)
StaleCopyIsNoticed ==
  Installed \cap Authorized(membership) # {} /\ ~crossed /\ ~Current =>
    \E d \in Installed \cap Authorized(membership) : ~Noted(d, State(membership, seq))

CopyHasChain == archive # None /\ archive.chain = membership

(***************************************************************************)
(* When all machines are gone, whoever holds the kit gets the vault back   *)
(* from a relay that still has the recovery copy, as it was when the last  *)
(* of them finished a sync (docs/cli-flows.md, 8B), however many attempts  *)
(* failed before.  CopyHasChain leaves out an attempt that died after the  *)
(* relay took its enrolment: the copy's chain lacks that event, and every  *)
(* later attempt is refused.                                               *)
(***************************************************************************)
RecoveryWorks ==
  (/\ faults = MaxFaults /\ issued < MaxChallenges /\ Unused # {}
   /\ Installed = {} /\ late = {} /\ CopyHasChain) ~> (Installed # {})
=============================================================================
