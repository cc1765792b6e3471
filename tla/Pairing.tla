------------------------------ MODULE Pairing ------------------------------
(***************************************************************************)
(* Pairing a new device: the joiner (`sshstate pair`, internal/cli/pair.go *)
(* and enroll.Joiner), the approving device (`sshstate approve`, daemon    *)
(* handlers in internal/daemon/pair.go and enroll.Approver) and the        *)
(* relay's pairing sessions (internal/relay/pairing.go).                   *)
(*                                                                         *)
(* Each run of `pair` makes a new device identifier and one session, so a  *)
(* session is named by its joiner.  A transcript is fixed by the joiner's  *)
(* offer and the approval: it is <<joiner, approver, n>>, n standing for   *)
(* the approver's fresh challenge.  Every request to the relay is a step;  *)
(* ConfirmApprover is two, as it reads the chain before its transaction.   *)
(* The relay is honest; clients, users and the network may stop anywhere.  *)
(***************************************************************************)
EXTENDS Chain

CONSTANTS Approver,      \* the devices enrolled at the start
          StartChain,    \* the chain that enrolled them
          MaxApprovals,  \* bound: approvals attempted
          MaxFaults,     \* bound: expiries, stops and locks
          MaxRevokes,    \* bound: revocations
          None

Joiner == Device \ Approver
Transcript == Joiner \X Approver \X (1..MaxApprovals)

ASSUME PairingConstants ==
  /\ Founder \in Approver /\ Approver \subseteq Device
  /\ StartChain \in Seq({StartChain[i] : i \in DOMAIN StartChain})
  /\ Valid(StartChain) /\ Enrolled(StartChain) = Approver
  /\ MaxApprovals \in Nat /\ MaxFaults \in Nat /\ MaxRevokes \in Nat
  /\ None \notin Transcript

VARIABLES membership,  \* the relay's chain
          session,     \* by joiner, the relay's pairing row
          approvals,   \* by approver, Daemon.approvals: joiner -> transcript
          joiner,      \* by joiner, its process
          approver,    \* by approver, its request in progress
          shown,       \* transcripts an approver's screen has shown
          yes,         \* <<side, transcript>>: what users confirmed
          minted,      \* approvals made so far
          faults

pairVars == <<membership, session, approvals, joiner, approver, shown, yes,
              minted, faults>>

-----------------------------------------------------------------------------
(* The relay's session row. *)

NoSession == [state |-> "none", expired |-> FALSE, approver |-> None,
              joiner |-> None, snapshot |-> None, bundle |-> None, event |-> None]

\* The state a read returns: expiry is decided when the row is read.
StateOf(j) ==
  IF session[j].expired /\ session[j].state # "completed"
  THEN "expired" ELSE session[j].state

\* writable, and the clients' usable.
Usable(j) == StateOf(j) \notin {"none", "expired", "completed"}

-----------------------------------------------------------------------------
(* The joiner. *)

Fail(j) == joiner' = [joiner EXCEPT ![j].pc = "failed"]

\* enroll.Begin and CreatePairing.
Begin(j) ==
  /\ joiner[j].pc = "new"
  /\ j \notin Enrolled(membership)
  /\ session' = [session EXCEPT ![j] = [NoSession EXCEPT !.state = "offered"]]
  /\ joiner' = [joiner EXCEPT ![j].pc = "waiting"]
  /\ UNCHANGED <<membership, approvals, approver, shown, yes, minted, faults>>

\* Joiner.Transcript, polled until the approver has confirmed.
LearnTranscript(j) ==
  /\ joiner[j].pc = "waiting"
  /\ \/ /\ Usable(j) /\ session[j].approver # None
        /\ joiner' = [joiner EXCEPT ![j].pc = "comparing",
                                    ![j].transcript = session[j].approver]
     \/ ~Usable(j) /\ Fail(j)
  /\ UNCHANGED <<membership, session, approvals, approver, shown, yes, minted, faults>>

\* compareFingerprint says yes once the other screen shows the same; then
\* Joiner.Confirm posts, and ConfirmJoiner checks the session.
ConfirmJoiner(j) ==
  LET t == joiner[j].transcript IN
  /\ joiner[j].pc = "comparing" /\ t \in shown
  /\ yes' = yes \cup {<<"joiner", t>>}
  /\ IF Usable(j) /\ session[j].state = "confirming" /\ session[j].approver = t
     THEN /\ session' = [session EXCEPT ![j].joiner = t, ![j].state = "confirmed"]
          /\ joiner' = [joiner EXCEPT ![j].pc = "receiving"]
     ELSE Fail(j) /\ UNCHANGED session
  /\ UNCHANGED <<membership, approvals, approver, shown, minted, faults>>

\* Mutation of Receive: the chain is taken from the delivery, so the joiner
\* does not wait until the relay knows it.
ReceiveUnpublished(j) ==
  /\ joiner[j].pc = "receiving"
  /\ \/ /\ Usable(j) /\ session[j].bundle # None
        /\ joiner' = [joiner EXCEPT ![j].pc = "received",
                        ![j].chain = Append(membership, session[j].event)]
     \/ (~Usable(j) \/ j \in Revoked(membership)) /\ Fail(j)
  /\ UNCHANGED <<membership, session, approvals, approver, shown, yes, minted, faults>>

\* Joiner.Receive: polled until the session carries the bundle and the relay
\* knows this device; then everything in the delivery is checked.
Receive(j) ==
  /\ joiner[j].pc = "receiving"
  /\ \/ /\ Usable(j) /\ session[j].bundle # None
        /\ j \in Enrolled(membership) \ Revoked(membership)
        /\ IF /\ session[j].event.device = j
              /\ session[j].bundle = joiner[j].transcript
              /\ session[j].snapshot = session[j].bundle
              /\ Valid(membership)
              /\ \E i \in DOMAIN membership : membership[i] = session[j].event
           THEN joiner' = [joiner EXCEPT ![j].pc = "received", ![j].chain = membership]
           ELSE Fail(j)
     \/ (~Usable(j) \/ j \in Revoked(membership)) /\ Fail(j)
  /\ UNCHANGED <<membership, session, approvals, approver, shown, yes, minted, faults>>

\* vault.Join: one transaction.
JoinVault(j) ==
  /\ joiner[j].pc = "received"
  /\ joiner' = [joiner EXCEPT ![j].pc = "installed"]
  /\ UNCHANGED <<membership, session, approvals, approver, shown, yes, minted, faults>>

\* Mutation of Acknowledge: sent on receipt, before the vault is installed.
AcknowledgeFirst(j) ==
  /\ joiner[j].pc = "received" /\ session[j].state = "confirmed"
  /\ session' = IF Usable(j) THEN [session EXCEPT ![j].state = "completed"] ELSE session
  /\ UNCHANGED <<membership, approvals, joiner, approver, shown, yes, minted, faults>>

\* Joiner.Acknowledge; a refusal is only a warning.
Acknowledge(j) ==
  /\ joiner[j].pc = "installed"
  /\ joiner' = [joiner EXCEPT ![j].pc = "done"]
  /\ session' = IF Usable(j) /\ session[j].state = "confirmed" /\ session[j].bundle # None
                THEN [session EXCEPT ![j].state = "completed"] ELSE session
  /\ UNCHANGED <<membership, approvals, approver, shown, yes, minted, faults>>

-----------------------------------------------------------------------------
(* The approver. *)

IdleApprover == [pc |-> "idle"]

At(a, pc) == approver[a].pc = pc
Goto(a, pc) == approver' = [approver EXCEPT ![a].pc = pc]
Drop(a) == approver' = [approver EXCEPT ![a] = IdleApprover]

\* handlePairApprove: enroll.Approve reads the session, makes the transcript.
Approve(a, j) ==
  /\ At(a, "idle") /\ minted < MaxApprovals
  /\ Usable(j)
  /\ minted' = minted + 1
  /\ approver' = [approver EXCEPT ![a] =
                    [pc |-> "confirming", t |-> <<j, a, minted + 1>>, chain |-> <<>>]]
  /\ UNCHANGED <<membership, session, approvals, joiner, shown, yes, faults>>

Peer(a) == approver[a].t[1]

\* advance reads the chain; authorized and verifyConfirmation look at it.
CheckApprover(a) ==
  /\ At(a, "confirming")
  /\ IF a \in Authorized(membership) THEN Goto(a, "checked") ELSE Drop(a)
  /\ UNCHANGED <<membership, session, approvals, joiner, shown, yes, minted, faults>>

\* The transaction of ConfirmApprover: one approver per session.
ConfirmApprover(a) ==
  /\ At(a, "checked")
  /\ IF Usable(Peer(a)) /\ session[Peer(a)].state = "offered"
     THEN /\ session' = [session EXCEPT ![Peer(a)].approver = approver[a].t,
                                        ![Peer(a)].state = "confirming"]
          /\ Goto(a, "approved")
     ELSE Drop(a) /\ UNCHANGED session
  /\ UNCHANGED <<membership, approvals, joiner, shown, yes, minted, faults>>

\* The daemon keeps the approval and answers; the user sees the fingerprint.
KeepApproval(a) ==
  /\ At(a, "approved")
  /\ approvals' = [approvals EXCEPT ![a][Peer(a)] = approver[a].t]
  /\ shown' = shown \cup {approver[a].t}
  /\ Goto(a, "comparing")
  /\ UNCHANGED <<membership, session, joiner, yes, minted, faults>>

\* runApprove: yes once the joiner's screen shows the same.  handlePairDeliver
\* then looks the approval up again: a lock or an expiry may have dropped it.
AnswerApprover(a) ==
  /\ At(a, "comparing")
  /\ joiner[Peer(a)].transcript = approver[a].t
  /\ yes' = yes \cup {<<"approver", approver[a].t>>}
  /\ IF approvals[a][Peer(a)] = None THEN Drop(a) ELSE Goto(a, "awaiting")
  /\ UNCHANGED <<membership, session, approvals, joiner, shown, minted, faults>>

\* awaitJoiner: polled until the joiner's confirmation is there and verifies.
AwaitJoiner(a) ==
  LET s == session[Peer(a)] IN
  /\ At(a, "awaiting")
  /\ \/ Usable(Peer(a)) /\ s.joiner = approver[a].t /\ Goto(a, "syncing")
     \/ ~Usable(Peer(a)) /\ Drop(a)
  /\ UNCHANGED <<membership, session, approvals, joiner, shown, yes, minted, faults>>

\* syncedSnapshot: the sync stores the relay's chain, refused to a revoked device.
SyncBefore(a) ==
  /\ At(a, "syncing")
  /\ approver' = [approver EXCEPT ![a] =
       IF a \in Authorized(membership)
       THEN [@ EXCEPT !.pc = "uploading", !.chain = membership] ELSE IdleApprover]
  /\ UNCHANGED <<membership, session, approvals, joiner, shown, yes, minted, faults>>

Open(j) == Usable(j) /\ session[j].state = "confirmed" /\ session[j].bundle = None

\* Approver.Deliver, first request.
PutSnapshot(a) ==
  /\ At(a, "uploading")
  /\ IF Open(Peer(a))
     THEN /\ session' = [session EXCEPT ![Peer(a)].snapshot = approver[a].t]
          /\ Goto(a, "completing")
     ELSE Drop(a) /\ UNCHANGED session
  /\ UNCHANGED <<membership, approvals, joiner, shown, yes, minted, faults>>

Event(a) == Enroll(approver[a].chain, a, Peer(a))

\* Second request: the enrolment event and the bundle, once.
Complete(a) ==
  /\ At(a, "completing")
  /\ IF Open(Peer(a)) /\ session[Peer(a)].approver = approver[a].t
     THEN /\ session' = [session EXCEPT ![Peer(a)].bundle = approver[a].t,
                                        ![Peer(a)].event = Event(a)]
          /\ Goto(a, "appending")
     ELSE Drop(a) /\ UNCHANGED session
  /\ UNCHANGED <<membership, approvals, joiner, shown, yes, minted, faults>>

\* Third request: the relay appends the event if it still extends the chain.
AppendEvent(a) ==
  /\ At(a, "appending")
  /\ IF Applies(membership, Event(a))
     THEN membership' = Append(membership, Event(a)) /\ Goto(a, "finishing")
     ELSE Drop(a) /\ UNCHANGED membership
  /\ UNCHANGED <<session, approvals, joiner, shown, yes, minted, faults>>

\* syncAndRefresh; the approval is forgotten only now.
FinishDelivery(a) ==
  /\ At(a, "finishing")
  /\ approvals' = IF a \in Authorized(membership)
                  THEN [approvals EXCEPT ![a][Peer(a)] = None] ELSE approvals
  /\ Drop(a)
  /\ UNCHANGED <<membership, session, joiner, shown, yes, minted, faults>>

-----------------------------------------------------------------------------
(* What may go wrong, and revocations from elsewhere. *)

Fault == faults < MaxFaults /\ faults' = faults + 1

\* The relay's clock passes the session's expires_at.
Expire(j) ==
  /\ Fault /\ session[j].state # "none" /\ ~session[j].expired
  /\ session' = [session EXCEPT ![j].expired = TRUE]
  /\ UNCHANGED <<membership, approvals, joiner, approver, shown, yes, minted>>

\* A user answers no, a request fails, a deadline passes, a process dies: the
\* joiner's run ends (pollUntil, runPair's error returns).
StopJoiner(j) ==
  /\ Fault /\ joiner[j].pc \notin {"new", "installed", "done", "failed"}
  /\ Fail(j)
  /\ UNCHANGED <<membership, session, approvals, approver, shown, yes, minted>>

\* The same for the approver's command, the daemon itself still running.
StopApprover(a) ==
  /\ Fault /\ ~At(a, "idle")
  /\ Drop(a)
  /\ UNCHANGED <<membership, session, approvals, joiner, shown, yes, minted>>

\* expireApprovals: a lock, a restart or the transcript's expiry.
ForgetApprovals(a) ==
  /\ Fault /\ \E j \in Joiner : approvals[a][j] # None
  /\ approvals' = [approvals EXCEPT ![a] = [j \in Joiner |-> None]]
  /\ UNCHANGED <<membership, session, joiner, approver, shown, yes, minted>>

RevokeFromElsewhere(by, x) ==
  /\ Cardinality(Revoked(membership)) < MaxRevokes
  /\ by \in Approver /\ CanRevoke(membership, by, x)
  /\ membership' = Append(membership, Revoke(membership, by, x))
  /\ UNCHANGED <<session, approvals, joiner, approver, shown, yes, minted, faults>>

-----------------------------------------------------------------------------

Init ==
  /\ membership = StartChain
  /\ session = [j \in Joiner |-> NoSession]
  /\ approvals = [a \in Approver |-> [j \in Joiner |-> None]]
  /\ joiner = [j \in Joiner |-> [pc |-> "new", transcript |-> None, chain |-> <<>>]]
  /\ approver = [a \in Approver |-> IdleApprover]
  /\ shown = {} /\ yes = {} /\ minted = 0 /\ faults = 0

JoinerStep(j) ==
  \/ Begin(j) \/ LearnTranscript(j) \/ ConfirmJoiner(j)
  \/ Receive(j) \/ JoinVault(j) \/ Acknowledge(j)

ApproverStep(a) ==
  \/ CheckApprover(a) \/ ConfirmApprover(a) \/ KeepApproval(a)
  \/ AnswerApprover(a) \/ AwaitJoiner(a) \/ SyncBefore(a)
  \/ PutSnapshot(a) \/ Complete(a) \/ AppendEvent(a) \/ FinishDelivery(a)

Next ==
  \/ \E j \in Joiner : JoinerStep(j) \/ Expire(j) \/ StopJoiner(j)
  \/ \E a \in Approver :
       \/ ApproverStep(a) \/ StopApprover(a) \/ ForgetApprovals(a)
       \/ \E j \in Joiner : Approve(a, j)
       \/ \E x \in Device : RevokeFromElsewhere(a, x)

Spec == Init /\ [][Next]_pairVars

-----------------------------------------------------------------------------
(* Properties. *)

AgreedOn(t) == <<"joiner", t>> \in yes /\ <<"approver", t>> \in yes

Held(j) == joiner[j].pc \in {"installed", "done"}

(***************************************************************************)
(* A joiner that installed the vault installed a chain the relay has, and  *)
(* one that authorizes it, even when the approver's last request failed or *)
(* lost the race for the chain's next place.                               *)
(***************************************************************************)
InstalledIsMember ==
  \A j \in Joiner : Held(j) =>
    IsPrefixOf(joiner[j].chain, membership) /\ j \in Authorized(joiner[j].chain)

Agreements(j) == {t \in Transcript : t[1] = j /\ AgreedOn(t)}

AgreedBy(j) ==
  IF Agreements(j) = {} THEN None ELSE CHOOSE t \in Agreements(j) : TRUE

Promise == INSTANCE PairingPromise WITH
  NoTranscript <- None,
  agreed <- [j \in Joiner |-> AgreedBy(j)],
  sent <- {j \in Joiner : session[j].bundle # None},
  member <- Enrolled(membership) \cap Joiner,
  holder <- {j \in Joiner : Held(j)},
  closed <- {j \in Joiner : session[j].state = "completed"}

(***************************************************************************)
(* Pairing implements its promise: seen through the mapping above, every   *)
(* step of clients, users, relay and faults is a step of PairingPromise or *)
(* leaves it unchanged.                                                    *)
(***************************************************************************)
KeepsPromise == Promise!Spec
=============================================================================
