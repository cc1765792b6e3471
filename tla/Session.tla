------------------------------ MODULE Session ------------------------------
(***************************************************************************)
(* The vault on one machine and the daemon that unlocks it: how a vault    *)
(* comes to be (internal/vault/manager.go Init, store_install.go), how its *)
(* recovery kit is confirmed, the unlock session and its two deadlines,    *)
(* the agent's signatures (internal/agentsrv/agent.go) and the pairing     *)
(* approvals the daemon keeps (internal/daemon/daemon.go, pair.go).        *)
(*                                                                         *)
(* Every method of the manager runs under one mutex and is one step.  Init *)
(* writes its rows one by one.  A signature, an approval, the ticker and a *)
(* confirmation are several calls, and anything may happen between them.   *)
(***************************************************************************)
EXTENDS Naturals, FiniteSets

CONSTANTS None,
          Password,
          Client,         \* concurrent users of the agent and approvals
          Confirmer,      \* concurrent confirm-recovery commands
          IdleTimeout, HardTimeout, ChallengeTTL, ApprovalTTL,
          MaxTime,        \* bound: the clock
          MaxNonces       \* bound: recovery challenges

ASSUME SessionConstants ==
  /\ IdleTimeout \in Nat \ {0} /\ HardTimeout \in Nat \ {0}
  /\ ChallengeTTL \in Nat /\ ApprovalTTL \in Nat
  /\ MaxTime \in Nat /\ MaxNonces \in Nat

VARIABLES now,         \* the clock
          rows,        \* rows stored, other than the wrappers
          wrapped,     \* by purpose, the password of its wrapper
          kit,         \* TRUE once the owner has the recovery kit
          init,        \* where the init command is
          running,     \* TRUE while the daemon runs
          session,     \* Manager.current
          challenge,   \* Manager.recoveryChallenge and its expiry
          issued,      \* recovery challenges so far
          held,        \* by confirmer, the challenge it is answering
          agent,       \* by client, its signature or approval under way
          approvals,   \* by client, when its pending approval expires
          ticker,      \* the ticker, between its two calls
          unlockedAt,  \* history: when the password was last entered
          activeAt,    \* history: the last unlock, edit or signature
          used,        \* history: the last use of the keys
          proof        \* history: challenges tried, and the one accepted

disk == <<rows, wrapped, kit, init>>
confirming == <<challenge, issued, held, proof>>
clients == <<agent, approvals, ticker>>
history == <<unlockedAt, activeAt, used>>
vars == <<now, disk, running, session, confirming, clients, history>>

Purpose == {"signing", "encryption", "metadata", "secret"}
Meta == {"vault_id", "device_id", "key_epoch", "unconfirmed"}
Row == {"genesis", "device", "chain", "confirmed"} \union Meta
Complete == {"genesis", "device", "chain", "device_id", "key_epoch"}

\* A wrapper opens under the password it was made with, and no other.
Opens(purpose, password) == wrapped[purpose] = password

Initialized == "genesis" \in rows
\* NewManager: what a manager needs to open.
NewManager == {"genesis", "device_id"} \subseteq rows

RecoveryConfirmed == "confirmed" \in rows

-----------------------------------------------------------------------------
(* A vault is made: init, row by row, or an installation in one            *)
(* transaction.                                                            *)

InitBegin ==
  /\ init = "none" /\ ~Initialized
  /\ init' = "genesis"
  /\ UNCHANGED <<now, rows, wrapped, kit, running, session, confirming, clients, history>>

Put(stage, row, next) ==
  /\ init = stage
  /\ rows' = rows \union {row}
  /\ init' = next

InitGenesis == Put("genesis", "genesis", "wrappers") /\ UNCHANGED <<wrapped, kit>>

\* Go ranges over a map in any order.
InitWrapper(purpose, password) ==
  /\ init = "wrappers" /\ wrapped[purpose] = None
  /\ \A q \in Purpose : wrapped[q] \in {None, password}
  /\ wrapped' = [wrapped EXCEPT ![purpose] = password]
  /\ init' = IF \A q \in Purpose \ {purpose} : wrapped[q] # None
             THEN "device" ELSE "wrappers"
  /\ UNCHANGED <<rows, kit>>

\* Mutation of InitDevice: the root of the chain is not stored.
InitDeviceNoChain == Put("device", "device", "metas") /\ UNCHANGED <<wrapped, kit>>

InitDevice == Put("device", "device", "chain") /\ UNCHANGED <<wrapped, kit>>
InitChain == Put("chain", "chain", "metas") /\ UNCHANGED <<wrapped, kit>>

InitMeta(meta) ==
  /\ meta \notin rows
  /\ Put("metas", meta, IF Meta \subseteq rows \union {meta} THEN "made" ELSE "metas")
  /\ UNCHANGED <<wrapped, kit>>

SaveKit ==
  /\ init = "made"
  /\ kit' = TRUE
  /\ init' = "saved"
  /\ UNCHANGED <<rows, wrapped>>

\* The owner types the checksum of the kit just saved.
ConfirmKitNow ==
  /\ init = "saved"
  /\ rows' = rows \union {"confirmed"}
  /\ init' = "none"
  /\ UNCHANGED <<wrapped, kit>>

\* The command fails or is killed at any point: what is stored stays.
InitStops ==
  /\ init # "none"
  /\ init' = "none"
  /\ UNCHANGED <<rows, wrapped, kit>>

\* restore, recover and pair: Store.Install.
Install(password) ==
  /\ init = "none" /\ ~Initialized
  /\ rows' = Complete \union {"vault_id", "confirmed"}
  /\ wrapped' = [purpose \in Purpose |-> password]
  /\ kit' = TRUE
  /\ UNCHANGED init

MakeVault ==
  /\ \/ InitGenesis \/ InitDevice \/ InitChain \/ SaveKit \/ ConfirmKitNow \/ InitStops
     \/ \E purpose \in Purpose, password \in Password : InitWrapper(purpose, password)
     \/ \E meta \in Meta : InitMeta(meta)
     \/ \E password \in Password : Install(password)
  /\ UNCHANGED <<now, running, session, confirming, clients, history>>

-----------------------------------------------------------------------------
(* The session.                                                            *)

Live == session # None /\ now < session.hard /\ now < session.idle

\* Mutation of Looked: an expired session is refused and kept.
LookedOnly == session

\* Manager.session: an expired session is locked by whoever looks at it.
Looked == IF Live THEN session ELSE None

Extended(s) == IF Live THEN [s EXCEPT !.idle = now + IdleTimeout] ELSE None

Use == used' = [sinceUnlock |-> now - unlockedAt, sinceActive |-> now - activeAt]

StartDaemon ==
  /\ ~running /\ NewManager
  /\ running' = TRUE
  /\ UNCHANGED <<now, disk, session, confirming, clients, history>>

\* Nothing in memory survives the daemon, however it ends.
StopDaemon ==
  /\ running
  /\ running' = FALSE
  /\ session' = None /\ challenge' = None
  /\ agent' = [c \in Client |-> "idle"]
  /\ approvals' = [c \in Client |-> None]
  /\ ticker' = "idle"
  /\ UNCHANGED <<now, disk, issued, held, proof, history>>

Unlock(password) ==
  /\ running
  /\ \A purpose \in Purpose : Opens(purpose, password)
  /\ "key_epoch" \in rows
  /\ session' = [hard |-> now + HardTimeout, idle |-> now + IdleTimeout]
  /\ unlockedAt' = now /\ activeAt' = now
  /\ UNCHANGED <<now, disk, running, confirming, clients, used>>

\* expireApprovals.
DropApprovals(locked) ==
  approvals' = [c \in Client |->
                  IF approvals[c] # None /\ (locked \/ now >= approvals[c])
                  THEN None ELSE approvals[c]]

Lock ==
  /\ running
  /\ session' = None
  /\ DropApprovals(TRUE)
  /\ UNCHANGED <<now, disk, running, confirming, agent, ticker, history>>

\* The ticker calls Expire and then expireApprovals with what it returned.
TickerExpire ==
  /\ running /\ ticker = "idle"
  /\ session' = Looked
  /\ ticker' = IF Live THEN "live" ELSE "locked"
  /\ UNCHANGED <<now, disk, running, confirming, agent, approvals, history>>

\* Mutation of TickerDrop: the approvals are left to the lock handler.
TickerKeeps ==
  /\ ticker # "idle"
  /\ ticker' = "idle"
  /\ UNCHANGED <<now, disk, running, session, confirming, agent, approvals, history>>

TickerDrop ==
  /\ ticker # "idle"
  /\ DropApprovals(ticker = "locked")
  /\ ticker' = "idle"
  /\ UNCHANGED <<now, disk, running, session, confirming, agent, history>>

\* Polling the status uses no key and extends nothing.
Status ==
  /\ running
  /\ session' = Looked
  /\ UNCHANGED <<now, disk, running, confirming, clients, history>>

\* Manager.read, MembershipSigner, RequestSigner: looks, and extends nothing.
Read ==
  /\ running
  /\ session' = Looked
  /\ IF Live THEN Use ELSE UNCHANGED used
  /\ UNCHANGED <<now, disk, running, confirming, clients, unlockedAt, activeAt>>

\* Manager.mutate: a successful edit extends the idle deadline.
Mutate ==
  /\ running /\ RecoveryConfirmed
  /\ session' = Extended(session)
  /\ IF Live THEN Use /\ activeAt' = now ELSE UNCHANGED <<used, activeAt>>
  /\ UNCHANGED <<now, disk, running, confirming, clients, unlockedAt>>

\* PutWrappers: one transaction, committed or not.
Rewrapped(password) == wrapped' = [purpose \in Purpose |-> password]

\* ChangePassword, which needs no session.
ChangePassword(current, next) ==
  /\ running
  /\ \A purpose \in Purpose : Opens(purpose, current)
  /\ Rewrapped(next)
  /\ UNCHANGED <<now, rows, kit, init, running, session, confirming, clients, history>>

-----------------------------------------------------------------------------
(* The agent: the key is looked up, loaded, and used after the mutex is    *)
(* released.                                                               *)

AgentFind(c) ==
  /\ running /\ agent[c] = "idle"
  /\ session' = Looked
  /\ agent' = [agent EXCEPT ![c] = IF Live THEN "found" ELSE "idle"]
  /\ IF Live THEN Use ELSE UNCHANGED used
  /\ UNCHANGED <<now, disk, running, confirming, approvals, ticker, unlockedAt, activeAt>>

AgentLoad(c) ==
  /\ agent[c] = "found"
  /\ session' = Looked
  /\ agent' = [agent EXCEPT ![c] = IF Live THEN "loaded" ELSE "idle"]
  /\ IF Live THEN Use ELSE UNCHANGED used
  /\ UNCHANGED <<now, disk, running, confirming, approvals, ticker, unlockedAt, activeAt>>

\* Mutation of Touched: the session is extended without a look at its deadlines.
TouchedBlindly ==
  IF session = None THEN None ELSE [session EXCEPT !.idle = now + IdleTimeout]

Touched == Extended(session)

AgentSign(c) ==
  /\ agent[c] = "loaded"
  /\ agent' = [agent EXCEPT ![c] = "idle"]
  /\ session' = Touched
  /\ activeAt' = IF Live THEN now ELSE activeAt
  /\ UNCHANGED <<now, disk, running, confirming, approvals, ticker, unlockedAt, used>>

(* Approving a pairing: the device's keys are taken, the relay is asked,   *)
(* and the approval that holds them is kept until it is delivered.         *)

ApproveBegin(c) ==
  /\ running /\ agent[c] = "idle"
  /\ session' = Looked
  /\ agent' = [agent EXCEPT ![c] = IF Live THEN "approving" ELSE "idle"]
  /\ IF Live THEN Use ELSE UNCHANGED used
  /\ UNCHANGED <<now, disk, running, confirming, approvals, ticker, unlockedAt, activeAt>>

ApproveKeep(c) ==
  /\ agent[c] = "approving"
  /\ agent' = [agent EXCEPT ![c] = "idle"]
  /\ approvals' = [approvals EXCEPT ![c] = now + ApprovalTTL]
  /\ UNCHANGED <<now, disk, running, session, confirming, ticker, history>>

ApproveFails(c) ==
  /\ agent[c] = "approving"
  /\ agent' = [agent EXCEPT ![c] = "idle"]
  /\ UNCHANGED <<now, disk, running, session, confirming, approvals, ticker, history>>

\* handlePairDeliver needs the approval and, for the bundle, the session.
Deliver(c) ==
  /\ running /\ approvals[c] # None
  /\ session' = Looked
  /\ approvals' = IF Live THEN [approvals EXCEPT ![c] = None] ELSE approvals
  /\ IF Live THEN Use ELSE UNCHANGED used
  /\ UNCHANGED <<now, disk, running, confirming, agent, ticker, unlockedAt, activeAt>>

-----------------------------------------------------------------------------
(* confirm-recovery: a challenge, a signature by the kit's key, an answer. *)

NewChallenge(c) ==
  /\ running /\ issued < MaxNonces
  /\ issued' = issued + 1
  /\ challenge' = [nonce |-> issued', expiry |-> now + ChallengeTTL, at |-> now]
  /\ held' = [held EXCEPT ![c] = issued']
  /\ UNCHANGED <<now, disk, running, session, clients, history, proof>>

\* Mutation of Cleared: a wrong answer leaves the challenge outstanding.
ClearedIfRight(right) == IF right THEN None ELSE challenge

\* The challenge is gone whatever comes of the answer.
Cleared(right) == None

\* An answer to nonce n; it verifies when it was signed with the vault's kit.
ConfirmProof(c, signed) ==
  LET n == held[c]
      right == /\ challenge # None /\ now <= challenge.expiry
               /\ n = challenge.nonce /\ signed
  IN
  /\ running /\ n # None
  /\ signed => kit
  /\ challenge' = Cleared(right)
  /\ rows' = IF right THEN rows \union {"confirmed"} ELSE rows
  /\ proof' = [tried |-> proof.tried \union {n},
               accepted |-> IF right
                            THEN [first |-> n \notin proof.tried,
                                  newest |-> n = issued,
                                  age |-> now - challenge.at]
                            ELSE proof.accepted]
  /\ UNCHANGED <<now, wrapped, kit, init, running, session, issued, held, clients, history>>

GiveUp(c) ==
  /\ held[c] # None
  /\ held' = [held EXCEPT ![c] = None]
  /\ UNCHANGED <<now, disk, running, session, challenge, issued, proof, clients, history>>

\* Without a daemon the command takes the instance lock and does it all.
ConfirmInProcess ==
  /\ ~running /\ NewManager /\ kit
  /\ rows' = rows \union {"confirmed"}
  /\ UNCHANGED <<now, wrapped, kit, init, running, session, confirming, clients, history>>

-----------------------------------------------------------------------------
Pass ==
  /\ now < MaxTime
  /\ now' = now + 1
  /\ UNCHANGED <<disk, running, session, confirming, clients, history>>

\* A machine with no vault, or one whose vault is in use.
Init ==
  /\ \/ /\ rows = {} /\ kit = FALSE
        /\ wrapped = [purpose \in Purpose |-> None]
     \/ /\ rows = Row /\ kit = TRUE
        /\ \E p \in Password : wrapped = [purpose \in Purpose |-> p]
  /\ now = 0
  /\ init = "none" /\ running = FALSE /\ session = None
  /\ challenge = None /\ issued = 0 /\ held = [c \in Confirmer |-> None]
  /\ agent = [c \in Client |-> "idle"]
  /\ approvals = [c \in Client |-> None]
  /\ ticker = "idle"
  /\ unlockedAt = 0 /\ activeAt = 0 /\ used = None
  /\ proof = [tried |-> {}, accepted |-> None]

Ticker == TickerExpire \/ TickerDrop

Next ==
  \/ InitBegin \/ MakeVault
  \/ StartDaemon \/ StopDaemon \/ Lock \/ Status \/ Read \/ Mutate \/ Ticker
  \/ \E p \in Password : Unlock(p)
  \/ \E p, q \in Password : ChangePassword(p, q)
  \/ \E c \in Client :
       \/ AgentFind(c) \/ AgentLoad(c) \/ AgentSign(c)
       \/ ApproveBegin(c) \/ ApproveKeep(c) \/ ApproveFails(c) \/ Deliver(c)
  \/ \E c \in Confirmer :
       \/ NewChallenge(c) \/ GiveUp(c)
       \/ \E signed \in BOOLEAN : ConfirmProof(c, signed)
  \/ ConfirmInProcess
  \/ Pass

Spec == Init /\ [][Next]_vars

\* The daemon's ticker fires every second for as long as it runs.
LiveSpec == Spec /\ WF_vars(TickerExpire) /\ WF_vars(TickerDrop)

-----------------------------------------------------------------------------
(***************************************************************************)
(* Init writes a vault in ten separate statements and may be cut off after *)
(* any of them; what is left says it is initialized.  A vault that unlocks *)
(* nevertheless has its genesis, its device row, the root of its chain,    *)
(* its device identifier and its key epoch (vault/manager.go:160-197,      *)
(* 305-380): a half-made vault never opens a session.                      *)
(***************************************************************************)
OpenedIsComplete == session # None => Complete \subseteq rows

(***************************************************************************)
(* The keys are used only within HardTimeout of the password being entered *)
(* and within IdleTimeout of the last unlock, edit or signature, whatever  *)
(* the order of ticks, looks, signatures in flight and polls               *)
(* (vault/manager.go:396-423, agentsrv/agent.go:60-85): a signature that   *)
(* ends after its session expired does not bring the session back, and     *)
(* nothing extends the hard deadline.                                      *)
(***************************************************************************)
UsesAreInTime ==
  used # None => used.sinceUnlock < HardTimeout /\ used.sinceActive < IdleTimeout

(***************************************************************************)
(* The proof that confirmed a kit answered the newest challenge, within    *)
(* its time, and at the first attempt: an answer consumes the challenge    *)
(* even when it is wrong, and of two commands confirming at once the later *)
(* challenge displaces the earlier (vault/manager.go:227-265).             *)
(***************************************************************************)
ProofIsFresh ==
  proof.accepted # None =>
    /\ proof.accepted.newest /\ proof.accepted.first
    /\ proof.accepted.age <= ChallengeTTL

(***************************************************************************)
(* An expired session's keys leave memory even when nobody asks for them   *)
(* (vault/manager.go:404-411 and the ticker, daemon/daemon.go:107-111).    *)
(***************************************************************************)
KeysAreReleased == (session # None /\ ~Live) ~> (session = None \/ Live)

(***************************************************************************)
(* A pending approval holds device keys.  One that is kept after the vault *)
(* was locked, because the lock came while the approval was asking the     *)
(* relay, goes soon after, unless the vault is unlocked again              *)
(* (daemon/pair.go:23-33, 84-89).                                          *)
(***************************************************************************)
ApprovalsAreDropped ==
  \A c \in Client :
    (approvals[c] # None /\ ~Live) ~> (approvals[c] = None \/ Live)
=============================================================================
