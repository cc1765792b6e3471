--------------------------- MODULE SessionProofs ---------------------------
(***************************************************************************)
(* Proofs about Session, for any passwords, clients and confirming         *)
(* commands, any timeouts and any length of time.                          *)
(*                                                                         *)
(* The three properties rest on three parts of the state that no action    *)
(* relates to each other: the rows on disk, the deadlines of the session   *)
(* and the recovery challenge.  Each part has its inductive invariant.     *)
(***************************************************************************)
EXTENDS Session, TLAPS

\* Leaves that reason about numbers, sequences or records use the SMT solver.
USE ZenonT(60)

-----------------------------------------------------------------------------
(* The rows.  Init stores them in an order that leaves the key epoch, which *)
(* an unlock reads, for the end, and the device identifier, which a manager *)
(* reads, beside it.                                                        *)

\* The rows that are stored once init has come to a stage.
StoredBy(stage) ==
  CASE stage \in {"none", "genesis"} -> {}
    [] stage \in {"wrappers", "device"} -> {"genesis"}
    [] stage = "chain" -> {"genesis", "device"}
    [] OTHER -> {"genesis", "device", "chain"}

RowsInv ==
  /\ StoredBy(init) \subseteq rows
  /\ "genesis" \notin rows => rows = {}
  /\ "key_epoch" \in rows => {"genesis", "device", "chain"} \subseteq rows
  /\ running => NewManager
  /\ session # None => Complete \subseteq rows

\* A step in which the rows only grow, none of them a key epoch, and which
\* opens no session.
LEMMA RowsGrow ==
  ASSUME RowsInv, rows \subseteq rows', "key_epoch" \in rows' => "key_epoch" \in rows,
         "genesis" \in rows \/ rows' = {} \/ "genesis" \in rows',
         StoredBy(init)' \subseteq rows',
         running' => NewManager',
         session' # None => session # None
  PROVE  RowsInv'
  BY DEF RowsInv, NewManager, Complete

\* A step that leaves the disk alone.
LEMMA DiskUnchanged ==
  ASSUME RowsInv, UNCHANGED disk,
         running' => running \/ NewManager,
         session' # None => session # None \/ Complete \subseteq rows
  PROVE  RowsInv'
  BY DEF RowsInv, NewManager, Complete, disk, StoredBy

\* Whoever looks at the session, or extends it, opens none.
LEMMA LooksOpenNone ==
  /\ Looked # None => session # None
  /\ Extended(session) # None => session # None
  BY DEF Looked, Extended, Live

LEMMA RowsInit ==
  ASSUME Init
  PROVE  RowsInv
  BY DEF Init, RowsInv, StoredBy, NewManager, Complete, Row, Meta

\* Making a vault keeps RowsInv, wherever it is cut off.
LEMMA RowsMakeVault ==
  ASSUME RowsInv, MakeVault
  PROVE  RowsInv'
  <1>1. CASE InitGenesis
    BY <1>1, RowsGrow DEF MakeVault, InitGenesis, Put, RowsInv, StoredBy, NewManager
  <1>2. CASE \E purpose \in Purpose, password \in Password : InitWrapper(purpose, password)
    <2>1. rows' = rows /\ init = "wrappers" /\ init' \in {"device", "wrappers"}
      BY <1>2 DEF InitWrapper
    <2> QED BY <2>1, RowsGrow DEF MakeVault, RowsInv, StoredBy, NewManager
  <1>3. CASE InitDevice
    BY <1>3, RowsGrow DEF MakeVault, InitDevice, Put, RowsInv, StoredBy, NewManager
  <1>4. CASE InitChain
    BY <1>4, RowsGrow DEF MakeVault, InitChain, Put, RowsInv, StoredBy, NewManager
  <1>5. CASE \E meta \in Meta : InitMeta(meta)
    <2>1. PICK meta \in Meta : rows' = rows \union {meta}
      BY <1>5 DEF InitMeta, Put
    <2>2. init = "metas" /\ init' \in {"made", "metas"}
      BY <1>5 DEF InitMeta, Put
    <2>3. {"genesis", "device", "chain"} \subseteq rows
      BY <2>2 DEF RowsInv, StoredBy
    <2>4. UNCHANGED <<running, session>>
      BY DEF MakeVault
    <2> QED BY <2>1, <2>2, <2>3, <2>4 DEF RowsInv, StoredBy, NewManager, Complete
  <1>6. CASE SaveKit
    BY <1>6, RowsGrow DEF MakeVault, SaveKit, RowsInv, StoredBy, NewManager
  <1>7. CASE ConfirmKitNow
    BY <1>7, RowsGrow DEF MakeVault, ConfirmKitNow, RowsInv, StoredBy, NewManager
  <1>8. CASE InitStops
    BY <1>8, RowsGrow DEF MakeVault, InitStops, RowsInv, StoredBy, NewManager
  <1>9. CASE \E password \in Password : Install(password)
    <2>1. /\ "genesis" \notin rows /\ rows' = Complete \union {"vault_id", "confirmed"}
          /\ init = "none" /\ init' = init /\ UNCHANGED <<running, session>>
      BY <1>9 DEF Install, Initialized, MakeVault
    <2> QED BY <2>1 DEF RowsInv, StoredBy, NewManager, Complete
  <1> QED BY <1>1, <1>2, <1>3, <1>4, <1>5, <1>6, <1>7, <1>8, <1>9 DEF MakeVault

\* Every step keeps RowsInv: a session is opened by Unlock alone, and a
\* manager that can open has read the device identifier.
LEMMA RowsNext ==
  ASSUME RowsInv, [Next]_vars
  PROVE  RowsInv'
  <1>1. CASE InitBegin
    BY <1>1 DEF InitBegin, RowsInv, StoredBy, NewManager, Complete
  <1>2. CASE MakeVault
    BY <1>2, RowsMakeVault
  <1>3. CASE StartDaemon \/ StopDaemon \/ Lock
    BY <1>3, DiskUnchanged DEF StartDaemon, StopDaemon, Lock
  <1>4. CASE Status \/ Read \/ Mutate \/ Ticker
    BY <1>4, DiskUnchanged, LooksOpenNone, SMTT(30)
       DEF Status, Read, Mutate, Ticker, TickerExpire, TickerDrop
  <1>5. CASE \E p \in Password : Unlock(p)
    <2>1. UNCHANGED <<disk, running>> /\ running /\ "key_epoch" \in rows
      BY <1>5 DEF Unlock
    <2>2. Complete \subseteq rows
      BY <2>1 DEF RowsInv, NewManager, Complete
    <2> QED BY <2>1, <2>2, DiskUnchanged
  <1>6. CASE \E p, q \in Password : ChangePassword(p, q)
    BY <1>6, RowsGrow DEF ChangePassword, RowsInv, StoredBy, NewManager
  <1>7. ASSUME NEW c \in Client,
               \/ AgentFind(c) \/ AgentLoad(c) \/ AgentSign(c)
               \/ ApproveBegin(c) \/ ApproveKeep(c) \/ ApproveFails(c) \/ Deliver(c)
        PROVE  RowsInv'
    BY <1>7, DiskUnchanged, LooksOpenNone, SMTT(30)
       DEF AgentFind, AgentLoad, AgentSign, Touched, ApproveBegin, ApproveKeep,
           ApproveFails, Deliver
  <1>8. ASSUME NEW c \in Confirmer, NewChallenge(c) \/ GiveUp(c)
        PROVE  RowsInv'
    BY <1>8, DiskUnchanged, SMTT(30) DEF NewChallenge, GiveUp
  <1>9. ASSUME NEW c \in Confirmer, NEW signed \in BOOLEAN, ConfirmProof(c, signed)
        PROVE  RowsInv'
    <2>1. /\ rows' = rows \/ rows' = rows \union {"confirmed"}
          /\ running /\ UNCHANGED <<init, running, session>>
      BY <1>9 DEF ConfirmProof
    <2> QED BY <2>1, RowsGrow DEF RowsInv, StoredBy, NewManager
  <1>10. CASE ConfirmInProcess
    BY <1>10, RowsGrow DEF ConfirmInProcess, RowsInv, StoredBy, NewManager
  <1>11. CASE Pass
    BY <1>11, DiskUnchanged DEF Pass
  <1>12. CASE UNCHANGED vars
    BY <1>12, DiskUnchanged DEF vars
  <1> QED
    BY <1>1, <1>2, <1>3, <1>4, <1>5, <1>6, <1>7, <1>8, <1>9, <1>10, <1>11, <1>12 DEF Next

-----------------------------------------------------------------------------
(* The deadlines.  The hard one counts from the password, the idle one from *)
(* the last unlock, edit or signature, and a use found both ahead.          *)

TimesInv ==
  /\ now \in Nat /\ unlockedAt \in Nat /\ activeAt \in Nat
  /\ session # None => /\ session = [hard |-> session.hard, idle |-> session.idle]
                      /\ session.hard = unlockedAt + HardTimeout
                      /\ session.idle = activeAt + IdleTimeout
  /\ UsesAreInTime

\* A step that sets neither the clock nor a deadline and uses no key.
LEMMA TimesUnchanged ==
  ASSUME TimesInv, UNCHANGED <<now, history>>, session' \in {session, None}
  PROVE  TimesInv'
  BY DEF TimesInv, history, UsesAreInTime

\* A step that looks at the session and uses a key when it is live.
LEMMA TimesUsed ==
  ASSUME TimesInv, UNCHANGED <<now, unlockedAt, activeAt>>, session' = Looked,
         IF Live THEN Use ELSE UNCHANGED used
  PROVE  TimesInv'
  <1> USE SessionConstants
  <1>1. CASE Live
    BY <1>1, SMTT(30) DEF TimesInv, Live, Looked, Use, UsesAreInTime
  <1>2. CASE ~Live
    BY <1>2 DEF TimesInv, Looked, UsesAreInTime
  <1> QED BY <1>1, <1>2

\* A step that extends a live session, and locks one that is not.
LEMMA TimesExtended ==
  ASSUME TimesInv, UNCHANGED <<now, unlockedAt>>, session' = Extended(session),
         activeAt' = IF Live THEN now ELSE activeAt,
         (Live /\ Use) \/ UNCHANGED used
  PROVE  TimesInv'
  <1> USE SessionConstants
  <1>1. UsesAreInTime'
    BY SMTT(30) DEF TimesInv, Live, Use, UsesAreInTime
  <1>2. CASE Live
    BY <1>1, <1>2 DEF TimesInv, Live, Extended
  <1>3. CASE ~Live
    BY <1>1, <1>3 DEF TimesInv, Extended
  <1> QED BY <1>2, <1>3

\* Every step keeps TimesInv.
LEMMA TimesNext ==
  ASSUME TimesInv, [Next]_vars
  PROVE  TimesInv'
  <1> USE SessionConstants
  <1>1. CASE InitBegin \/ MakeVault
    BY <1>1, TimesUnchanged DEF InitBegin, MakeVault
  <1>2. CASE StartDaemon \/ StopDaemon \/ Lock
    BY <1>2, TimesUnchanged DEF StartDaemon, StopDaemon, Lock
  <1>3. CASE Status \/ Ticker
    BY <1>3, TimesUnchanged DEF Status, Ticker, TickerExpire, TickerDrop, Looked
  <1>4. CASE Read
    BY <1>4, TimesUsed DEF Read
  <1>5. CASE Mutate
    BY <1>5, TimesExtended DEF Mutate
  <1>6. CASE \E p \in Password : Unlock(p)
    <2>1. /\ session' = [hard |-> now + HardTimeout, idle |-> now + IdleTimeout]
          /\ unlockedAt' = now /\ activeAt' = now /\ UNCHANGED <<now, used>>
      BY <1>6 DEF Unlock
    <2> QED BY <2>1 DEF TimesInv, UsesAreInTime
  <1>7. CASE \E p, q \in Password : ChangePassword(p, q)
    BY <1>7, TimesUnchanged DEF ChangePassword
  <1>8. ASSUME NEW c \in Client,
               AgentFind(c) \/ AgentLoad(c) \/ ApproveBegin(c) \/ Deliver(c)
        PROVE  TimesInv'
    BY <1>8, TimesUsed DEF AgentFind, AgentLoad, ApproveBegin, Deliver
  <1>9. ASSUME NEW c \in Client, AgentSign(c)
        PROVE  TimesInv'
    BY <1>9, TimesExtended DEF AgentSign, Touched
  <1>10. ASSUME NEW c \in Client, ApproveKeep(c) \/ ApproveFails(c)
         PROVE  TimesInv'
    BY <1>10, TimesUnchanged DEF ApproveKeep, ApproveFails
  <1>11. ASSUME NEW c \in Confirmer,
                \/ NewChallenge(c) \/ GiveUp(c)
                \/ \E signed \in BOOLEAN : ConfirmProof(c, signed)
         PROVE  TimesInv'
    BY <1>11, TimesUnchanged DEF NewChallenge, GiveUp, ConfirmProof
  <1>12. CASE ConfirmInProcess
    BY <1>12, TimesUnchanged DEF ConfirmInProcess
  <1>13. CASE Pass
    BY <1>13, SMTT(30) DEF Pass, TimesInv, UsesAreInTime, history
  <1>14. CASE UNCHANGED vars
    BY <1>14, TimesUnchanged DEF vars
  <1> QED
    BY <1>1, <1>2, <1>3, <1>4, <1>5, <1>6, <1>7, <1>8, <1>9, <1>10, <1>11, <1>12, <1>13,
       <1>14 DEF Next

-----------------------------------------------------------------------------
(* The recovery challenge.  The one outstanding is the newest issued, and   *)
(* nobody has tried to answer it.                                           *)

ChallengeInv ==
  /\ now \in Nat /\ issued \in Nat
  /\ proof.tried \subseteq 1..issued
  /\ held \in [Confirmer -> {None} \union 1..issued]
  /\ challenge # None => /\ challenge.nonce = issued /\ issued \notin proof.tried
                        /\ challenge.at \in 0..now
                        /\ challenge.expiry = challenge.at + ChallengeTTL
  /\ ProofIsFresh

\* A step that confirms nothing, and at most forgets the challenge.
LEMMA ChallengeUnchanged ==
  ASSUME ChallengeInv, UNCHANGED <<now, issued, held, proof>>,
         challenge' \in {challenge, None}
  PROVE  ChallengeInv'
  BY DEF ChallengeInv, ProofIsFresh

\* Every step keeps ChallengeInv: a new challenge has a number nobody holds,
\* and an answer of either kind leaves none outstanding.
LEMMA ChallengeNext ==
  ASSUME ChallengeInv, [Next]_vars
  PROVE  ChallengeInv'
  <1> USE SessionConstants
  <1>1. CASE InitBegin \/ MakeVault \/ ConfirmInProcess
    BY <1>1, ChallengeUnchanged DEF InitBegin, MakeVault, ConfirmInProcess, confirming
  <1>2. CASE StartDaemon \/ StopDaemon \/ Lock
    BY <1>2, ChallengeUnchanged DEF StartDaemon, StopDaemon, Lock, confirming
  <1>3. CASE Status \/ Read \/ Mutate \/ Ticker
    BY <1>3, ChallengeUnchanged
       DEF Status, Read, Mutate, Ticker, TickerExpire, TickerDrop, confirming
  <1>4. CASE \E p \in Password : Unlock(p)
    BY <1>4, ChallengeUnchanged DEF Unlock, confirming
  <1>5. CASE \E p, q \in Password : ChangePassword(p, q)
    BY <1>5, ChallengeUnchanged DEF ChangePassword, confirming
  <1>6. ASSUME NEW c \in Client,
               \/ AgentFind(c) \/ AgentLoad(c) \/ AgentSign(c)
               \/ ApproveBegin(c) \/ ApproveKeep(c) \/ ApproveFails(c) \/ Deliver(c)
        PROVE  ChallengeInv'
    BY <1>6, ChallengeUnchanged
       DEF AgentFind, AgentLoad, AgentSign, ApproveBegin, ApproveKeep, ApproveFails,
           Deliver, confirming
  <1>7. ASSUME NEW c \in Confirmer, NewChallenge(c)
        PROVE  ChallengeInv'
    <2>1. /\ issued' = issued + 1 /\ UNCHANGED <<now, proof>>
          /\ challenge' = [nonce |-> issued', expiry |-> now + ChallengeTTL, at |-> now]
          /\ held' = [held EXCEPT ![c] = issued']
      BY <1>7 DEF NewChallenge
    <2>2. held' \in [Confirmer -> {None} \union 1..issued']
      BY <2>1, SMTT(30) DEF ChallengeInv
    <2>3. ProofIsFresh' /\ proof'.tried \subseteq 1..issued' /\ issued' \notin proof'.tried
      BY <2>1, SMTT(30) DEF ChallengeInv, ProofIsFresh
    <2> QED BY <2>1, <2>2, <2>3, SMTT(30) DEF ChallengeInv
  <1>8. ASSUME NEW c \in Confirmer, NEW signed \in BOOLEAN, ConfirmProof(c, signed)
        PROVE  ChallengeInv'
    <2> DEFINE n == held[c]
               right == /\ challenge # None /\ now <= challenge.expiry
                        /\ n = challenge.nonce /\ signed
    <2>1. /\ n # None /\ challenge' = None /\ UNCHANGED <<now, issued, held>>
          /\ proof' = [tried |-> proof.tried \union {n},
                       accepted |-> IF right
                                    THEN [first |-> n \notin proof.tried,
                                          newest |-> n = issued,
                                          age |-> now - challenge.at]
                                    ELSE proof.accepted]
      BY <1>8 DEF ConfirmProof, Cleared
    <2>2. n \in 1..issued
      BY <2>1 DEF ChallengeInv
    <2>3. proof'.tried \subseteq 1..issued'
      BY <2>1, <2>2 DEF ChallengeInv
    <2>4. CASE right
      <3>1. n = issued /\ n \notin proof.tried
        BY <2>4 DEF ChallengeInv
      <3>2. now - challenge.at <= ChallengeTTL
        BY <2>4, SMTT(30) DEF ChallengeInv
      <3>3. /\ proof'.accepted.first = (n \notin proof.tried)
            /\ proof'.accepted.newest = (n = issued)
            /\ proof'.accepted.age = now - challenge.at
        BY <2>1, <2>4
      <3>4. ProofIsFresh'
        BY <3>1, <3>2, <3>3 DEF ProofIsFresh
      <3> QED BY <2>1, <2>3, <3>4 DEF ChallengeInv
    <2>5. CASE ~right
      <3>1. proof'.accepted = proof.accepted
        BY <2>1, <2>5
      <3>2. ProofIsFresh'
        BY <3>1 DEF ChallengeInv, ProofIsFresh
      <3> QED BY <2>1, <2>3, <3>2 DEF ChallengeInv
    <2> QED BY <2>4, <2>5
  <1>9. ASSUME NEW c \in Confirmer, GiveUp(c)
        PROVE  ChallengeInv'
    <2>1. held' \in [Confirmer -> {None} \union 1..issued']
      BY <1>9 DEF GiveUp, ChallengeInv
    <2> QED BY <1>9, <2>1 DEF GiveUp, ChallengeInv, ProofIsFresh
  <1>10. CASE Pass
    BY <1>10, SMTT(30) DEF Pass, ChallengeInv, ProofIsFresh, confirming
  <1>11. CASE UNCHANGED vars
    BY <1>11, ChallengeUnchanged DEF vars, confirming
  <1> QED
    BY <1>1, <1>2, <1>3, <1>4, <1>5, <1>6, <1>7, <1>8, <1>9, <1>10, <1>11 DEF Next

-----------------------------------------------------------------------------
(***************************************************************************)
(* A vault that opens is complete, wherever the command that made it was   *)
(* cut off and whichever commands came after (vault/manager.go Init,       *)
(* Unlock; store_install.go).                                              *)
(***************************************************************************)
THEOREM OpenedAlwaysComplete == Spec => []OpenedIsComplete
  <1>1. RowsInv => OpenedIsComplete
    BY DEF RowsInv, OpenedIsComplete
  <1> QED BY <1>1, RowsInit, RowsNext, PTL DEF Spec

(***************************************************************************)
(* Keys are used within both deadlines, for any timeouts and any number of *)
(* clients with signatures in flight (vault/manager.go session, Touch;     *)
(* agentsrv/agent.go).                                                     *)
(***************************************************************************)
THEOREM UsesAlwaysInTime == Spec => []UsesAreInTime
  <1>1. Init => TimesInv
    BY SMTT(30) DEF Init, TimesInv, UsesAreInTime
  <1>2. TimesInv => UsesAreInTime
    BY DEF TimesInv
  <1> QED BY <1>1, <1>2, TimesNext, PTL DEF Spec

(***************************************************************************)
(* A confirmation accepts only the first answer to the newest challenge,   *)
(* in time, for any number of commands confirming at once                  *)
(* (vault/manager.go RecoveryChallenge, ConfirmRecoveryProof).             *)
(***************************************************************************)
THEOREM ProofsAlwaysFresh == Spec => []ProofIsFresh
  <1>1. Init => ChallengeInv
    BY SMTT(30) DEF Init, ChallengeInv, ProofIsFresh
  <1>2. ChallengeInv => ProofIsFresh
    BY DEF ChallengeInv
  <1> QED BY <1>1, <1>2, ChallengeNext, PTL DEF Spec
=============================================================================
