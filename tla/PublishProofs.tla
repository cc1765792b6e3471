--------------------------- MODULE PublishProofs ---------------------------
(***************************************************************************)
(* The public key files that the config names are there, for any number of *)
(* requests, hosts, keys and faults.  PublishInv says what a request that  *)
(* is about to write the config knows: every public key its plan names has *)
(* been written, and no request takes one away.                            *)
(***************************************************************************)
EXTENDS Publish, TLAPS

\* Leaves that reason about records use the SMT solver.
USE ZenonT(60)

IsRequest(q) == q = [pc |-> q.pc, hosts |-> q.hosts, keys |-> q.keys, trust |-> q.trust]

Wanted(q) == PubFiles(Planned(q.hosts, q.keys))

PublishInv ==
  /\ req = [r \in Request |-> req[r]]
  /\ \A r \in Request : IsRequest(req[r])
  /\ \A r \in Request : req[r].pc = "config" => Wanted(req[r]) \subseteq pubs
  /\ PubFilesPresent

-----------------------------------------------------------------------------
(* What a step may do to the requests. *)

\* Every other request stays as it is, and r becomes q.
Becomes(r, q) == req' = [req EXCEPT ![r] = q]

LEMMA IdleRequest ==
  IsRequest(Idle) /\ Idle.pc = "idle"
  BY SMTT(30) DEF Idle, IsRequest

\* One request takes a step and no file it may count on goes away.
LEMMA RequestStep ==
  ASSUME PublishInv, NEW r \in Request, NEW q, IsRequest(q), Becomes(r, q),
         pubs \subseteq pubs', q.pc = "config" => Wanted(q) \subseteq pubs',
         UNCHANGED config
  PROVE  PublishInv'
  <1>1. req' = [x \in Request |-> IF x = r THEN q ELSE req[x]]
    BY DEF PublishInv, Becomes
  <1>2. req' = [x \in Request |-> req'[x]]
    BY <1>1
  <1>3. \A x \in Request : req'[x] = IF x = r THEN q ELSE req[x]
    BY <1>1
  <1>4. \A x \in Request : IsRequest(req'[x])
    BY <1>3 DEF PublishInv
  <1>5. \A x \in Request : req'[x].pc = "config" => Wanted(req'[x]) \subseteq pubs'
    BY <1>3 DEF PublishInv
  <1>6. PubFilesPresent'
    BY DEF PublishInv, PubFilesPresent
  <1> QED BY <1>2, <1>4, <1>5, <1>6 DEF PublishInv

\* No step of the requests, and nothing else.
LEMMA QuietStep ==
  ASSUME PublishInv, UNCHANGED <<req, pubs, config>>
  PROVE  PublishInv'
  BY DEF PublishInv, PubFilesPresent

\* Goto keeps what the request has read.
LEMMA GotoStep ==
  ASSUME PublishInv, NEW r \in Request, NEW pc, Goto(r, pc), pc # "config",
         UNCHANGED <<pubs, config>>
  PROVE  PublishInv'
  <1>1. PICK q : q = [req[r] EXCEPT !.pc = pc]
    OBVIOUS
  <1>2. IsRequest(q) /\ q.pc = pc
    BY <1>1, SMTT(30) DEF PublishInv, IsRequest
  <1>3. Becomes(r, q)
    BY <1>1 DEF Goto, Becomes
  <1> QED BY <1>2, <1>3, RequestStep

LEMMA EndStep ==
  ASSUME PublishInv, NEW r \in Request, End(r), UNCHANGED <<pubs, config>>
  PROVE  PublishInv'
  <1>1. Becomes(r, Idle)
    BY DEF End, Becomes
  <1> QED BY <1>1, IdleRequest, RequestStep

-----------------------------------------------------------------------------
(* One lemma per step of a request that does more than go on. *)

LEMMA StartKeeps ==
  ASSUME PublishInv, NEW r \in Request, NEW pc, Start(r, pc), pc # "config",
         UNCHANGED files
  PROVE  PublishInv'
  BY GotoStep DEF Start, Goto, files

LEMMA ChangeKeeps ==
  ASSUME PublishInv, NEW r \in Request, LocalChange(r)
  PROVE  PublishInv'
  <1>1. PICK v : Change(r, v)
    BY DEF LocalChange, AddKey, AddHost, EditHost, ImportHosts, RemoveHost, RemoveKey, TrustLine
  <1> QED BY <1>1, StartKeeps DEF Change

\* q is p with one more of the three read.
Reads(p, q, v) ==
  q = [p EXCEPT !.hosts = v] \/ q = [p EXCEPT !.keys = v] \/ q = [p EXCEPT !.trust = v]

LEMMA RequestReads ==
  ASSUME NEW p, IsRequest(p), NEW v, NEW q, Reads(p, q, v)
  PROVE  IsRequest(q) /\ q.pc = p.pc
  <1>1. CASE q = [p EXCEPT !.hosts = v]
    BY <1>1, SMTT(30) DEF IsRequest
  <1>2. CASE q = [p EXCEPT !.keys = v]
    BY <1>2, SMTT(30) DEF IsRequest
  <1>3. CASE q = [p EXCEPT !.trust = v]
    BY <1>3, SMTT(30) DEF IsRequest
  <1> QED BY <1>1, <1>2, <1>3 DEF Reads

\* The three reads of plan change what the request knows, before it writes.
LEMMA ReadKeeps ==
  ASSUME PublishInv, NEW r \in Request, ReadHosts(r) \/ ReadKeys(r) \/ ReadTrust(r)
  PROVE  PublishInv'
  <1>1. IsRequest(req[r])
    BY DEF PublishInv
  <1>2. ASSUME NEW q, IsRequest(q), Becomes(r, q), q.pc # "config", UNCHANGED files
        PROVE  PublishInv'
    BY <1>2, RequestStep DEF files
  <1>3. CASE ReadHosts(r)
    <2>1. PICK p, q : p = [req[r] EXCEPT !.pc = "keys"] /\ q = [p EXCEPT !.hosts = vault.hosts]
      OBVIOUS
    <2>2. IsRequest(p) /\ p.pc = "keys"
      BY <1>1, <2>1, SMTT(30) DEF IsRequest
    <2>3. IsRequest(q) /\ q.pc = "keys"
      <3>1. Reads(p, q, vault.hosts)
        BY <2>1 DEF Reads
      <3> QED BY <2>2, <3>1, RequestReads
    <2>4. q = [req[r] EXCEPT !.pc = "keys", !.hosts = vault.hosts]
      BY <2>1
    <2>5. Becomes(r, q)
      BY <1>3, <2>4 DEF ReadHosts, Becomes, PublishInv
    <2> QED BY <1>2, <1>3, <2>3, <2>5 DEF ReadHosts
  <1>4. CASE ReadKeys(r)
    <2>1. PICK p, q : p = [req[r] EXCEPT !.pc = "trust"] /\ q = [p EXCEPT !.keys = vault.keys]
      OBVIOUS
    <2>2. IsRequest(p) /\ p.pc = "trust"
      BY <1>1, <2>1, SMTT(30) DEF IsRequest
    <2>3. IsRequest(q) /\ q.pc = "trust"
      <3>1. Reads(p, q, vault.keys)
        BY <2>1 DEF Reads
      <3> QED BY <2>2, <3>1, RequestReads
    <2>4. q = [req[r] EXCEPT !.pc = "trust", !.keys = vault.keys]
      BY <2>1
    <2>5. Becomes(r, q)
      BY <1>4, <2>4 DEF ReadKeys, Becomes, PublishInv
    <2> QED BY <1>2, <1>4, <2>3, <2>5 DEF ReadKeys
  <1>5. CASE ReadTrust(r)
    <2>1. PICK p, q : p = [req[r] EXCEPT !.pc = "pubs"] /\ q = [p EXCEPT !.trust = vault.trust]
      OBVIOUS
    <2>2. IsRequest(p) /\ p.pc = "pubs"
      BY <1>1, <2>1, SMTT(30) DEF IsRequest
    <2>3. IsRequest(q) /\ q.pc = "pubs"
      <3>1. Reads(p, q, vault.trust)
        BY <2>1 DEF Reads
      <3> QED BY <2>2, <3>1, RequestReads
    <2>4. q = [req[r] EXCEPT !.pc = "pubs", !.trust = vault.trust]
      BY <2>1
    <2>5. Becomes(r, q)
      BY <1>5, <2>4 DEF ReadTrust, Becomes, PublishInv
    <2> QED BY <1>2, <1>5, <2>3, <2>5 DEF ReadTrust
  <1> QED BY <1>3, <1>4, <1>5

\* The config is the next step only when no public key is missing.
LEMMA PublishKeyKeeps ==
  ASSUME PublishInv, NEW r \in Request, PublishKey(r)
  PROVE  PublishInv'
  <1>1. CASE Wanted(req[r]) \subseteq pubs
    <2>1. Goto(r, "config") /\ UNCHANGED <<pubs, config>>
      BY <1>1 DEF PublishKey, Wanted
    <2>2. PICK q : q = [req[r] EXCEPT !.pc = "config"]
      OBVIOUS
    <2>3. IsRequest(q) /\ q.hosts = req[r].hosts /\ q.keys = req[r].keys
      BY <2>2, SMTT(30) DEF PublishInv, IsRequest
    <2>4. Becomes(r, q) /\ Wanted(q) = Wanted(req[r])
      BY <2>1, <2>2, <2>3 DEF Goto, Becomes, Wanted
    <2> QED BY <1>1, <2>1, <2>3, <2>4, RequestStep
  <1>2. CASE ~(Wanted(req[r]) \subseteq pubs)
    <2>1. UNCHANGED <<req, config>> /\ pubs \subseteq pubs'
      BY <1>2 DEF PublishKey, Wanted
    <2> QED BY <2>1 DEF PublishInv, PubFilesPresent
  <1> QED BY <1>1, <1>2

\* What the request wanted is what the config then names.
LEMMA PublishConfigKeeps ==
  ASSUME PublishInv, NEW r \in Request, PublishConfig(r)
  PROVE  PublishInv'
  <1>1. Goto(r, "known") /\ UNCHANGED pubs
    BY DEF PublishConfig
  <1>2. PubFiles(config') \subseteq pubs'
    BY <1>1 DEF PublishConfig, PublishInv, Wanted
  <1>3. PICK q : q = [req[r] EXCEPT !.pc = "known"]
    OBVIOUS
  <1>4. IsRequest(q) /\ q.pc = "known"
    BY <1>3, SMTT(30) DEF PublishInv, IsRequest
  <1>5. req' = [x \in Request |-> IF x = r THEN q ELSE req[x]]
    BY <1>1, <1>3 DEF Goto, PublishInv
  <1>6. /\ req' = [x \in Request |-> req'[x]]
        /\ \A x \in Request : req'[x] = IF x = r THEN q ELSE req[x]
    BY <1>5
  <1>7. "known" # "config"
    BY SMTT(30)
  <1>8. \A x \in Request : /\ IsRequest(req'[x])
                           /\ req'[x].pc = "config" => Wanted(req'[x]) \subseteq pubs'
    BY <1>1, <1>4, <1>6, <1>7 DEF PublishInv
  <1> QED BY <1>2, <1>6, <1>8 DEF PublishInv, PubFilesPresent

LEMMA PullPageKeeps ==
  ASSUME PublishInv, NEW r \in Request, PullPage(r)
  PROVE  PublishInv'
  <1>1. PICK n : Goto(r, IF n < Len(RemoteLog) THEN "pull" ELSE "reconcile")
    BY DEF PullPage
  <1>2. PICK pc : pc = (IF n < Len(RemoteLog) THEN "pull" ELSE "reconcile")
    OBVIOUS
  <1>3. pc = "pull" \/ pc = "reconcile"
    BY <1>2
  <1>4. pc # "config" /\ Goto(r, pc)
    BY <1>1, <1>2, <1>3
  <1> QED BY <1>4, GotoStep DEF PullPage, files

-----------------------------------------------------------------------------
LEMMA PublishInvInit == Init => PublishInv
  <1> SUFFICES ASSUME Init
               PROVE  PublishInv
    OBVIOUS
  <1>0. pubs = PubFiles(config) /\ req = [r \in Request |-> Idle]
    BY SMTT(30) DEF Init
  <1>1. PubFilesPresent /\ req = [r \in Request |-> Idle]
    BY <1>0 DEF PubFilesPresent
  <1>2. \A r \in Request : req[r] = Idle
    BY <1>1
  <1>3. Idle.pc # "config"
    BY IdleRequest, SMTT(30)
  <1> QED BY <1>1, <1>2, <1>3, IdleRequest DEF PublishInv

LEMMA StopKeeps ==
  ASSUME PublishInv, Stop
  PROVE  PublishInv'
  <1>1. req' = [r \in Request |-> Idle] /\ UNCHANGED <<pubs, config>>
    BY DEF Stop, files
  <1>2. \A r \in Request : req'[r] = Idle
    BY <1>1
  <1>3. Idle.pc # "config"
    BY IdleRequest, SMTT(30)
  <1> QED BY <1>1, <1>2, <1>3, IdleRequest DEF PublishInv, PubFilesPresent

LEMMA StepKeeps ==
  ASSUME PublishInv, NEW r \in Request, Step(r)
  PROVE  PublishInv'
  <1>1. CASE ReconcileCapture(r)
    BY <1>1, GotoStep DEF ReconcileCapture, files
  <1>2. CASE PublishKnown(r)
    BY <1>2, EndStep DEF PublishKnown
  <1> QED BY <1>1, <1>2, PullPageKeeps, ReadKeeps, PublishKeyKeeps, PublishConfigKeeps DEF Step

(***************************************************************************)
(* Whatever requests regenerate beside each other, fail or are cut off,    *)
(* every public key file the config names exists: Publish writes them      *)
(* before the config that names them (sshconfig/generate.go), and each     *)
(* request holds the plan it read.                                         *)
(***************************************************************************)
THEOREM PubFilesAlwaysPresent == Spec => []PubFilesPresent
  <1>1. ASSUME PublishInv, [Next]_vars
        PROVE  PublishInv'
    <2>1. ASSUME NEW r \in Request,
                 LocalChange(r) \/ Generate(r) \/ BeginSync(r) \/ Step(r) \/ Fail(r)
          PROVE  PublishInv'
      <3>1. CASE Generate(r)
        BY <1>1, <3>1, StartKeeps DEF Generate
      <3>2. CASE BeginSync(r)
        BY <1>1, <3>2, StartKeeps DEF BeginSync
      <3>3. CASE Fail(r)
        BY <1>1, <3>3, EndStep DEF Fail, files
      <3> QED BY <1>1, <2>1, <3>1, <3>2, <3>3, ChangeKeeps, StepKeeps
    <2>2. CASE OpenSSHWrites
      BY <1>1, <2>2, QuietStep DEF OpenSSHWrites, files
    <2>3. CASE UNCHANGED vars
      BY <1>1, <2>3, QuietStep DEF vars
    <2> QED BY <1>1, <2>1, <2>2, <2>3, StopKeeps DEF Next
  <1>2. PublishInv => PubFilesPresent
    BY DEF PublishInv
  <1> QED BY <1>1, <1>2, PublishInvInit, PTL DEF Spec
=============================================================================
