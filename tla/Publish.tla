------------------------------ MODULE Publish ------------------------------
(***************************************************************************)
(* From the vault to the files OpenSSH reads: every handler of the daemon  *)
(* that changes the vault (internal/daemon/handlers.go, sync.go, trust.go, *)
(* capture.go) ends with regenerate (generate.go), which reads hosts, keys *)
(* and observations one after the other and then writes, one after the     *)
(* other, the public keys, the config and known_hosts                      *)
(* (internal/sshconfig/generate.go, knownhosts.go).  The manager's mutex   *)
(* is held for each read and each change, never for a request: requests    *)
(* run beside each other, each may fail, and the daemon may stop anywhere. *)
(*                                                                         *)
(* The vault is what is rendered of it: hosts and the keys they offer, the *)
(* keys there are, and the host keys trusted.  Which hosts and lines are   *)
(* left out is the business of Hosts and Trust.                            *)
(***************************************************************************)
EXTENDS Naturals, Sequences, FiniteSets, Functions

CONSTANTS Request,     \* the requests the daemon serves at a time
          Host, Key, HostKey,
          RemoteLog,   \* what other devices have written, in relay order
          None,
          MaxChanges,  \* bound: local changes
          MaxFaults    \* bound: failed writes, failed pulls and daemon stops

VARIABLES vault,    \* [hosts, keys, trust]
          cursor,   \* how much of the remote log has been applied
          capture,  \* host keys OpenSSH has accepted
          req,      \* by request, where it is and what it has read
          pubs, config, known,  \* the files
          changes, faults

vars == <<vault, cursor, capture, req, pubs, config, known, changes, faults>>
files == <<pubs, config, known>>

Idle == [pc |-> "idle", hosts |-> None, keys |-> None, trust |-> None]
Running == {r \in Request : req[r].pc # "idle"}

Start(r, pc) ==
  /\ req[r] = Idle
  /\ req' = [req EXCEPT ![r].pc = pc]

Goto(r, pc) == req' = [req EXCEPT ![r].pc = pc]
End(r) == req' = [req EXCEPT ![r] = Idle]

-----------------------------------------------------------------------------
(* What changes the vault. *)

\* Host h, new or not, offers keys.
SetHost(v, h, keys) == [v EXCEPT !.hosts = [x \in DOMAIN @ \union {h} |->
                                              IF x = h THEN keys ELSE @[x]]]

\* A handler changes the vault, and goes on to regenerate.
Change(r, v) ==
  /\ v # vault /\ vault' = v
  /\ changes < MaxChanges /\ changes' = changes + 1
  /\ Start(r, "reconcile")
  /\ UNCHANGED <<cursor, capture, files, faults>>

AddKey(r) == \E k \in Key \ vault.keys : Change(r, [vault EXCEPT !.keys = @ \union {k}])

AddHost(r) ==
  \E h \in Host \ DOMAIN vault.hosts, keys \in SUBSET vault.keys :
    Change(r, SetHost(vault, h, keys))

EditHost(r) ==
  \E h \in DOMAIN vault.hosts, keys \in SUBSET vault.keys :
    Change(r, SetHost(vault, h, keys))

\* Import, which is not a dry run: new hosts, of which some may share keys.
ImportHosts(r) ==
  \E new \in SUBSET (Host \ DOMAIN vault.hosts), keys \in SUBSET vault.keys :
    Change(r, [vault EXCEPT !.hosts = [h \in DOMAIN @ \union new |->
                                         IF h \in new THEN keys ELSE @[h]]])

RemoveHost(r) ==
  \E h \in DOMAIN vault.hosts :
    Change(r, [vault EXCEPT !.hosts = Restrict(@, DOMAIN @ \ {h})])

\* A key that a host offers stays.
RemoveKey(r) ==
  \E k \in {x \in vault.keys : \A h \in DOMAIN vault.hosts : x \notin vault.hosts[h]} :
    Change(r, [vault EXCEPT !.keys = @ \ {k}])

\* handleTrustImport, handleTrustApprove: a line that is then published.
TrustLine(r) == \E l \in HostKey \ vault.trust : Change(r, [vault EXCEPT !.trust = @ \union {l}])

\* handleGenerate.
Generate(r) ==
  /\ Start(r, "reconcile")
  /\ UNCHANGED <<vault, cursor, capture, files, changes, faults>>

\* handleSync, up to its first page.
BeginSync(r) ==
  /\ cursor < Len(RemoteLog)
  /\ Start(r, "pull")
  /\ vault' = [vault EXCEPT !.trust = @ \union capture]
  /\ UNCHANGED <<cursor, capture, files, changes, faults>>

\* applyPage, from where the cursor is (what overlapping pulls do to each other
\* is in Sync); what follows the last page of the snapshot is regenerate.
PullPage(r) ==
  /\ req[r].pc = "pull"
  /\ \E n \in {m \in cursor..Len(RemoteLog) : m > cursor \/ m = Len(RemoteLog)} :
       /\ cursor' = n
       /\ vault' = LET at[k \in cursor..n] ==
                         IF k = cursor THEN vault
                         ELSE LET v == at[k - 1] c == RemoteLog[k]
                              IN IF c.host = None
                                 THEN [v EXCEPT !.keys = (@ \union c.keys) \ c.drop]
                                 ELSE SetHost(v, c.host, c.keys)
                   IN at[n]
       /\ Goto(r, IF n < Len(RemoteLog) THEN "pull" ELSE "reconcile")
  /\ UNCHANGED <<capture, files, changes, faults>>

OpenSSHWrites ==
  /\ \E l \in HostKey \ capture : capture' = capture \union {l}
  /\ UNCHANGED <<vault, cursor, req, files, changes, faults>>

-----------------------------------------------------------------------------
(* regenerate. *)

ReconcileCapture(r) ==
  /\ req[r].pc = "reconcile"
  /\ vault' = [vault EXCEPT !.trust = @ \union capture]
  /\ Goto(r, "hosts")
  /\ UNCHANGED <<cursor, capture, files, changes, faults>>

\* plan: three reads, each under the manager's mutex.
ReadHosts(r) ==
  /\ req[r].pc = "hosts"
  /\ req' = [req EXCEPT ![r].pc = "keys", ![r].hosts = vault.hosts]
  /\ UNCHANGED <<vault, cursor, capture, files, changes, faults>>

ReadKeys(r) ==
  /\ req[r].pc = "keys"
  /\ req' = [req EXCEPT ![r].pc = "trust", ![r].keys = vault.keys]
  /\ UNCHANGED <<vault, cursor, capture, files, changes, faults>>

\* Mutation of ReadTrust: the config is written before the files it names.
ReadTrustThenConfig(r) ==
  /\ req[r].pc = "trust"
  /\ req' = [req EXCEPT ![r].pc = "config", ![r].trust = vault.trust]
  /\ UNCHANGED <<vault, cursor, capture, files, changes, faults>>

ReadTrust(r) ==
  /\ req[r].pc = "trust"
  /\ req' = [req EXCEPT ![r].pc = "pubs", ![r].trust = vault.trust]
  /\ UNCHANGED <<vault, cursor, capture, files, changes, faults>>

\* planHosts: a key that is not there is not offered.
Planned(hosts, keys) == [h \in DOMAIN hosts |-> hosts[h] \intersect keys]
PubFiles(plan) == UNION {{h} \X plan[h] : h \in DOMAIN plan}

\* Publish writes one public key after another, each whole or not at all, ...
PublishKey(r) ==
  LET missing == PubFiles(Planned(req[r].hosts, req[r].keys)) \ pubs IN
  /\ req[r].pc = "pubs"
  /\ IF missing = {} THEN Goto(r, "config") /\ UNCHANGED pubs
     ELSE (\E p \in missing : pubs' = pubs \union {p}) /\ UNCHANGED req
  /\ UNCHANGED <<vault, cursor, capture, config, known, changes, faults>>

\* Mutation of PublishConfig: it is left alone while the hosts are the same.
PublishConfigIfNew(r) ==
  /\ req[r].pc = "config"
  /\ config' = IF DOMAIN config = DOMAIN req[r].hosts THEN config
               ELSE Planned(req[r].hosts, req[r].keys)
  /\ Goto(r, "known")
  /\ UNCHANGED <<vault, cursor, capture, pubs, known, changes, faults>>

\* ... then the config ...
PublishConfig(r) ==
  /\ req[r].pc = "config"
  /\ config' = Planned(req[r].hosts, req[r].keys)
  /\ Goto(r, "known")
  /\ UNCHANGED <<vault, cursor, capture, pubs, known, changes, faults>>

\* ... and PublishKnownHosts its file.
PublishKnown(r) ==
  /\ req[r].pc = "known"
  /\ known' = req[r].trust
  /\ End(r)
  /\ UNCHANGED <<vault, cursor, capture, pubs, config, changes, faults>>

\* A page that cannot be fetched or a file that cannot be written ends the
\* request: what it has done stays.
Fail(r) ==
  /\ req[r].pc \in {"pull", "pubs", "config", "known"}
  /\ faults < MaxFaults /\ faults' = faults + 1
  /\ End(r)
  /\ UNCHANGED <<vault, cursor, capture, files, changes>>

\* The daemon stops, and is started again.
Stop ==
  /\ Running # {}
  /\ faults < MaxFaults /\ faults' = faults + 1
  /\ req' = [r \in Request |-> Idle]
  /\ UNCHANGED <<vault, cursor, capture, files, changes>>

-----------------------------------------------------------------------------
Init ==
  \E v \in {[hosts |-> [h \in H |-> K], keys |-> K, trust |-> {}] :
              H \in SUBSET Host, K \in SUBSET Key} :
    /\ vault = v /\ config = Planned(v.hosts, v.keys) /\ known = {}
    /\ pubs = PubFiles(config)
    /\ cursor = 0 /\ capture = {}
    /\ req = [r \in Request |-> Idle]
    /\ changes = 0 /\ faults = 0

Step(r) ==
  \/ PullPage(r) \/ ReconcileCapture(r) \/ ReadHosts(r) \/ ReadKeys(r) \/ ReadTrust(r)
  \/ PublishKey(r) \/ PublishConfig(r) \/ PublishKnown(r)

LocalChange(r) ==
  \/ AddKey(r) \/ AddHost(r) \/ EditHost(r) \/ ImportHosts(r) \/ RemoveHost(r)
  \/ RemoveKey(r) \/ TrustLine(r)

Next ==
  \/ \E r \in Request : LocalChange(r) \/ Generate(r) \/ BeginSync(r) \/ Step(r) \/ Fail(r)
  \/ OpenSSHWrites \/ Stop

Spec == Init /\ [][Next]_vars

\* Requests are served to their end, and users go on making them.
FairSpec == Spec /\ \A r \in Request : WF_vars(Step(r)) /\ WF_vars(Generate(r))

-----------------------------------------------------------------------------
(***************************************************************************)
(* Every public key file the config names exists, at every moment ssh may  *)
(* read it: whatever requests run beside each other, fail or are cut off   *)
(* (sshconfig/generate.go Publish).                                        *)
(***************************************************************************)
PubFilesPresent == PubFiles(config) \subseteq pubs

Published == /\ config = Planned(vault.hosts, vault.keys)
             /\ known = vault.trust

(***************************************************************************)
(* Once the vault no longer changes, the files come to be as it has them   *)
(* and stay so, after any race, failure or stop, for users who go on       *)
(* running commands (daemon/generate.go regenerate).                       *)
(***************************************************************************)
FilesCatchUp == <>[]Published
=============================================================================
