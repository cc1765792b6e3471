------------------------------- MODULE Trust -------------------------------
(***************************************************************************)
(* Host-key observations (internal/vault/manager_trust.go): OpenSSH writes *)
(* the keys a user accepts to a machine's capture file, the daemon turns   *)
(* them into known_host records (internal/daemon/capture.go), users        *)
(* approve, revoke and import observations (capture.go, trust.go), the     *)
(* records are merged like all others, and each machine's known_hosts file *)
(* is planned from what it holds (planTrust in generate.go).               *)
(*                                                                         *)
(* A line names some destinations and a key, with a marker or without.     *)
(* All keys have one type: lines of different types never meet.  Every     *)
(* destination is that of a host in the vault, and the vault is unlocked.  *)
(***************************************************************************)
EXTENDS Merge

CONSTANTS Dest, Fingerprint,
          MaxRequests,    \* bound: requests in hand at a time
          Captures,       \* the lines OpenSSH may write, on any machine
          UserKnownHosts, \* the lines of a user's own known_hosts file, in order
          MaxActs,        \* bound: what users do: requests to write, and keys accepted
          InitialTables   \* synced vaults to begin with

VARIABLES requests, \* those in hand: the device, and what is left to do
          capture,  \* by device, its capture file
          file,     \* by device, the lines of its generated known_hosts
          acts      \* what users have done

vars == <<mergeVars, requests, capture, file, acts>>

Line == [names : SUBSET Dest \ {{}}, fp : Fingerprint, marker : {"", "@revoked"}]
Observation == [line : Line, digest : Line, status : {"approved", "pending"}]

ASSUME TrustConstants ==
  /\ Captures \union Range(UserKnownHosts) \subseteq Line
  /\ \A table \in InitialTables : \A r \in DOMAIN table \intersect Base :
       table[r] \in Observation

\* knownHostsLocked.
Observations(s) == {r \in Base : Live(s, r)}
View(s, r) == HeadEnv(s, r).payload
Views(s) == {View(s, r) : r \in Observations(s)}
Approved(s) == {v \in Views(s) : v.status = "approved"}

\* Entry.Matches, with patterns, negations and hashes: does line l name x?
Matches(l, x) == x \in l.names

\* Of a line's destinations the one met first; hosts are read in a fixed order.
Matched(line) == CHOOSE x \in line.names : TRUE

-----------------------------------------------------------------------------
(* Which lines are published. *)

\* Mutation of PlanTrust: markers are not told apart.
PlanTrustMarked(s) ==
  LET lines == {v.line : v \in Approved(s)}
  IN {l \in lines : \A x \in l.names, m \in lines : x \in m.names => m.fp = l.fp}

\* Mutation of PlanTrust: lines are compared, not their keys.
PlanTrustLines(s) ==
  LET lines == {v.line : v \in Approved(s)}
      plain == {l \in lines : l.marker = ""}
  IN lines \ {l \in plain : \E m \in plain \ {l} : m.names \cap l.names # {}}

\* Mutation of PlanTrust: keys are compared for the same names only.
PlanTrustSameNames(s) ==
  LET lines == {v.line : v \in Approved(s)}
      plain == {l \in lines : l.marker = ""}
  IN lines \ {l \in plain : \E m \in plain : m.fp # l.fp /\ m.names = l.names}

\* planTrust: approved keys that disagree for a host are all withheld.
PlanTrust(s) ==
  LET lines == {v.line : v \in Approved(s)}
      plain == {l \in lines : l.marker = ""}
  IN lines \ {l \in plain : \E m \in plain : m.fp # l.fp /\ m.names \cap l.names # {}}

-----------------------------------------------------------------------------
(* The capture file. *)

RevokedFor(line, x, approved) ==
  \E l \in approved : l.marker = "@revoked" /\ l.fp = line.fp /\ Matches(l, x)

\* disagreesWithApproved: an approved line with this key, for any host, will do.
DisagreesWithApproved(line, x, approved) ==
  /\ \A l \in approved : l.fp # line.fp
  /\ \E l \in approved : l.marker = line.marker /\ Matches(l, x)

\* reconcileCapture, line by line: what has been found so far grows with it.
CaptureSpecs(s, lines) ==
  LET Take(found, line) ==
        LET x == Matched(line)
            ok == ~DisagreesWithApproved(line, x, found.approved)
        IN IF line \in found.seen \/ RevokedFor(line, x, found.approved)
           THEN found
           ELSE [seen |-> found.seen \union {line},
                 approved |-> IF ok THEN found.approved \union {line} ELSE found.approved,
                 specs |-> Append(found.specs, [line |-> line, digest |-> line,
                                     status |-> IF ok THEN "approved" ELSE "pending"])]
      stored == [seen |-> {v.digest : v \in Views(s)},
                 approved |-> {v.line : v \in Approved(s)}, specs |-> <<>>]
  IN FoldLeft(Take, stored, lines).specs

-----------------------------------------------------------------------------
(* Requests.  A handler is a list of things to do, each of them one         *)
(* transaction of the vault, one reading that is used later, or the files;  *)
(* other requests of the daemon, and its syncs, come between any two.       *)

\* Request p on device d, new when p is None, is left with todo.
Left(p, d, todo) ==
  requests' = (requests \ {p})
              \union IF todo = <<>> THEN {} ELSE {[on |-> d, todo |-> todo]}

\* regenerate, with which most handlers end.
Regenerate == <<[do |-> "capture"], [do |-> "generate"]>>

\* AddKnownHosts: new records, for the digests that are new.
NewDrafts(s, specs) ==
  LET New(p) == \A v \in Views(s) : v.digest # p.digest
      Add(drafts, p) ==
        Append(drafts, Draft(NewID({r \in Base : \A k \in DOMAIN drafts : drafts[k].record # r}), p))
  IN FoldLeft(Add, <<>>, SelectSeq(specs, New))

AddKnownHosts(p, d, todo) ==
  /\ Head(todo).do = "add"
  /\ ApplyBatch(d, NewDrafts(store[d], Head(todo).specs))
  /\ Left(p, d, Tail(todo))
  /\ UNCHANGED <<capture, file>>

\* reconcileCapture up to AddKnownHosts, which finds the vault as it is then.
ReconcileCapture(p, d, todo) ==
  LET specs == CaptureSpecs(store[d], capture[d]) IN
  /\ Head(todo).do = "capture"
  /\ Left(p, d, IF specs = <<>> THEN Tail(todo)
                ELSE <<[do |-> "add", specs |-> specs]>> \o Tail(todo))
  /\ UNCHANGED <<mergeVars, capture, file>>

\* plan and PublishKnownHosts, which Publish takes apart.
PublishKnownHosts(p, d, todo) ==
  /\ Head(todo).do = "generate"
  /\ file' = [file EXCEPT ![d] = PlanTrust(store[d])]
  /\ Left(p, d, Tail(todo))
  /\ UNCHANGED <<mergeVars, capture>>

IsRevoked(s, r) == View(s, r).line.marker = "@revoked"

\* What approving or revoking the observation r writes, if anything.
Approval(s, r) ==
  IF View(s, r).status = "approved" THEN <<>>
  ELSE <<Draft(r, [View(s, r) EXCEPT !.status = "approved"])>>

Revocation(s, r) ==
  IF IsRevoked(s, r) /\ View(s, r).status = "approved" THEN <<>>
  ELSE <<Draft(r, [View(s, r) EXCEPT !.line.marker = "@revoked", !.status = "approved"])>>

\* Mutation of ApproveKnownHost: a prohibition is approved like a key.
ApproveKnownHostAny(p, d, todo) ==
  LET r == Head(todo).id IN
  /\ Head(todo).do = "approve"
  /\ ApplyBatch(d, <<Draft(r, [View(store[d], r) EXCEPT !.line.marker = "",
                                                       !.status = "approved"])>>)
  /\ Left(p, d, Tail(todo))
  /\ UNCHANGED <<capture, file>>

\* The handler returns at the first that is @revoked: those before it stay
\* approved, and nothing is published.
ApproveKnownHost(p, d, todo) ==
  LET r == Head(todo).id
      refused == IsRevoked(store[d], r)
  IN /\ Head(todo).do = "approve"
     /\ ApplyBatch(d, IF refused THEN <<>> ELSE Approval(store[d], r))
     /\ Left(p, d, IF refused THEN <<>> ELSE Tail(todo))
     /\ UNCHANGED <<capture, file>>

RevokeKnownHost(p, d, todo) ==
  /\ Head(todo).do = "revoke"
  /\ ApplyBatch(d, Revocation(store[d], Head(todo).id))
  /\ Left(p, d, Tail(todo))
  /\ UNCHANGED <<capture, file>>

\* A request goes on.
Proceed(p) ==
  LET d == p.on
      todo == p.todo
  IN /\ UNCHANGED acts
     /\ \/ ApproveKnownHost(p, d, todo) \/ RevokeKnownHost(p, d, todo)
        \/ ReconcileCapture(p, d, todo) \/ AddKnownHosts(p, d, todo)
        \/ PublishKnownHosts(p, d, todo)

-----------------------------------------------------------------------------
(* Handlers: a request comes in, and the first of its steps is taken. *)

UserActs == acts < MaxActs /\ acts' = acts + 1

\* Unlocking, listing observations and the start of a sync read the capture
\* file and publish nothing.
Reconcile(d) == ReconcileCapture(None, d, <<[do |-> "capture"]>>) /\ UNCHANGED acts

\* A sync that got to the end, and whatever else publishes.
Generate(d) == ReconcileCapture(None, d, Regenerate) /\ UNCHANGED acts

\* Observations a user names: one or two of those there are.
Named(s) == {<<r>> : r \in Observations(s)}
            \union {p \in Observations(s) \X Observations(s) : p[1] # p[2]}

Each(what, ids) == [k \in DOMAIN ids |-> [do |-> what, id |-> ids[k]]]

\* handleTrustApprove; --all is the pending ones that are not @revoked.
TrustApprove(d, ids) ==
  /\ UserActs
  /\ ApproveKnownHost(None, d, Each("approve", ids) \o Regenerate)

TrustRevoke(d, ids) ==
  /\ UserActs
  /\ RevokeKnownHost(None, d, Each("revoke", ids) \o Regenerate)

\* conflictWith.
ConflictWith(s, line) ==
  \E v \in Approved(s) : /\ v.line.marker = line.marker /\ v.line.fp # line.fp
                         /\ v.line.names \cap line.names # {}

\* handleTrustImport, of some lines of the user's known_hosts: all are judged
\* by one reading of the vault, before any of them is recorded.
TrustImport(d, lines) ==
  LET Spec(line) == [line |-> line, digest |-> line,
                     status |-> IF ConflictWith(store[d], line) THEN "pending" ELSE "approved"]
      specs == [k \in DOMAIN lines |-> Spec(lines[k])]
  IN /\ UserActs /\ NewDrafts(store[d], specs) # <<>>
     /\ Left(None, d, <<[do |-> "add", specs |-> specs]>> \o Regenerate)
     /\ UNCHANGED <<mergeVars, capture, file>>

\* handleResolve, of a kept edit or by discarding it.
TrustResolve(d, c) ==
  /\ UserActs
  /\ \/ ApplyBatch(d, <<Tombstone(c)>>)
     \/ ApplyBatch(d, <<Draft(Source(c), Kept(store[d], c).candidate), Tombstone(c)>>)
  /\ Left(None, d, Regenerate)
  /\ UNCHANGED <<capture, file>>

Sync(d) == SyncStep(d) /\ UNCHANGED <<requests, capture, file, acts>>

\* OpenSSH asks about a host it knows no key of, and the user says yes; a key
\* published as @revoked it refuses, and so it does a key that has changed.
OpenSSHWrites(d, line) ==
  LET known == file[d] \union Range(capture[d])
      x == Matched(line)
  IN /\ UserActs
     /\ \A l \in known : Matches(l, x) => l.marker # "" /\ l.fp # line.fp
     /\ capture' = [capture EXCEPT ![d] = Append(@, line)]
     /\ UNCHANGED <<mergeVars, requests, file>>

-----------------------------------------------------------------------------
Init ==
  \E table \in InitialTables :
    /\ MergeInit(table)
    /\ requests = {}
    /\ capture = [d \in Device |-> <<>>]
    /\ file = [d \in Device |-> {}]
    /\ acts = 0

\* Lines of a user's file, in its order; an import is of one or of all.
Selections == {<<UserKnownHosts[k]>> : k \in DOMAIN UserKnownHosts} \union {UserKnownHosts}

\* Requests in hand at a time are of one machine: between two syncs, what two
\* machines do commutes.
Begin(d) ==
  /\ Cardinality(requests) < MaxRequests /\ \A p \in requests : p.on = d
  /\ \/ Reconcile(d) \/ Generate(d)
     \/ \E ids \in Named(store[d]) : TrustApprove(d, ids) \/ TrustRevoke(d, ids)
     \/ \E lines \in Selections : TrustImport(d, lines)
     \/ \E c \in Conflicts(store[d]) : TrustResolve(d, c)

Next ==
  \/ \E p \in requests : Proceed(p)
  \/ \E d \in Device : \/ Begin(d) \/ Sync(d)
                        \/ \E line \in Captures : OpenSSHWrites(d, line)

Spec == Init /\ [][Next]_vars

\* There is nothing new to record or to publish.
UpToDate(d) == CaptureSpecs(store[d], capture[d]) = <<>> /\ file[d] = PlanTrust(store[d])

\* Every device has synced to the end and published.
Published == Settled /\ \A d \in Device : UpToDate(d)

-----------------------------------------------------------------------------
\* The relay's current version of r, which says that a key is refused.
Prohibits(r) ==
  /\ r \in DOMAIN recordHead /\ ~recordHead[r].env.deleted
  /\ recordHead[r].env.payload.line.marker = "@revoked"

\* A kept edit of r was settled here: its conflict is retired, if only in the
\* queue so far.
Resolved(s, r) ==
  \E e \in s.outbox \union {s.heads[c].env : c \in DOMAIN s.heads} :
    e.record \notin Base /\ e.deleted /\ Source(e.record) = r

(***************************************************************************)
(* "A revoked observation cannot be approved again" (docs/cli-flows.md:139,*)
(* manager_trust.go:160): once the relay holds a prohibition, no request   *)
(* of any machine, approving the observation or learning its key while the *)
(* revocation was on its way, makes it a permission.  A user may: by       *)
(* resolving a kept edit of the observation in favour of the edit.         *)
(***************************************************************************)
ProhibitionStands ==
  [][\A r \in Base :
       Prohibits(r) /\ ~Prohibits(r)' =>
         \E d \in Device : Resolved(store[d], r)]_vars

(***************************************************************************)
(* "Only keys that agree are shared" (docs/cli-flows.md:142): no           *)
(* known_hosts file has two keys for a host, and once every machine has    *)
(* synced and published no two of them have, in whatever order two         *)
(* machines learn, pull and record a different key (capture.go             *)
(* reconcileCapture decides by what was approved when it read the vault;   *)
(* generate.go planTrust).                                                 *)
(***************************************************************************)
OnlyAgreeingKeys ==
  \A d, e \in Device :
    d = e \/ Published =>
      \A l \in file[d], m \in file[e] :
        l.marker = "" /\ m.marker = "" /\ l.names \cap m.names # {} => l.fp = m.fp

\* Another observation speaks against line on device d: a different key for one
\* of its names, or its own revocation.
Contested(d, line) ==
  \E v \in Views(store[d]) :
    /\ v.line.names \cap line.names # {}
    /\ v.line.fp # line.fp \/ v.line.marker = "@revoked"

(***************************************************************************)
(* Once every machine has synced and published, a key a user accepted is   *)
(* in the known_hosts of all of them, unless another observation contests  *)
(* it: "a first key for a host is recorded as approved and reaches your    *)
(* other machines" (docs/cli-flows.md:118; daemon/capture.go               *)
(* reconcileCapture, daemon/generate.go planTrust).                        *)
(***************************************************************************)
KeyIsShared ==
  Published =>
    \A d, e \in Device : \A line \in Range(capture[d]) :
      line \in file[e] \/ Contested(e, line)

(***************************************************************************)
(* Once every machine has synced and published, an approved revocation the *)
(* relay holds is in the known_hosts of all of them, even when a machine   *)
(* recorded the key as approved again because it read its vault before the *)
(* revocation came (docs/cli-flows.md:137 "`--revoke` publishes the key as *)
(* `@revoked`, so OpenSSH refuses it on every machine"; generate.go        *)
(* planTrust, capture.go:55 and :115).  An imported @revoked line is       *)
(* stored pending when another @revoked key is approved for its host       *)
(* (trust.go:112), and then it is not published until it is revoked again. *)
(***************************************************************************)
RevocationReaches ==
  Published =>
    \A e \in Device, r \in Base :
      Prohibits(r) /\ recordHead[r].env.payload.status = "approved"
        => recordHead[r].env.payload.line \in file[e]
=============================================================================
