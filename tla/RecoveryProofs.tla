--------------------------- MODULE RecoveryProofs ---------------------------
(***************************************************************************)
(* Proofs about Recovery, for any devices, requests at once and bounds.    *)
(*                                                                         *)
(* What is uploaded, noted and recovered was read steps before it is used. *)
(* CopyInv says that all of it is a past state of the relay, and that a    *)
(* recovering machine's enrolment, once announced, is in the relay's chain *)
(* and nobody else's.  NoticeInv, which holds until uploads of one machine *)
(* cross, orders what one request has read, and counts a machine that has  *)
(* uploaded and is about to note its state with those that noted it.       *)
(***************************************************************************)
EXTENDS Recovery, TLAPS

\* Leaves that reason about numbers, sequences or records use the SMT solver.
USE ZenonT(60)

Signer == Device \cup {Kit}
Digest == Seq({"enroll", "revoke"} \X Device \X Signer)
Event == [seq : Nat, parent : Digest, action : {"enroll", "revoke"}, device : Device, by : Signer]
Chains == Seq(Event)
Copies == [chain : Chains, cursor : Nat]

\* One state of the vault is where another began.
UpTo(s, t) == IsPrefixOf(s.chain, t.chain) /\ s.cursor <= t.cursor

Now == State(membership, seq)

\* A state that the relay is in or was in.
Past(s) == s \in Copies /\ s.chain # <<>> /\ UpTo(s, Now)

Busy == {"stale", "built", "put"}

RequestInv(p) ==
  /\ proc[p] # Idle => Past(view[p[1]])
  /\ proc[p].pc \in Busy => Past(proc[p].state)
  /\ proc[p].pc = "built" => Past(proc[p].copy)

DeviceInv(d) ==
  /\ view[d] # None => Past(view[d]) /\ d \in Enrolled(membership)
  /\ published[d] # None => Past(published[d])
  /\ view[d] = None => published[d] = None

CommandInv ==
  /\ recover.pc = "challenged" =>
       /\ recover = [pc |-> "challenged", nonce |-> recover.nonce, copy |-> recover.copy]
       /\ Past(recover.copy) /\ Past(archive)
  /\ recover.pc = "announced" =>
       /\ Past(recover.copy) /\ recover.ev \in Event
       /\ IsPrefixOf(Append(recover.copy.chain, recover.ev), membership)
       /\ recover.ev.device \in Enrolled(membership)
       /\ view[recover.ev.device] = None

CopyInv ==
  /\ membership \in Chains /\ membership # <<>> /\ seq \in Nat
  /\ view = [d \in Device |-> view[d]]
  /\ published = [d \in Device |-> published[d]]
  /\ proc = [p \in Process |-> proc[p]]
  /\ \A p \in Process : RequestInv(p)
  /\ \A d \in Device : DeviceInv(d)
  /\ archive # None => Past(archive)
  /\ \A c \in late : Past(c)
  /\ CommandInv

-----------------------------------------------------------------------------
(* Chains and states. *)

\* What the provers need of sequences of events.
LEMMA ChainFacts ==
  ASSUME NEW c \in Chains
  PROVE  /\ Len(c) \in Nat /\ DOMAIN c = 1..Len(c) /\ (c = <<>> <=> Len(c) = 0)
         /\ \A i \in 1..Len(c) : c[i] \in Event
  BY SMTT(30) DEF Chains

\* Appending an event makes a longer chain that begins with the old one.
LEMMA Appended ==
  ASSUME NEW c \in Chains, NEW e \in Event
  PROVE  /\ Append(c, e) \in Chains /\ Len(Append(c, e)) = Len(c) + 1
         /\ Append(c, e) # <<>> /\ IsPrefixOf(c, Append(c, e))
         /\ Append(c, e)[Len(c) + 1] = e
  BY SMTT(30) DEF Chains, IsPrefixOf

\* Prefixes compose.
LEMMA PrefixTransitive ==
  ASSUME NEW b \in Chains, NEW c \in Chains, NEW d \in Chains,
         IsPrefixOf(b, c), IsPrefixOf(c, d)
  PROVE  IsPrefixOf(b, d)
  BY ChainFacts, SMTT(30) DEF IsPrefixOf

\* Chains that begin with each other are one.
LEMMA SameChain ==
  ASSUME NEW c \in Chains, NEW d \in Chains, IsPrefixOf(c, d), Len(d) <= Len(c)
  PROVE  c = d
  BY SMTT(30) DEF IsPrefixOf, Chains

\* A longer chain enrols at least whom a shorter one does.
LEMMA EnrolledGrows ==
  ASSUME NEW c \in Chains, NEW d \in Chains, IsPrefixOf(c, d)
  PROVE  Enrolled(c) \subseteq Enrolled(d)
  <1>1. DOMAIN c \subseteq DOMAIN d /\ \A i \in DOMAIN c : c[i] = d[i]
    BY ChainFacts, SMTT(30) DEF IsPrefixOf
  <1> QED BY <1>1 DEF Enrolled, Named

\* Whom a chain enrols and revokes after one more event.
LEMMA NamedAppended ==
  ASSUME NEW c \in Chains, NEW e \in Event, NEW action
  PROVE  Named(Append(c, e), action) =
           Named(c, action) \cup (IF e.action = action THEN {e.device} ELSE {})
  <1>1. /\ DOMAIN Append(c, e) = 1..(Len(c) + 1) /\ DOMAIN c = 1..Len(c) /\ Len(c) \in Nat
        /\ \A i \in 1..Len(c) : Append(c, e)[i] = c[i]
        /\ Append(c, e)[Len(c) + 1] = e
    BY SMTT(30) DEF Chains
  <1>2. ASSUME NEW x PROVE x \in Named(Append(c, e), action) <=>
                              x \in Named(c, action) \/ (e.action = action /\ x = e.device)
    BY <1>1, SMTT(30) DEF Named
  <1> QED BY <1>2

\* The digest of a chain's head, and the events built on it.
LEMMA EventBuilt ==
  ASSUME NEW c \in Chains, NEW action \in {"enroll", "revoke"}, NEW x \in Device,
         NEW by \in Signer
  PROVE  /\ NextEvent(c, action, x, by) \in Event
         /\ NextEvent(c, action, x, by).seq = Len(c) + 1
         /\ NextEvent(c, action, x, by).action = action
         /\ NextEvent(c, action, x, by).device = x
  <1>1. HeadDigest(c) \in Digest
    <2>1. CASE c = <<>>
      BY <2>1, SMTT(30) DEF HeadDigest, Digest
    <2>2. CASE c # <<>>
      <3>1. c[Len(c)] \in Event
        BY <2>2, ChainFacts, SMTT(30)
      <3>2. EventDigest(c[Len(c)]) \in Digest
        BY <3>1, SMTT(30) DEF EventDigest, Core, Event, Digest
      <3> QED BY <2>2, <3>2 DEF HeadDigest
    <2> QED BY <2>1, <2>2
  <1>2. Len(c) + 1 \in Nat
    BY ChainFacts, SMTT(30)
  <1> QED BY <1>1, <1>2 DEF NextEvent, Event

\* The relay's chain and log only grow.
Grows ==
  /\ membership' \in Chains /\ membership' # <<>> /\ IsPrefixOf(membership, membership')
  /\ seq' \in Nat /\ seq <= seq'

\* What was once the relay's past stays so.
LEMMA PastStays ==
  ASSUME CopyInv, Grows, NEW s, Past(s)
  PROVE  Past(s)'
  <1>1. s.chain \in Chains /\ s.cursor \in Nat /\ membership \in Chains /\ seq \in Nat
    BY DEF CopyInv, Past, Copies
  <1>2. IsPrefixOf(s.chain, membership) /\ s.cursor <= seq
    BY DEF Past, UpTo, Now, State
  <1>3. IsPrefixOf(s.chain, membership') /\ s.cursor <= seq'
    BY <1>1, <1>2, PrefixTransitive, SMTT(30) DEF Grows
  <1> QED BY <1>3 DEF Past, UpTo, Now, State

\* The present is past enough, and there is no vault in None.
LEMMA NowIsPast ==
  membership \in Chains /\ membership # <<>> /\ seq \in Nat => Past(Now) /\ ~Past(None)
  <1> SUFFICES ASSUME membership \in Chains, membership # <<>>, seq \in Nat
               PROVE  Past(Now) /\ ~Past(None)
    OBVIOUS
  <1>1. IsPrefixOf(membership, membership)
    BY ChainFacts, SMTT(30) DEF IsPrefixOf
  <1> QED BY <1>1, SMTT(30) DEF Past, UpTo, Now, State, Copies, None

-----------------------------------------------------------------------------
(* What a step must show of the parts it changes. *)

\* The states of the devices, and of the requests, that a step leaves alone.
LEMMA RequestStays ==
  ASSUME CopyInv, Grows, NEW q \in Process, proc'[q] = proc[q],
         Past(view[q[1]]) => Past(view[q[1]])'
  PROVE  RequestInv(q)'
  <1>1. RequestInv(q)
    BY DEF CopyInv
  <1>2. \A s : Past(s) => Past(s)'
    BY PastStays
  <1>3. proc[q].pc \in Busy => Past(proc[q].state)'
    <2> SUFFICES ASSUME proc[q].pc \in Busy PROVE Past(proc[q].state)'
      OBVIOUS
    <2>1. PICK s : s = proc[q].state
      OBVIOUS
    <2>2. Past(s)'
      BY <1>1, <1>2, <2>1 DEF RequestInv
    <2> QED BY <2>1, <2>2
  <1>4. proc[q].pc = "built" => Past(proc[q].copy)'
    <2> SUFFICES ASSUME proc[q].pc = "built" PROVE Past(proc[q].copy)'
      OBVIOUS
    <2>1. PICK s : s = proc[q].copy
      OBVIOUS
    <2>2. Past(s)'
      BY <1>1, <1>2, <2>1 DEF RequestInv
    <2> QED BY <2>1, <2>2
  <1> QED BY <1>1, <1>3, <1>4 DEF RequestInv, Idle

\* A step of one request.
LEMMA RequestMoves ==
  ASSUME CopyInv, Grows, NEW p \in Process, NEW m, Become(p, m),
         \A d \in Device : Past(view[d]) => Past(view[d])',
         m # Idle => Past(view[p[1]])',
         m.pc \in Busy => Past(m.state)',
         m.pc = "built" => Past(m.copy)'
  PROVE  proc' = [q \in Process |-> proc'[q]] /\ \A q \in Process : RequestInv(q)'
  <1>1. /\ proc' = [q \in Process |-> proc'[q]] /\ proc'[p] = m
        /\ \A q \in Process \ {p} : proc'[q] = proc[q]
    BY DEF CopyInv, Become
  <1>2. RequestInv(p)'
    BY <1>1 DEF RequestInv, Idle
  <1>3. ASSUME NEW q \in Process \ {p} PROVE RequestInv(q)'
    BY <1>1, <1>3, RequestStays DEF Process
  <1> QED BY <1>1, <1>2, <1>3

\* A device that a step leaves alone.
LEMMA DeviceStays ==
  ASSUME CopyInv, Grows, NEW d \in Device, view'[d] = view[d], published'[d] = published[d]
  PROVE  DeviceInv(d)'
  <1>1. DeviceInv(d) /\ membership \in Chains
    BY DEF CopyInv
  <1>2. \A s : Past(s) => Past(s)'
    BY PastStays
  <1>3. Enrolled(membership) \subseteq Enrolled(membership')
    BY <1>1, EnrolledGrows DEF Grows
  <1>4. Past(view[d]) => Past(view[d])'
    BY <1>2
  <1>5. Past(published[d]) => Past(published[d])'
    BY <1>2
  <1> QED BY <1>1, <1>3, <1>4, <1>5 DEF DeviceInv, None, State

\* The recovering command, when a step leaves it alone.
LEMMA CommandStays ==
  ASSUME CopyInv, Grows, UNCHANGED recover,
         UNCHANGED archive \/ Past(archive)',
         \A d \in Device \cap Enrolled(membership) : view[d] = None => view'[d] = None
  PROVE  CommandInv'
  <1>1. CommandInv /\ membership \in Chains
    BY DEF CopyInv
  <1>2. \A s : Past(s) => Past(s)'
    BY PastStays
  <1>3. Enrolled(membership) \subseteq Enrolled(membership')
    BY <1>1, EnrolledGrows DEF Grows
  <1>4. /\ Past(recover.copy) => Past(recover.copy)'
        /\ UNCHANGED archive => (Past(archive) => Past(archive)')
    BY <1>2
  <1>5. CASE recover.pc = "challenged"
    BY <1>1, <1>4, <1>5 DEF CommandInv
  <1>6. CASE recover.pc = "announced"
    <2>1. /\ Past(recover.copy) /\ recover.ev \in Event
          /\ IsPrefixOf(Append(recover.copy.chain, recover.ev), membership)
          /\ recover.ev.device \in Enrolled(membership) /\ view[recover.ev.device] = None
      BY <1>1, <1>6 DEF CommandInv
    <2>2. Append(recover.copy.chain, recover.ev) \in Chains
      BY <2>1, Appended DEF Past, Copies
    <2>3. IsPrefixOf(Append(recover.copy.chain, recover.ev), membership')
      BY <1>1, <2>1, <2>2, PrefixTransitive DEF Grows
    <2>4. recover.ev.device \in Device
      BY <2>1 DEF Event
    <2> QED BY <1>3, <1>4, <1>6, <2>1, <2>3, <2>4 DEF CommandInv, None, State
  <1>7. CASE recover.pc \notin {"challenged", "announced"}
    BY <1>7 DEF CommandInv
  <1> QED BY <1>5, <1>6, <1>7

\* The parts of the invariant together, for a step that uploads nothing.
LEMMA CopyStep ==
  ASSUME CopyInv, Grows,
         view' = [d \in Device |-> view'[d]], published' = [d \in Device |-> published'[d]],
         proc' = [p \in Process |-> proc'[p]],
         \A p \in Process : RequestInv(p)', \A d \in Device : DeviceInv(d)',
         UNCHANGED archive \/ Past(archive)', late' \subseteq late, CommandInv'
  PROVE  CopyInv'
  <1>1. \A s : Past(s) => Past(s)'
    BY PastStays
  <1>2. archive' # None => Past(archive)'
    <2>1. UNCHANGED archive /\ Past(archive) => Past(archive)'
      BY <1>1
    <2> QED BY <2>1 DEF CopyInv, None, State
  <1>3. \A c \in late' : Past(c)'
    BY <1>1 DEF CopyInv
  <1> QED BY <1>2, <1>3 DEF CopyInv, Grows, None, State

-----------------------------------------------------------------------------
(* Steps. *)

\* A relay whose chain and log a step leaves alone.
LEMMA RelayStays ==
  ASSUME CopyInv, UNCHANGED <<membership, seq>>
  PROVE  Grows /\ \A s : Past(s) => Past(s)'
  <1>1. Grows
    BY ChainFacts, SMTT(30) DEF CopyInv, Grows, IsPrefixOf
  <1> QED BY <1>1, PastStays

\* A step of a request that leaves the relay's chain and log and the devices'
\* views alone: refreshRecovery, and requests that end.
LEMMA RefreshKeeps ==
  ASSUME CopyInv, NEW p \in Process, UNCHANGED <<membership, seq, view, recover>>,
         ReadState(p) \/ BuildExport(p) \/ PutArchive(p) \/ NotePublished(p)
           \/ Stop(p) \/ GiveUpPut(p)
  PROVE  CopyInv'
  <1>1. Grows /\ \A s : Past(s) => Past(s)'
    BY RelayStays
  <1>2. RequestInv(p) /\ p[1] \in Device
    BY DEF CopyInv, Process
  <1>3. \A d \in Device : Past(view[d]) => Past(view[d])'
    BY <1>1
  <1>4. ASSUME UNCHANGED published PROVE \A d \in Device : DeviceInv(d)'
    BY <1>1, <1>4, DeviceStays
  <1>5. ASSUME UNCHANGED archive \/ Past(archive)' PROVE CommandInv'
    BY <1>1, <1>5, CommandStays
  <1>6. ASSUME Become(p, Idle)
        PROVE  proc' = [q \in Process |-> proc'[q]] /\ \A q \in Process : RequestInv(q)'
    <2>1. Idle.pc = "idle"
      BY DEF Idle
    <2> QED BY <1>1, <1>3, <1>6, <2>1, RequestMoves DEF Busy
  <1>7. view' = [d \in Device |-> view'[d]]
    BY DEF CopyInv
  <1>8. UNCHANGED published => published' = [d \in Device |-> published'[d]]
    BY DEF CopyInv
  <1>9. CASE ReadState(p)
    <2>1. Become(p, IF Noted(p[1], view[p[1]]) THEN Idle ELSE [pc |-> "stale", state |-> view[p[1]]])
      BY <1>9 DEF ReadState
    <2>2. UNCHANGED <<archive, published, late>>
      BY <1>9 DEF ReadState, relay
    <2>3. Past(view[p[1]]) /\ Past(view[p[1]])'
      BY <1>2, <1>3, <1>9, SMTT(30) DEF RequestInv, ReadState, At, Idle
    <2>4. CASE Become(p, Idle)
      BY <1>1, <1>4, <1>5, <1>6, <1>7, <1>8, <2>2, <2>4, CopyStep
    <2>5. CASE Become(p, [pc |-> "stale", state |-> view[p[1]]])
      <3>1. PICK s : s = view[p[1]]
        OBVIOUS
      <3>2. Past(s)' /\ Become(p, [pc |-> "stale", state |-> s])
        BY <1>1, <2>3, <2>5, <3>1
      <3>3. proc' = [q \in Process |-> proc'[q]] /\ \A q \in Process : RequestInv(q)'
        BY <1>1, <1>3, <2>3, <3>2, RequestMoves
      <3> QED BY <1>1, <1>4, <1>5, <1>7, <1>8, <2>2, <3>3, CopyStep
    <2> QED BY <2>1, <2>4, <2>5
  <1>10. CASE BuildExport(p)
    <2>1. PICK s, c : s = proc[p].state /\ c = view[p[1]]
      OBVIOUS
    <2>2. Become(p, [pc |-> "built", state |-> s, copy |-> c]) /\ UNCHANGED <<archive, published, late>>
      BY <1>10, <2>1 DEF BuildExport, relay
    <2>3. Past(s) /\ Past(c) /\ Past(view[p[1]])'
      BY <1>2, <1>3, <1>10, <2>1, SMTT(30) DEF RequestInv, BuildExport, At, Idle, Busy
    <2>4. Past(s)' /\ Past(c)'
      BY <1>1, <2>3
    <2>5. proc' = [q \in Process |-> proc'[q]] /\ \A q \in Process : RequestInv(q)'
      BY <1>1, <1>3, <2>2, <2>3, <2>4, RequestMoves
    <2> QED BY <1>1, <1>4, <1>5, <1>7, <1>8, <2>2, <2>5, CopyStep
  <1>11. CASE PutArchive(p)
    <2>1. PICK s, c : s = proc[p].state /\ c = proc[p].copy
      OBVIOUS
    <2>2. Past(s) /\ Past(c) /\ Past(view[p[1]])' /\ UNCHANGED <<published, late>>
      BY <1>2, <1>3, <1>11, <2>1, SMTT(30) DEF RequestInv, PutArchive, At, Idle, Busy
    <2>3. Past(s)' /\ Past(c)'
      BY <1>1, <2>2
    <2>4. CASE archive' = c /\ Become(p, [pc |-> "put", state |-> s])
      <3>1. Past(archive)'
        BY <2>3, <2>4
      <3>2. proc' = [q \in Process |-> proc'[q]] /\ \A q \in Process : RequestInv(q)'
        BY <1>1, <1>3, <2>2, <2>3, <2>4, RequestMoves
      <3> QED BY <1>1, <1>4, <1>5, <1>7, <1>8, <2>2, <3>1, <3>2, CopyStep
    <2>5. CASE Become(p, Idle) /\ UNCHANGED archive
      BY <1>1, <1>4, <1>5, <1>6, <1>7, <1>8, <2>2, <2>5, CopyStep
    <2> QED BY <1>11, <2>1, <2>4, <2>5 DEF PutArchive
  <1>12. CASE NotePublished(p)
    <2>1. /\ Past(proc[p].state) /\ Past(view[p[1]]) /\ Become(p, Idle)
          /\ UNCHANGED <<archive, late>>
          /\ published' = [published EXCEPT ![p[1]] = proc[p].state]
      BY <1>2, <1>12, SMTT(30) DEF NotePublished, RequestInv, At, Idle, Busy, relay
    <2>2. /\ published' = [d \in Device |-> published'[d]]
          /\ published'[p[1]] = proc[p].state
          /\ \A d \in Device \ {p[1]} : published'[d] = published[d]
      BY <1>2, <2>1 DEF CopyInv
    <2>3. Past(published[p[1]])'
      BY <1>1, <2>1, <2>2
    <2>4. ~Past(None)
      BY NowIsPast DEF CopyInv
    <2>5. DeviceInv(p[1]) /\ view[p[1]] # None
      BY <1>2, <2>1, <2>4 DEF CopyInv
    <2>6. DeviceInv(p[1])'
      BY <1>3, <1>2, <2>3, <2>5 DEF DeviceInv, None, State
    <2>7. \A d \in Device : DeviceInv(d)'
      BY <1>1, <2>2, <2>6, DeviceStays
    <2> QED BY <1>1, <1>5, <1>6, <1>7, <2>1, <2>2, <2>7, CopyStep
  <1>13. CASE Stop(p)
    BY <1>1, <1>4, <1>5, <1>6, <1>7, <1>8, <1>13, CopyStep DEF Stop, relay
  <1>14. CASE GiveUpPut(p)
    <2>1. PICK c : c = proc[p].copy
      OBVIOUS
    <2>2. /\ Past(c) /\ Become(p, Idle) /\ late' = late \cup {c}
          /\ UNCHANGED <<archive, published>>
      BY <1>2, <1>14, <2>1 DEF GiveUpPut, RequestInv, At, relay
    <2>3. \A x \in late' : Past(x)'
      BY <1>1, <2>2 DEF CopyInv
    <2>4. archive' # None => Past(archive)'
      BY <1>1, <2>2 DEF CopyInv, None, State
    <2> QED BY <1>1, <1>4, <1>5, <1>6, <1>7, <1>8, <2>2, <2>3, <2>4 DEF CopyInv, None, State
  <1> QED BY <1>9, <1>10, <1>11, <1>12, <1>13, <1>14

\* A sync brings the device to the relay's present.
LEMMA SyncKeeps ==
  ASSUME CopyInv, NEW p \in Process, SyncNow(p)
  PROVE  CopyInv'
  <1>1. p[1] \in Device /\ membership \in Chains /\ membership # <<>> /\ seq \in Nat
    BY DEF CopyInv, Process
  <1>2. PICK n \in 0..1 : seq' = seq + n /\ view' = [view EXCEPT ![p[1]] = State(membership, seq + n)]
    BY DEF SyncNow
  <1>3. /\ Become(p, [pc |-> "synced"]) /\ view[p[1]] # None
        /\ UNCHANGED <<membership, archive, published, late, recover>>
    BY DEF SyncNow
  <1>4. Grows
    BY <1>1, <1>2, <1>3, ChainFacts, SMTT(30) DEF Grows, IsPrefixOf
  <1>5. /\ view' = [d \in Device |-> view'[d]] /\ view'[p[1]] = Now'
        /\ \A d \in Device \ {p[1]} : view'[d] = view[d]
    BY <1>1, <1>2, <1>3 DEF CopyInv, Now
  <1>6. Past(Now)' /\ ~Past(None)'
    <2>1. (membership \in Chains /\ membership # <<>> /\ seq \in Nat)'
      BY <1>1, <1>2, <1>3, SMTT(30)
    <2> QED BY <2>1, NowIsPast, PTL
  <1>7. Past(view[p[1]])'
    BY <1>5, <1>6
  <1>8. \A d \in Device : Past(view[d]) => Past(view[d])'
    <2> SUFFICES ASSUME NEW d \in Device \ {p[1]}, Past(view[d]) PROVE Past(view[d])'
      BY <1>7
    <2> QED BY <1>4, <1>5, PastStays
  <1>9. proc' = [q \in Process |-> proc'[q]] /\ \A q \in Process : RequestInv(q)'
    BY <1>3, <1>4, <1>7, <1>8, RequestMoves DEF Busy
  <1>10. \A d \in Device : DeviceInv(d)'
    <2>1. DeviceInv(p[1])
      BY <1>1 DEF CopyInv
    <2>2. Past(published[p[1]]) => Past(published[p[1]])'
      BY <1>3, <1>4, PastStays
    <2>3. DeviceInv(p[1])'
      BY <1>3, <1>6, <1>7, <2>1, <2>2 DEF DeviceInv, None, State
    <2> QED BY <1>3, <1>4, <1>5, <2>3, DeviceStays
  <1>11. CommandInv'
    BY <1>3, <1>4, <1>5, CommandStays
  <1>12. published' = [d \in Device |-> published'[d]]
    BY <1>3 DEF CopyInv
  <1> QED BY <1>3, <1>4, <1>5, <1>9, <1>10, <1>11, <1>12, CopyStep

\* One event more, and a log as it was.
LEMMA ChainGrows ==
  ASSUME CopyInv, NEW e \in Event, membership' = Append(membership, e), UNCHANGED seq
  PROVE  /\ Grows /\ \A s : Past(s) => Past(s)'
         /\ Enrolled(membership) \subseteq Enrolled(membership')
         /\ e.action = "enroll" => e.device \in Enrolled(membership')
  <1>1. membership \in Chains /\ seq \in Nat
    BY DEF CopyInv
  <1>2. Grows
    BY <1>1, Appended, SMTT(30) DEF Grows
  <1>3. e.action = "enroll" => e.device \in Enrolled(membership')
    BY <1>1, NamedAppended DEF Enrolled
  <1> QED BY <1>1, <1>2, <1>3, PastStays, EnrolledGrows DEF Grows

\* An identifier nobody enrolled is of no machine that has a vault.
LEMMA NewIDIsNew ==
  ASSUME CopyInv, Unused # {}
  PROVE  /\ NewID \in Device /\ NewID \notin Enrolled(membership)
         /\ view[NewID] = None /\ published[NewID] = None
         /\ \A q \in Process : q[1] = NewID => proc[q] = Idle
  <1>1. NewID \in Unused
    BY DEF NewID
  <1>2. NewID \in Device /\ NewID \notin Enrolled(membership)
    BY <1>1 DEF Unused
  <1>3. view[NewID] = None /\ published[NewID] = None
    BY <1>2 DEF CopyInv, DeviceInv
  <1>4. ~Past(None)
    BY NowIsPast DEF CopyInv
  <1> QED BY <1>2, <1>3, <1>4 DEF CopyInv, RequestInv

\* A revocation is one event more.
LEMMA RevokeKeeps ==
  ASSUME CopyInv, NEW p \in Process, NEW x \in Device, RevokeDevice(p, x)
  PROVE  CopyInv'
  <1>1. p[1] \in Device /\ membership \in Chains
    BY DEF CopyInv, Process
  <1>2. /\ membership' = Append(membership, Revoke(membership, p[1], x))
        /\ Become(p, [pc |-> "resync"]) /\ view[p[1]] # None
        /\ UNCHANGED <<seq, archive, view, published, late, recover>>
    BY DEF RevokeDevice
  <1>3. Revoke(membership, p[1], x) \in Event
    BY <1>1, EventBuilt DEF Revoke, Signer
  <1>4. Grows /\ \A s : Past(s) => Past(s)'
    BY <1>2, <1>3, ChainGrows
  <1>5. \A d \in Device : Past(view[d]) => Past(view[d])'
    BY <1>2, <1>4
  <1>6. Past(view[p[1]])'
    BY <1>1, <1>2, <1>5 DEF CopyInv, DeviceInv
  <1>7. proc' = [q \in Process |-> proc'[q]] /\ \A q \in Process : RequestInv(q)'
    BY <1>2, <1>4, <1>5, <1>6, RequestMoves DEF Busy
  <1>8. \A d \in Device : DeviceInv(d)'
    BY <1>2, <1>4, DeviceStays
  <1>9. CommandInv'
    BY <1>2, <1>4, CommandStays
  <1>10. view' = [d \in Device |-> view'[d]] /\ published' = [d \in Device |-> published'[d]]
    BY <1>2 DEF CopyInv
  <1> QED BY <1>2, <1>4, <1>7, <1>8, <1>9, <1>10, CopyStep

\* A pairing enrols a machine under a new identifier and gives it the vault.
LEMMA PairKeeps ==
  ASSUME CopyInv, NEW p \in Process, PairDevice(p)
  PROVE  CopyInv'
  <1>x. PICK x : x = NewID
    OBVIOUS
  <1>e. PICK e : e = Enroll(membership, p[1], x)
    OBVIOUS
  <1>1. /\ p[1] \in Device /\ membership \in Chains /\ x \in Device /\ x \notin Enrolled(membership)
        /\ view[x] = None /\ published[x] = None
    BY <1>x, NewIDIsNew DEF CopyInv, Process, PairDevice
  <1>2. /\ membership' = Append(membership, e)
        /\ view' = [view EXCEPT ![x] = State(membership', view[p[1]].cursor)]
        /\ Become(p, [pc |-> "resync"]) /\ view[p[1]] # None
        /\ UNCHANGED <<seq, archive, published, late, recover>>
    BY <1>x, <1>e DEF PairDevice
  <1>3. e \in Event /\ e.action = "enroll" /\ e.device = x
    BY <1>1, <1>e, EventBuilt, SMTT(30) DEF Enroll, Signer
  <1>4. /\ Grows /\ \A s : Past(s) => Past(s)'
        /\ Enrolled(membership) \subseteq Enrolled(membership') /\ x \in Enrolled(membership')
    BY <1>2, <1>3, ChainGrows
  <1>5. /\ view' = [d \in Device |-> view'[d]] /\ view'[x] = State(membership', view[p[1]].cursor)
        /\ \A d \in Device \ {x} : view'[d] = view[d]
    BY <1>1, <1>2 DEF CopyInv
  <1>6. Past(view[p[1]])
    BY <1>1, <1>2 DEF CopyInv, DeviceInv
  <1>7. Past(view[x])'
    <2>1. view[p[1]].cursor \in Nat /\ view[p[1]].cursor <= seq'
      BY <1>2, <1>6 DEF Past, Copies, UpTo, Now, State
    <2>2. IsPrefixOf(membership', membership') /\ membership' \in Chains /\ membership' # <<>>
      BY <1>4, ChainFacts, SMTT(30) DEF Grows, IsPrefixOf
    <2> QED BY <1>5, <2>1, <2>2, SMTT(30) DEF Past, Copies, UpTo, Now, State
  <1>8. \A d \in Device : Past(view[d]) => Past(view[d])'
    <2>1. \A d \in Device \ {x} : Past(view[d]) => Past(view[d])'
      BY <1>4, <1>5
    <2> QED BY <1>7, <2>1
  <1>9. Past(view[p[1]])'
    BY <1>1, <1>6, <1>8
  <1>10. proc' = [q \in Process |-> proc'[q]] /\ \A q \in Process : RequestInv(q)'
    BY <1>2, <1>4, <1>8, <1>9, RequestMoves DEF Busy
  <1>11. (membership \in Chains /\ membership # <<>> /\ seq \in Nat)'
    BY <1>4 DEF Grows
  <1>12. ~Past(None)'
    BY <1>11, NowIsPast, PTL
  <1>13. DeviceInv(x)'
    BY <1>1, <1>2, <1>4, <1>7, <1>12 DEF DeviceInv, None, State
  <1>14. \A d \in Device : DeviceInv(d)'
    BY <1>2, <1>4, <1>5, <1>13, DeviceStays
  <1>15. CommandInv'
    BY <1>1, <1>2, <1>4, <1>5, CommandStays
  <1>16. published' = [d \in Device |-> published'[d]]
    BY <1>2 DEF CopyInv
  <1> QED BY <1>2, <1>4, <1>5, <1>10, <1>14, <1>15, <1>16, CopyStep

\* The recovering machine's steps that change nothing but the command, the
\* challenges, and what the relay stores of a late upload.
LEMMA CommandKeeps ==
  ASSUME CopyInv, UNCHANGED <<membership, seq, view, published, proc>>,
         late' \subseteq late, UNCHANGED archive \/ Past(archive)', CommandInv'
  PROVE  CopyInv'
  <1>1. Grows
    BY RelayStays
  <1>2. \A d \in Device : DeviceInv(d)'
    BY <1>1, DeviceStays
  <1>3. \A q \in Process : RequestInv(q)'
    <2>1. \A q \in Process : Past(view[q[1]]) => Past(view[q[1]])'
      BY RelayStays
    <2> QED BY <1>1, <2>1, RequestStays
  <1>4. /\ view' = [d \in Device |-> view'[d]] /\ published' = [d \in Device |-> published'[d]]
        /\ proc' = [p \in Process |-> proc'[p]]
    BY DEF CopyInv
  <1> QED BY <1>1, <1>2, <1>3, <1>4, CopyStep

\* The command asks for a challenge, fetches the copy, fails, or its nonces
\* expire; or an upload arrives that its sender gave up on.
LEMMA CommandSteps ==
  ASSUME CopyInv, Challenge \/ FetchArchive \/ ExpireNonce \/ CrashRecover \/ LateArchive
  PROVE  CopyInv'
  <1>1. CASE Challenge
    <2>1. /\ UNCHANGED <<membership, seq, view, published, proc, late, archive>>
          /\ recover' = [pc |-> "challenged", nonce |-> issued + 1, copy |-> archive]
          /\ Past(archive)
      BY <1>1 DEF Challenge, CopyInv
    <2>2. Past(archive)'
      BY <2>1, RelayStays
    <2>3. CommandInv'
      BY <2>1, <2>2 DEF CommandInv
    <2> QED BY <2>1, <2>3, CommandKeeps
  <1>2. CASE FetchArchive
    <2>1. /\ UNCHANGED <<membership, seq, view, published, proc, late, archive>>
          /\ recover.pc = "challenged" /\ recover' = [recover EXCEPT !.copy = archive]
      BY <1>2 DEF FetchArchive, relay
    <2>2. /\ recover = [pc |-> "challenged", nonce |-> recover.nonce, copy |-> recover.copy]
          /\ Past(archive)
      BY <2>1 DEF CopyInv, CommandInv
    <2>3. recover' = [pc |-> "challenged", nonce |-> recover.nonce, copy |-> archive]
      BY <2>1, <2>2
    <2>4. Past(archive)'
      BY <2>1, <2>2, RelayStays
    <2>5. CommandInv'
      BY <2>1, <2>3, <2>4 DEF CommandInv
    <2> QED BY <2>1, <2>5, CommandKeeps
  <1>3. CASE ExpireNonce
    <2>1. UNCHANGED <<membership, seq, view, published, proc, late, archive, recover>>
      BY <1>3 DEF ExpireNonce
    <2>2. CommandInv'
      BY <2>1, RelayStays, CommandStays
    <2> QED BY <2>1, <2>2, CommandKeeps
  <1>4. CASE CrashRecover
    <2>1. /\ UNCHANGED <<membership, seq, view, published, proc, late, archive>>
          /\ recover' = Idle
      BY <1>4 DEF CrashRecover, relay
    <2>2. CommandInv'
      BY <2>1 DEF CommandInv, Idle
    <2> QED BY <2>1, <2>2, CommandKeeps
  <1>5. CASE LateArchive
    <2>1. UNCHANGED <<membership, seq, view, published, proc, recover>>
      BY <1>5 DEF LateArchive
    <2>2. PICK c \in late : archive' = c /\ late' = late \ {c}
      BY <1>5 DEF LateArchive
    <2>3. Past(c)'
      BY <2>1, RelayStays DEF CopyInv
    <2>4. Past(archive)'
      BY <2>2, <2>3
    <2>5. CommandInv'
      BY <2>1, <2>4, RelayStays, CommandStays
    <2> QED BY <2>1, <2>2, <2>4, <2>5, CommandKeeps
  <1> QED BY <1>1, <1>2, <1>3, <1>4, <1>5

\* The relay takes the enrolment only where the chain in the copy is its own.
LEMMA AnnounceKeeps ==
  ASSUME CopyInv, Announce
  PROVE  CopyInv'
  <1>x. PICK x : x = NewID
    OBVIOUS
  <1>c. PICK c : c = recover.copy
    OBVIOUS
  <1>e. PICK e : e = RecoveryEnroll(c.chain, x)
    OBVIOUS
  <1>1. /\ Past(c) /\ x \in Device /\ view[x] = None
        /\ UNCHANGED <<seq, archive, view, published, proc, late>>
    BY <1>x, <1>c, NewIDIsNew DEF Announce, CopyInv, CommandInv
  <1>2. e \in Event /\ e.seq = Len(c.chain) + 1 /\ e.action = "enroll" /\ e.device = x
    BY <1>1, <1>e, EventBuilt, SMTT(30) DEF RecoveryEnroll, Signer, Past, Copies
  <1>3. CASE UNCHANGED membership /\ recover' = Idle
    <2>1. CommandInv'
      BY <1>3 DEF CommandInv, Idle
    <2> QED BY <1>1, <1>3, <2>1, CommandKeeps
  <1>4. CASE /\ Applies(membership, e) /\ membership' = Append(membership, e)
             /\ recover' = [pc |-> "announced", copy |-> c, ev |-> e]
    <2>1. c.chain = membership
      <3>1. c.chain \in Chains /\ membership \in Chains /\ IsPrefixOf(c.chain, membership)
        BY <1>1 DEF Past, Copies, UpTo, Now, State, CopyInv
      <3>2. Len(membership) <= Len(c.chain)
        BY <1>2, <1>4, <3>1, ChainFacts, SMTT(30) DEF Applies
      <3> QED BY <3>1, <3>2, SameChain
    <2>2. /\ Grows /\ \A s : Past(s) => Past(s)'
          /\ x \in Enrolled(membership')
      BY <1>1, <1>2, <1>4, ChainGrows
    <2>3. IsPrefixOf(Append(c.chain, e), membership')
      BY <1>4, <2>1, <2>2, ChainFacts, SMTT(30) DEF Grows, IsPrefixOf
    <2>4. Past(c)'
      BY <1>1, <2>2
    <2>5. CommandInv'
      BY <1>1, <1>2, <1>4, <2>2, <2>3, <2>4 DEF CommandInv, None, State
    <2>6. \A d \in Device : DeviceInv(d)'
      BY <1>1, <2>2, DeviceStays
    <2>7. \A q \in Process : RequestInv(q)'
      <3>1. \A q \in Process : Past(view[q[1]]) => Past(view[q[1]])'
        BY <1>1, <2>2
      <3> QED BY <1>1, <2>2, <3>1, RequestStays
    <2>8. /\ view' = [d \in Device |-> view'[d]] /\ published' = [d \in Device |-> published'[d]]
          /\ proc' = [p \in Process |-> proc'[p]]
      BY <1>1 DEF CopyInv
    <2> QED BY <1>1, <2>2, <2>5, <2>6, <2>7, <2>8, CopyStep
  <1> QED BY <1>x, <1>c, <1>e, <1>3, <1>4 DEF Announce

\* The machine that recovered installs the copy and its own enrolment.
LEMMA CommitKeeps ==
  ASSUME CopyInv, Commit
  PROVE  CopyInv'
  <1>c. PICK c : c = recover.copy
    OBVIOUS
  <1>e. PICK e : e = recover.ev
    OBVIOUS
  <1>1. /\ Past(c) /\ e \in Event /\ IsPrefixOf(Append(c.chain, e), membership)
        /\ e.device \in Enrolled(membership) /\ view[e.device] = None
    BY <1>c, <1>e DEF Commit, CopyInv, CommandInv
  <1>2. /\ view' = [view EXCEPT ![e.device] = State(Append(c.chain, e), c.cursor)]
        /\ recover' = Idle /\ UNCHANGED <<membership, seq, archive, published, proc, late>>
    BY <1>c, <1>e DEF Commit, relay
  <1>3. e.device \in Device
    BY <1>1 DEF Event
  <1>4. Grows /\ \A s : Past(s) => Past(s)'
    BY <1>2, RelayStays
  <1>5. /\ view' = [d \in Device |-> view'[d]] /\ view'[e.device] = State(Append(c.chain, e), c.cursor)
        /\ \A d \in Device \ {e.device} : view'[d] = view[d]
    BY <1>2, <1>3 DEF CopyInv
  <1>6. Past(view[e.device])'
    <2>1. Append(c.chain, e) \in Chains /\ Append(c.chain, e) # <<>>
      BY <1>1, Appended DEF Past, Copies
    <2>2. c.cursor \in Nat /\ c.cursor <= seq
      BY <1>1 DEF Past, Copies, UpTo, Now, State
    <2>3. PICK s : s = State(Append(c.chain, e), c.cursor)
      OBVIOUS
    <2>4. s.chain = Append(c.chain, e) /\ s.cursor = c.cursor /\ s \in Copies
      BY <2>1, <2>2, <2>3 DEF State, Copies
    <2>5. Past(s)
      BY <1>1, <2>1, <2>2, <2>4 DEF Past, UpTo, Now, State
    <2> QED BY <1>4, <1>5, <2>3, <2>5
  <1>7. \A d \in Device : Past(view[d]) => Past(view[d])'
    <2>1. \A d \in Device \ {e.device} : Past(view[d]) => Past(view[d])'
      BY <1>4, <1>5
    <2> QED BY <1>6, <2>1
  <1>8. \A q \in Process : RequestInv(q)'
    BY <1>2, <1>4, <1>7, RequestStays DEF Process
  <1>9. ~Past(None)'
    <2>1. (membership \in Chains /\ membership # <<>> /\ seq \in Nat)'
      BY <1>4 DEF Grows
    <2> QED BY <2>1, NowIsPast, PTL
  <1>10. DeviceInv(e.device)'
    <2>1. published[e.device] = None
      BY <1>1, <1>3 DEF CopyInv, DeviceInv
    <2> QED BY <1>1, <1>2, <1>6, <1>9, <2>1 DEF DeviceInv, None, State
  <1>11. \A d \in Device : DeviceInv(d)'
    BY <1>2, <1>4, <1>5, <1>10, DeviceStays
  <1>12. CommandInv'
    BY <1>2 DEF CommandInv, Idle
  <1>13. published' = [d \in Device |-> published'[d]] /\ proc' = [p \in Process |-> proc'[p]]
    BY <1>2 DEF CopyInv
  <1> QED BY <1>2, <1>4, <1>5, <1>8, <1>11, <1>12, <1>13, CopyStep

\* Lost machines hold nothing.
LEMMA LossKeeps ==
  ASSUME CopyInv, LoseMachines
  PROVE  CopyInv'
  <1>1. /\ view' = [d \in Device |-> None] /\ published' = [d \in Device |-> None]
        /\ proc' = [p \in Process |-> Idle]
        /\ UNCHANGED <<membership, seq, archive, late, recover>>
    BY DEF LoseMachines, relay
  <1>2. Grows
    BY <1>1, RelayStays
  <1>3. \A d \in Device : DeviceInv(d)'
    BY <1>1 DEF DeviceInv, None, State
  <1>4. \A q \in Process : RequestInv(q)'
    BY <1>1 DEF RequestInv, Idle, Busy
  <1>5. CommandInv'
    BY <1>1, <1>2, CommandStays
  <1> QED BY <1>1, <1>2, <1>3, <1>4, <1>5, CopyStep

\* CopyInv is inductive.
LEMMA CopyInit ==
  ASSUME Init
  PROVE  CopyInv
  <1>1. Root \in Event /\ <<Root>> \in Chains /\ <<Root>> # <<>> /\ Root.action = "enroll" /\ Root.device = Founder
    <2>1. <<>> \in Chains /\ Founder \in Signer /\ Founder \in Device
      BY ChainConstants, SMTT(30) DEF Chains, Signer
    <2>2. Root \in Event /\ Root.action = "enroll" /\ Root.device = Founder
      BY <2>1, EventBuilt, SMTT(30) DEF Root
    <2> QED BY <2>2, SMTT(30) DEF Chains
  <1>2. membership = <<Root>> /\ seq = 0 /\ archive = None /\ late = {} /\ recover = Idle
    BY DEF Init
  <1>3. Founder \in Enrolled(membership)
    BY <1>1, <1>2, SMTT(30) DEF Enrolled, Named
  <1>4. Past(State(<<Root>>, 0))
    BY <1>1, <1>2, NowIsPast DEF Now
  <1>5. \A d \in Device : DeviceInv(d)
    BY <1>3, <1>4 DEF Init, DeviceInv
  <1>6. \A p \in Process : RequestInv(p)
    BY DEF Init, RequestInv, Idle, Busy
  <1>7. CommandInv
    BY <1>2 DEF CommandInv, Idle
  <1> QED BY <1>1, <1>2, <1>5, <1>6, <1>7, SMTT(30) DEF Init, CopyInv

LEMMA CopyNext ==
  ASSUME CopyInv, [Next]_vars
  PROVE  CopyInv'
  <1>1. ASSUME NEW p \in Process, Refresh(p) \/ Stop(p) \/ GiveUpPut(p)
        PROVE  CopyInv'
    <2>1. CASE SyncNow(p)
      BY <2>1, SyncKeeps
    <2>2. CASE ReadState(p) \/ BuildExport(p) \/ PutArchive(p) \/ NotePublished(p)
                 \/ Stop(p) \/ GiveUpPut(p)
      <3>1. UNCHANGED <<membership, seq, view, recover>>
        BY <2>2 DEF ReadState, BuildExport, PutArchive, NotePublished, Stop, GiveUpPut, relay
      <3> QED BY <2>2, <3>1, RefreshKeeps
    <2> QED BY <1>1, <2>1, <2>2 DEF Refresh
  <1>2. ASSUME NEW p \in Process, PairDevice(p) \/ \E x \in Device : RevokeDevice(p, x)
        PROVE  CopyInv'
    BY <1>2, PairKeeps, RevokeKeeps
  <1>3. CASE LateArchive \/ FetchArchive \/ ExpireNonce \/ CrashRecover
    BY <1>3, CommandSteps
  <1>4. CASE RecoverStep
    BY <1>4, CommandSteps, AnnounceKeeps, CommitKeeps DEF RecoverStep
  <1>5. CASE LoseMachines
    BY <1>5, LossKeeps
  <1>6. CASE UNCHANGED vars
    <2>1. UNCHANGED <<membership, seq, archive, view, published, proc, late, recover>>
      BY <1>6 DEF vars, relay
    <2>2. CommandInv'
      BY <2>1, RelayStays, CommandStays
    <2> QED BY <2>1, <2>2, CommandKeeps
  <1> QED BY <1>1, <1>2, <1>3, <1>4, <1>5, <1>6 DEF Next

(***************************************************************************)
(* A machine that holds the vault is enrolled, and its chain is where the  *)
(* relay's began, whatever failed in a recovery (vault/restore.go,         *)
(* store_install.go: the announcement comes before the commit).            *)
(***************************************************************************)
THEOREM RecoveredAreMembers == Spec => []RecoveredIsMember
  <1>1. CopyInv => RecoveredIsMember
    <2> SUFFICES ASSUME CopyInv, NEW d \in Device, view[d] # None
                 PROVE  d \in Enrolled(membership) /\ IsPrefixOf(view[d].chain, membership)
      BY DEF RecoveredIsMember, Installed
    <2>1. Past(view[d]) /\ d \in Enrolled(membership)
      BY DEF CopyInv, DeviceInv
    <2> QED BY <2>1 DEF Past, UpTo, Now, State
  <1> QED BY <1>1, CopyInit, CopyNext, PTL DEF Spec

-----------------------------------------------------------------------------
(* The copy does not stay behind.                                          *)

\* One request of a machine at a time refreshes the copy.
Alone ==
  \A p, q \in Process :
    p[1] = q[1] /\ proc[p].pc \in Busy /\ proc[q].pc \in Busy => p = q

\* What a request read later is no older than what it read before.
OrderInv(p) ==
  proc[p].pc \in Busy =>
    /\ UpTo(published[p[1]], proc[p].state) /\ UpTo(proc[p].state, view[p[1]])
    /\ proc[p].pc = "built" => UpTo(proc[p].state, proc[p].copy)

\* The device has noted the relay's state, or has uploaded and is about to.
Told(d) ==
  \/ published[d] = Now
  \/ \E p \in Process : p[1] = d /\ proc[p].pc = "put" /\ proc[p].state = Now

Noticed ==
  Installed \cap Authorized(membership) # {} /\ ~Current =>
    \E d \in Installed \cap Authorized(membership) : ~Told(d)

NoticeInv ==
  /\ CopyInv /\ Noticed /\ Alone
  /\ \A p \in Process : OrderInv(p)
  /\ \A d \in Device : UpTo(published[d], view[d])

LEMMA AloneStays ==
  ASSUME Alone, \A q \in Process : proc'[q].pc \in Busy => proc[q].pc \in Busy
  PROVE  Alone'
  BY DEF Alone

\* States in order: None before all, and everything past before the present.
LEMMA Order ==
  ASSUME CopyInv
  PROVE  /\ \A s \in Copies : UpTo(None, s) /\ UpTo(s, s)
         /\ \A s, t \in Copies : UpTo(s, t) /\ UpTo(t, s) => s = t
         /\ \A s, t, u \in Copies : UpTo(s, t) /\ UpTo(t, u) => UpTo(s, u)
         /\ Now \in Copies /\ None \in Copies
         /\ \A s : Past(s) => s \in Copies /\ s # None /\ UpTo(s, Now)
         /\ \A d \in Device : /\ view[d] \in Copies /\ UpTo(view[d], Now)
                            /\ published[d] \in Copies /\ UpTo(published[d], Now)
  <1>1. \A s \in Copies : /\ s.chain \in Chains /\ s.cursor \in Nat
                          /\ s = [chain |-> s.chain, cursor |-> s.cursor]
    BY SMTT(30) DEF Copies
  <1>2. None \in Copies /\ None.chain = <<>> /\ None.cursor = 0
    BY SMTT(30) DEF None, State, Copies, Chains
  <1>3. Now \in Copies
    BY DEF Now, State, Copies, CopyInv
  <1>4. \A s \in Copies : UpTo(None, s) /\ UpTo(s, s)
    BY <1>1, <1>2, ChainFacts, SMTT(30) DEF UpTo, IsPrefixOf
  <1>5. ASSUME NEW s \in Copies, NEW t \in Copies, UpTo(s, t), UpTo(t, s)
        PROVE  s = t
    <2>1. s.chain = t.chain
      BY <1>1, <1>5, SameChain DEF UpTo, IsPrefixOf
    <2>2. s.cursor = t.cursor
      BY <1>1, <1>5, SMTT(30) DEF UpTo
    <2> QED BY <1>1, <2>1, <2>2
  <1>6. ASSUME NEW s \in Copies, NEW t \in Copies, NEW u \in Copies, UpTo(s, t), UpTo(t, u)
        PROVE  UpTo(s, u)
    BY <1>1, <1>6, PrefixTransitive, SMTT(30) DEF UpTo
  <1>7. \A s : Past(s) => s \in Copies /\ s # None /\ UpTo(s, Now)
    BY <1>2 DEF Past
  <1>8. ASSUME NEW d \in Device
        PROVE  /\ view[d] \in Copies /\ UpTo(view[d], Now)
               /\ published[d] \in Copies /\ UpTo(published[d], Now)
    BY <1>2, <1>3, <1>4, <1>7 DEF CopyInv, DeviceInv
  <1> QED BY <1>2, <1>3, <1>4, <1>5, <1>6, <1>7, <1>8

\* Nobody has been told of a state that is new.
LEMMA NewsIsUntold ==
  ASSUME CopyInv, NEW d \in Device, UNCHANGED published,
         \A q \in Process : proc'[q].pc = "put" => proc'[q] = proc[q],
         membership' \in Chains, seq' \in Nat,
         Len(membership) < Len(membership') \/ seq < seq'
  PROVE  ~Told(d)'
  <1>1. ASSUME NEW s \in Copies, UpTo(s, Now)
        PROVE  s # Now'
    <2>1. /\ Len(s.chain) <= Len(membership) /\ s.cursor <= seq
          /\ Len(s.chain) \in Nat /\ s.cursor \in Nat
      BY <1>1, ChainFacts DEF UpTo, IsPrefixOf, Now, State, Copies
    <2>2. Len(membership) \in Nat /\ seq \in Nat /\ Len(membership') \in Nat
      BY ChainFacts DEF CopyInv
    <2>3. s.chain # membership' \/ s.cursor # seq'
      BY <2>1, <2>2, SMTT(30)
    <2> QED BY <2>3, SMTT(30) DEF Now, State
  <1>2. published'[d] # Now'
    BY <1>1, Order
  <1>3. ASSUME NEW q \in Process, proc'[q].pc = "put"
        PROVE  proc'[q].state # Now'
    <2>1. proc'[q] = proc[q] /\ Past(proc[q].state)
      BY <1>3 DEF CopyInv, RequestInv, Busy
    <2>2. proc[q].state \in Copies /\ UpTo(proc[q].state, Now)
      BY <2>1 DEF Past
    <2>3. proc[q].state # Now'
      BY <1>1, <2>2
    <2> QED BY <2>1, <2>3
  <1> QED BY <1>2, <1>3 DEF Told

\* A relay that goes on as it is, towards a device that a step leaves alone.
LEMMA OrderStays ==
  ASSUME NoticeInv, CopyInv', Alone', NEW q \in Process, proc'[q] = proc[q],
         published'[q[1]] = published[q[1]],
         view'[q[1]] = view[q[1]] \/ (Grows /\ view'[q[1]] = Now')
  PROVE  OrderInv(q)'
  <1>1. CASE view'[q[1]] = view[q[1]]
    BY <1>1 DEF NoticeInv, OrderInv
  <1>2. CASE Grows /\ view'[q[1]] = Now'
    <2> SUFFICES ASSUME proc[q].pc \in Busy
                 PROVE  UpTo(proc[q].state, Now')
      BY <1>2 DEF NoticeInv, OrderInv
    <2>1. PICK s : s = proc[q].state
      OBVIOUS
    <2>2. Past(s)'
      BY <1>2, <2>1, PastStays DEF NoticeInv, CopyInv, RequestInv
    <2> QED BY <2>1, <2>2 DEF Past
  <1> QED BY <1>1, <1>2

\* A step that leaves the relay's state and everything noted as it was, and
\* ends no wait for a note.
LEMMA NoticedStays ==
  ASSUME NoticeInv, UNCHANGED <<membership, seq, archive, view>>,
         \A d \in Device : Told(d)' => Told(d)
  PROVE  Noticed'
  <1>1. UNCHANGED <<Installed, Authorized(membership), Current>>
    BY DEF Installed, Current
  <1>2. Installed \subseteq Device
    BY DEF Installed
  <1> QED BY <1>1, <1>2 DEF NoticeInv, Noticed

\* A step that brings a new state, with a member's machine to tell of it.
LEMMA NoticedAnew ==
  ASSUME NoticeInv, UNCHANGED published,
         \A q \in Process : proc'[q].pc = "put" => proc'[q] = proc[q],
         membership' \in Chains, seq' \in Nat,
         Len(membership) < Len(membership') \/ seq < seq'
  PROVE  Noticed'
  <1>1. \A d \in Installed' : ~Told(d)'
    BY NewsIsUntold DEF NoticeInv, Installed
  <1> QED BY <1>1 DEF Noticed

\* The steps of a request before its upload, and its ends.
LEMMA RequestNotices ==
  ASSUME NoticeInv, CopyInv', Alone', NEW p \in Process,
         ReadState(p) \/ BuildExport(p) \/ Stop(p) \/ GiveUpPut(p)
  PROVE  NoticeInv'
  <1>1. UNCHANGED <<membership, seq, archive, view, published>> /\ p[1] \in Device
    BY DEF ReadState, BuildExport, Stop, GiveUpPut, relay, Process
  <1>2. PICK m : Become(p, m)
    BY DEF ReadState, BuildExport, Stop, GiveUpPut
  <1>3. proc'[p] = m /\ \A q \in Process \ {p} : proc'[q] = proc[q]
    BY <1>2 DEF Become, NoticeInv, CopyInv
  <1>4. m.pc # "put" /\ OrderInv(p)'
    <2>1. UpTo(published[p[1]], view[p[1]]) /\ UpTo(view[p[1]], view[p[1]]) /\ OrderInv(p)
      BY <1>1, Order DEF NoticeInv
    <2>2. CASE m = Idle
      BY <1>3, <2>2, SMTT(30) DEF Idle, OrderInv, Busy
    <2>3. CASE m = [pc |-> "stale", state |-> view[p[1]]]
      BY <1>1, <1>3, <2>1, <2>3, SMTT(30) DEF OrderInv
    <2>4. CASE m = [pc |-> "built", state |-> proc[p].state, copy |-> view[p[1]]] /\ At(p, "stale")
      BY <1>1, <1>3, <2>1, <2>4, SMTT(30) DEF OrderInv, At, Busy
    <2>5. proc'[p] = Idle \/ proc'[p] = [pc |-> "stale", state |-> view[p[1]]]
          \/ (proc'[p] = [pc |-> "built", state |-> proc[p].state, copy |-> view[p[1]]] /\ At(p, "stale"))
      BY DEF ReadState, BuildExport, Stop, GiveUpPut, Become, NoticeInv, CopyInv
    <2> QED BY <1>3, <2>2, <2>3, <2>4, <2>5
  <1>5. \A q \in Process : OrderInv(q)'
    BY <1>1, <1>3, <1>4, OrderStays
  <1>6. ASSUME NEW d \in Device, Told(d)' PROVE Told(d)
    <2>1. Now' = Now
      BY <1>1 DEF Now
    <2> QED BY <1>1, <1>3, <1>4, <1>6, <2>1 DEF Told
  <1>7. Noticed'
    BY <1>1, <1>6, NoticedStays
  <1> QED BY <1>1, <1>5, <1>7 DEF NoticeInv

\* An upload: it is of the relay's state, or its sender is not told of that.
LEMMA PutNotices ==
  ASSUME NoticeInv, CopyInv', Alone', NEW p \in Process, PutArchive(p)
  PROVE  NoticeInv'
  <1>1. /\ UNCHANGED <<membership, seq, view, published>> /\ p[1] \in Device
        /\ proc[p].pc = "built"
    BY DEF PutArchive, Process, At
  <1>2. /\ Past(proc[p].state) /\ Past(proc[p].copy) /\ Past(view[p[1]])
        /\ OrderInv(p) /\ UpTo(published[p[1]], view[p[1]])
    BY <1>1, SMTT(30) DEF NoticeInv, CopyInv, RequestInv, Busy, Idle
  <1>3. Now' = Now
    BY <1>1 DEF Now
  <1>4. CASE Become(p, Idle) /\ UNCHANGED archive
    <2>1. proc'[p] = Idle /\ \A q \in Process \ {p} : proc'[q] = proc[q]
      BY <1>4 DEF Become, NoticeInv, CopyInv
    <2>2. OrderInv(p)'
      BY <2>1, SMTT(30) DEF OrderInv, Idle, Busy
    <2>3. \A q \in Process : OrderInv(q)'
      BY <1>1, <2>1, <2>2, OrderStays
    <2>4. ASSUME NEW d \in Device, Told(d)' PROVE Told(d)
      BY <1>1, <1>3, <2>1, <2>4, SMTT(30) DEF Told, Idle
    <2>5. Noticed'
      BY <1>1, <1>4, <2>4, NoticedStays
    <2> QED BY <1>1, <2>3, <2>5 DEF NoticeInv
  <1>5. CASE /\ p[1] \in Authorized(membership) /\ archive' = proc[p].copy
             /\ Become(p, [pc |-> "put", state |-> proc[p].state])
    <2>1. /\ proc'[p] = [pc |-> "put", state |-> proc[p].state]
          /\ \A q \in Process \ {p} : proc'[q] = proc[q]
      BY <1>5 DEF Become, NoticeInv, CopyInv
    <2>2. OrderInv(p)'
      BY <1>1, <1>2, <2>1, SMTT(30) DEF OrderInv, Busy
    <2>3. \A q \in Process : OrderInv(q)'
      BY <1>1, <2>1, <2>2, OrderStays
    <2>4. CASE proc[p].copy = Now
      <3>1. Current'
        BY <1>3, <1>5, <2>4 DEF Current, Now
      <3> QED BY <1>1, <2>3, <3>1 DEF NoticeInv, Noticed
    <2>5. CASE proc[p].copy # Now
      <3>1. /\ UpTo(published[p[1]], proc[p].state) /\ UpTo(proc[p].state, proc[p].copy)
            /\ UpTo(proc[p].copy, Now) /\ published[p[1]] \in Copies /\ Now \in Copies
            /\ proc[p].state \in Copies /\ proc[p].copy \in Copies
        BY <1>1, <1>2, Order DEF NoticeInv, OrderInv, Busy
      <3>2. proc[p].state # Now
        BY <2>5, <3>1, Order, SMTT(30) DEF NoticeInv
      <3>3. published[p[1]] # Now
        <4>1. UpTo(published[p[1]], proc[p].copy)
          BY <3>1, Order, SMTT(30) DEF NoticeInv
        <4> QED BY <2>5, <3>1, <4>1, Order, SMTT(30) DEF NoticeInv
      <3>4. \A q \in Process : q[1] = p[1] /\ proc'[q].pc = "put" => q = p
        <4>1. proc'[p].pc = "put"
          BY <2>1, SMTT(30)
        <4> QED BY <4>1 DEF Alone, Busy
      <3>8. ~Told(p[1])'
        BY <1>1, <1>3, <2>1, <3>2, <3>3, <3>4, SMTT(30) DEF Told
      <3>5. view'[p[1]] # None
        BY <1>1, <1>2, Order DEF NoticeInv
      <3>6. p[1] \in Installed' \cap Authorized(membership')
        BY <1>1, <1>5, <3>5 DEF Installed, None, State
      <3>7. Noticed'
        BY <3>6, <3>8 DEF Noticed
      <3> QED BY <1>1, <2>3, <3>7 DEF NoticeInv
    <2> QED BY <2>4, <2>5
  <1> QED BY <1>4, <1>5 DEF PutArchive

\* A note: the device was told by its upload already.
LEMMA NoteNotices ==
  ASSUME NoticeInv, CopyInv', Alone', NEW p \in Process, NotePublished(p)
  PROVE  NoticeInv'
  <1>1. /\ UNCHANGED <<membership, seq, archive, view>> /\ p[1] \in Device
        /\ proc[p].pc = "put" /\ published' = [published EXCEPT ![p[1]] = proc[p].state]
        /\ Become(p, Idle)
    BY DEF NotePublished, Process, At, relay
  <1>2. /\ proc'[p] = Idle /\ \A q \in Process \ {p} : proc'[q] = proc[q]
        /\ published'[p[1]] = proc[p].state
        /\ \A d \in Device \ {p[1]} : published'[d] = published[d]
    BY <1>1 DEF Become, NoticeInv, CopyInv
  <1>3. OrderInv(p)'
    BY <1>2, SMTT(30) DEF OrderInv, Idle, Busy
  <1>4. ASSUME NEW q \in Process \ {p} PROVE OrderInv(q)'
    <2>1. CASE q[1] # p[1]
      BY <1>1, <1>2, <1>4, <2>1, OrderStays DEF Process
    <2>2. CASE q[1] = p[1]
      <3>1. proc[q].pc \notin Busy
        BY <1>1, <1>4, <2>2 DEF NoticeInv, Alone, Busy
      <3> QED BY <1>2, <1>4, <3>1 DEF OrderInv
    <2> QED BY <2>1, <2>2
  <1>5. \A d \in Device : UpTo(published'[d], view'[d])
    <2>1. UpTo(proc[p].state, view[p[1]])
      BY <1>1 DEF NoticeInv, OrderInv, Busy
    <2> QED BY <1>1, <1>2, <2>1 DEF NoticeInv
  <1>6. ASSUME NEW d \in Device, Told(d)' PROVE Told(d)
    <2>1. Now' = Now
      BY <1>1 DEF Now
    <2>2. CASE d = p[1]
      <3>1. \A q \in Process : q[1] = d /\ proc[q].pc = "put" => q = p
        BY <1>1, <2>2 DEF NoticeInv, Alone, Busy
      <3>2. proc'[p].pc # "put"
        BY <1>2, SMTT(30) DEF Idle
      <3>3. published'[d] = Now
        BY <1>2, <1>6, <2>1, <2>2, <3>1, <3>2 DEF Told
      <3> QED BY <1>1, <1>2, <2>2, <3>3 DEF Told
    <2>3. CASE d # p[1]
      BY <1>1, <1>2, <1>6, <2>1, <2>3 DEF Told, Idle
    <2> QED BY <2>2, <2>3
  <1>7. Noticed'
    BY <1>1, <1>6, NoticedStays
  <1> QED BY <1>3, <1>4, <1>5, <1>7 DEF NoticeInv

\* A sync: its device has not been told of what it pushed.
LEMMA SyncNotices ==
  ASSUME NoticeInv, CopyInv', Alone', NEW p \in Process, SyncNow(p)
  PROVE  NoticeInv'
  <1>1. /\ UNCHANGED <<membership, archive, published>> /\ p[1] \in Device
        /\ view[p[1]] # None /\ Become(p, [pc |-> "synced"])
    BY DEF SyncNow, Process
  <1>2. PICK n \in 0..1 : seq' = seq + n /\ view' = [view EXCEPT ![p[1]] = State(membership, seq + n)]
    BY DEF SyncNow
  <1>3. membership \in Chains /\ membership # <<>> /\ seq \in Nat
    BY DEF NoticeInv, CopyInv
  <1>4. Grows
    BY <1>1, <1>2, <1>3, ChainFacts, SMTT(30) DEF Grows, IsPrefixOf
  <1>5. /\ view'[p[1]] = Now' /\ \A d \in Device \ {p[1]} : view'[d] = view[d]
        /\ proc'[p] = [pc |-> "synced"] /\ \A q \in Process \ {p} : proc'[q] = proc[q]
    BY <1>1, <1>2 DEF NoticeInv, CopyInv, Become, Now
  <1>6. OrderInv(p)'
    BY <1>5, SMTT(30) DEF OrderInv, Busy
  <1>7. \A q \in Process : OrderInv(q)'
    BY <1>1, <1>4, <1>5, <1>6, OrderStays DEF Process
  <1>8. \A d \in Device : UpTo(published'[d], view'[d])
    <2>1. UpTo(published[p[1]], Now)
      BY <1>1, Order DEF NoticeInv
    <2>2. UpTo(published[p[1]], Now')
      <3>1. CASE published[p[1]] = None
        <4>1. Now' \in Copies
          BY <1>1, <1>2, <1>3, SMTT(30) DEF Now, State, Copies
        <4> QED BY <3>1, <4>1, Order DEF NoticeInv
      <3>2. CASE published[p[1]] # None
        <4>1. PICK s : s = published[p[1]]
          OBVIOUS
        <4>2. Past(s)'
          BY <1>1, <1>4, <3>2, <4>1, PastStays DEF NoticeInv, CopyInv, DeviceInv
        <4> QED BY <4>1, <4>2 DEF Past
      <3> QED BY <3>1, <3>2
    <2> QED BY <1>1, <1>5, <2>2 DEF NoticeInv
  <1>9. Noticed'
    <2>1. CASE seq' = seq
      <3>1. /\ Now' = Now /\ Current' = Current /\ Authorized(membership)' = Authorized(membership)
        BY <1>1, <2>1 DEF Now, Current
      <3>2. Now # None
        BY <1>3, NowIsPast, Order DEF NoticeInv
      <3>3. Installed' = Installed
        BY <1>1, <1>5, <3>1, <3>2 DEF Installed, None, State
      <3>4. \A d \in Device : Told(d)' => Told(d)
        BY <1>1, <1>5, <3>1, SMTT(30) DEF Told
      <3>5. Installed \subseteq Device
        BY DEF Installed
      <3> QED BY <1>1, <3>1, <3>3, <3>4, <3>5 DEF NoticeInv, Noticed
    <2>2. CASE seq < seq'
      BY <1>1, <1>2, <1>3, <1>5, <2>2, NoticedAnew, SMTT(30)
    <2> QED BY <1>2, <1>3, <2>1, <2>2, SMTT(30)
  <1> QED BY <1>7, <1>8, <1>9 DEF NoticeInv

\* The chain grows by an enrolment or a revocation.
LEMMA ChainNotices ==
  ASSUME NoticeInv, CopyInv', Alone', NEW e \in Event, membership' = Append(membership, e),
         UNCHANGED <<seq, published>>,
         \A q \in Process : proc'[q] = proc[q] \/ proc'[q] = [pc |-> "resync"],
         \A d \in Device : view'[d] = view[d] \/ view[d] = None
  PROVE  NoticeInv'
  <1>1. membership \in Chains /\ seq \in Nat
    BY DEF NoticeInv, CopyInv
  <1>2. Len(membership) < Len(membership') /\ membership' \in Chains
    BY <1>1, Appended, ChainFacts, SMTT(30)
  <1>3. Noticed'
    BY <1>1, <1>2, NoticedAnew, SMTT(30)
  <1>4. ASSUME NEW q \in Process PROVE OrderInv(q)'
    <2>1. CASE proc'[q] = [pc |-> "resync"]
      BY <2>1, SMTT(30) DEF OrderInv, Busy
    <2>2. CASE proc'[q] = proc[q] /\ view'[q[1]] = view[q[1]]
      BY <2>2, OrderStays
    <2>3. CASE proc'[q] = proc[q] /\ view[q[1]] = None
      <3>1. proc[q] = Idle
        BY <2>3, Order DEF NoticeInv, CopyInv, RequestInv
      <3> QED BY <2>3, <3>1, SMTT(30) DEF OrderInv, Idle, Busy
    <2> QED BY <2>1, <2>2, <2>3 DEF Process
  <1>5. ASSUME NEW d \in Device PROVE UpTo(published'[d], view'[d])
    <2>1. CASE view'[d] = view[d]
      BY <2>1 DEF NoticeInv
    <2>2. CASE view[d] = None
      <3>1. published[d] = None
        BY <2>2 DEF NoticeInv, CopyInv, DeviceInv
      <3>2. view'[d] \in Copies
        <4>1. view'[d] = None \/ Past(view[d])'
          BY DEF CopyInv, DeviceInv, None, State
        <4>2. None \in Copies
          BY Order DEF NoticeInv
        <4> QED BY <4>1, <4>2 DEF Past
      <3> QED BY <3>1, <3>2, Order DEF NoticeInv
    <2> QED BY <2>1, <2>2
  <1> QED BY <1>3, <1>4, <1>5 DEF NoticeInv

\* A machine that recovered has not been told of anything.
LEMMA CommitNotices ==
  ASSUME NoticeInv, CopyInv', Alone', Commit
  PROVE  NoticeInv'
  <1>x. PICK x : x = recover.ev.device
    OBVIOUS
  <1>1. /\ UNCHANGED <<membership, seq, archive, published, proc>>
        /\ x \in Device /\ view[x] = None
    BY <1>x DEF Commit, relay, NoticeInv, CopyInv, CommandInv, Event
  <1>2. \A d \in Device \ {x} : view'[d] = view[d]
    BY <1>1, <1>x DEF Commit, NoticeInv, CopyInv
  <1>3. Now' = Now /\ Current' = Current /\ Authorized(membership)' = Authorized(membership)
    BY <1>1 DEF Now, Current
  <1>4. published[x] = None /\ \A q \in Process : q[1] = x => proc[q] = Idle
    <2>1. ~Past(None)
      BY Order DEF NoticeInv
    <2>2. DeviceInv(x) /\ \A q \in Process : RequestInv(q)
      BY <1>1 DEF NoticeInv, CopyInv
    <2>3. published[x] = None
      BY <1>1, <2>2 DEF DeviceInv
    <2>4. ASSUME NEW q \in Process, q[1] = x PROVE proc[q] = Idle
      BY <1>1, <2>1, <2>2, <2>4 DEF RequestInv
    <2> QED BY <2>3, <2>4
  <1>5. ASSUME NEW q \in Process PROVE OrderInv(q)'
    <2>1. CASE q[1] = x
      BY <1>1, <1>4, <2>1, SMTT(30) DEF OrderInv, Idle, Busy
    <2>2. CASE q[1] # x
      BY <1>1, <1>2, <2>2, OrderStays DEF Process
    <2> QED BY <2>1, <2>2
  <1>6. ASSUME NEW d \in Device PROVE UpTo(published'[d], view'[d])
    <2>1. CASE d = x
      <3>1. view'[d] \in Copies
        <4>1. view'[d] = None \/ Past(view[d])'
          BY DEF CopyInv, DeviceInv, None, State
        <4>2. None \in Copies
          BY Order DEF NoticeInv
        <4> QED BY <4>1, <4>2 DEF Past
      <3> QED BY <1>1, <1>4, <2>1, <3>1, Order, SMTT(30) DEF NoticeInv
    <2>2. CASE d # x
      BY <1>1, <1>2, <2>2 DEF NoticeInv
    <2> QED BY <2>1, <2>2
  <1>7. Noticed'
    <2>1. Now # None
      BY NowIsPast, Order DEF NoticeInv, CopyInv
    <2>2. ~Told(x)'
      BY <1>1, <1>3, <1>4, <2>1, SMTT(30) DEF Told, Idle
    <2>3. \A d \in Device : Told(d)' <=> Told(d)
      BY <1>1, <1>3 DEF Told
    <2>4. Installed \subseteq Installed' /\ Installed' \subseteq Installed \cup {x}
      BY <1>1, <1>2 DEF Installed, None, State
    <2>5. Installed \subseteq Device
      BY DEF Installed
    <2> QED BY <1>1, <1>3, <2>2, <2>3, <2>4, <2>5 DEF NoticeInv, Noticed
  <1> QED BY <1>5, <1>6, <1>7 DEF NoticeInv

\* Without machines there is nobody to tell.
LEMMA LossNotices ==
  ASSUME NoticeInv, CopyInv', Alone', LoseMachines
  PROVE  NoticeInv'
  <1>1. /\ view' = [d \in Device |-> None] /\ published' = [d \in Device |-> None]
        /\ proc' = [p \in Process |-> Idle]
    BY DEF LoseMachines
  <1>2. Noticed'
    BY <1>1 DEF Noticed, Installed, None, State
  <1>3. \A q \in Process : OrderInv(q)'
    BY <1>1 DEF OrderInv, Idle, Busy
  <1>4. UpTo(None, None)
    BY Order DEF NoticeInv
  <1> QED BY <1>1, <1>2, <1>3, <1>4 DEF NoticeInv

\* Steps that leave machines and relay alone.
LEMMA QuietNotices ==
  ASSUME NoticeInv, CopyInv', Alone',
         UNCHANGED <<membership, seq, archive, view, published, proc>>
  PROVE  NoticeInv'
  <1>1. \A q \in Process : OrderInv(q)'
    BY OrderStays
  <1>2. \A d \in Device : Told(d)' => Told(d)
    BY DEF Told, Now
  <1>3. Noticed'
    BY <1>2, NoticedStays
  <1> QED BY <1>1, <1>3 DEF NoticeInv

\* A request that is not refreshing the copy begins to only when no other of
\* its machine is, or the uploads count as crossed.
LEMMA AloneBecomes ==
  ASSUME CopyInv, Alone, NEW p \in Process, NEW m, Become(p, m),
         m.pc \notin Busy \/ proc[p].pc \in Busy \/ ~Refreshing(p)
  PROVE  Alone'
  <1>1. proc'[p] = m /\ \A q \in Process \ {p} : proc'[q] = proc[q]
    BY DEF Become, CopyInv
  <1>2. CASE m.pc \notin Busy \/ proc[p].pc \in Busy
    BY <1>1, <1>2, AloneStays
  <1>3. CASE ~Refreshing(p)
    <2>1. \A q \in Process \ {p} : q[1] = p[1] => proc[q].pc \notin Busy
      BY <1>3 DEF Refreshing, Busy
    <2>2. ASSUME NEW q \in Process, NEW r \in Process, q[1] = r[1],
                 proc'[q].pc \in Busy, proc'[r].pc \in Busy
          PROVE  q = r
      <3>1. CASE q = p \/ r = p
        BY <1>1, <2>1, <2>2, <3>1
      <3>2. CASE q # p /\ r # p
        BY <1>1, <2>2, <3>2 DEF Alone
      <3> QED BY <3>1, <3>2
    <2> QED BY <2>2 DEF Alone
  <1> QED BY <1>2, <1>3

LEMMA AloneNext ==
  ASSUME CopyInv, Alone, [Next]_vars, ~crossed'
  PROVE  Alone'
  <1>1. /\ Idle.pc \notin Busy /\ [pc |-> "synced"].pc \notin Busy
        /\ [pc |-> "resync"].pc \notin Busy
    BY SMTT(30) DEF Idle, Busy
  <1>2. ASSUME NEW p \in Process,
               SyncNow(p) \/ PairDevice(p) \/ (\E x \in Device : RevokeDevice(p, x))
               \/ Stop(p) \/ GiveUpPut(p) \/ NotePublished(p)
        PROVE  Alone'
    <2>1. PICK m : Become(p, m) /\ m.pc \notin Busy
      BY <1>1, <1>2 DEF SyncNow, PairDevice, RevokeDevice, Stop, GiveUpPut, NotePublished
    <2> QED BY <2>1, AloneBecomes
  <1>3. ASSUME NEW p \in Process, ReadState(p)
        PROVE  Alone'
    <2>1. PICK m : Become(p, m) /\ (m.pc \notin Busy \/ ~Refreshing(p))
      BY <1>1, <1>3 DEF ReadState
    <2> QED BY <2>1, AloneBecomes
  <1>4. ASSUME NEW p \in Process, BuildExport(p) \/ PutArchive(p)
        PROVE  Alone'
    <2>1. PICK m : Become(p, m)
      BY <1>4 DEF BuildExport, PutArchive
    <2>2. proc[p].pc \in Busy
      BY <1>4 DEF BuildExport, PutArchive, At, Busy
    <2> QED BY <2>1, <2>2, AloneBecomes
  <1>5. CASE LoseMachines
    <2>1. \A q \in Process : proc'[q] = Idle
      BY <1>5 DEF LoseMachines
    <2> QED BY <1>1, <2>1 DEF Alone
  <1>6. CASE UNCHANGED proc
    BY <1>6 DEF Alone
  <1>7. CASE LateArchive \/ RecoverStep \/ FetchArchive \/ ExpireNonce \/ CrashRecover
             \/ UNCHANGED vars
    BY <1>6, <1>7 DEF LateArchive, RecoverStep, Challenge, Announce, Commit, FetchArchive,
                      ExpireNonce, CrashRecover, vars
  <1> QED BY <1>2, <1>3, <1>4, <1>5, <1>7 DEF Next, Refresh

LEMMA NoticeNext ==
  ASSUME NoticeInv, [Next]_vars, ~crossed'
  PROVE  NoticeInv'
  <1>1. CopyInv' /\ Alone'
    BY CopyNext, AloneNext DEF NoticeInv
  <1>2. ASSUME NEW p \in Process, Refresh(p) \/ Stop(p) \/ GiveUpPut(p)
        PROVE  NoticeInv'
    BY <1>1, <1>2, SyncNotices, RequestNotices, PutNotices, NoteNotices DEF Refresh
  <1>3. ASSUME NEW p \in Process, PairDevice(p)
        PROVE  NoticeInv'
    <2>x. PICK x : x = NewID
      OBVIOUS
    <2>1. x \in Device /\ view[x] = None /\ p[1] \in Device /\ membership \in Chains
      BY <1>3, <2>x, NewIDIsNew DEF PairDevice, NoticeInv, CopyInv, Process
    <2>2. Enroll(membership, p[1], x) \in Event
      BY <2>1, EventBuilt DEF Enroll, Signer
    <2>3. /\ membership' = Append(membership, Enroll(membership, p[1], x))
          /\ UNCHANGED <<seq, published>>
      BY <1>3, <2>x DEF PairDevice
    <2>4. \A q \in Process : proc'[q] = proc[q] \/ proc'[q] = [pc |-> "resync"]
      BY <1>3 DEF PairDevice, Become, NoticeInv, CopyInv
    <2>5. \A d \in Device : view'[d] = view[d] \/ view[d] = None
      BY <1>3, <2>x, <2>1 DEF PairDevice, NoticeInv, CopyInv
    <2> QED BY <1>1, <2>2, <2>3, <2>4, <2>5, ChainNotices
  <1>4. ASSUME NEW p \in Process, NEW x \in Device, RevokeDevice(p, x)
        PROVE  NoticeInv'
    <2>1. p[1] \in Device /\ membership \in Chains
      BY DEF NoticeInv, CopyInv, Process
    <2>2. Revoke(membership, p[1], x) \in Event
      BY <2>1, EventBuilt DEF Revoke, Signer
    <2>3. /\ membership' = Append(membership, Revoke(membership, p[1], x))
          /\ UNCHANGED <<seq, published, view>>
      BY <1>4 DEF RevokeDevice
    <2>4. \A q \in Process : proc'[q] = proc[q] \/ proc'[q] = [pc |-> "resync"]
      BY <1>4 DEF RevokeDevice, Become, NoticeInv, CopyInv
    <2> QED BY <1>1, <2>2, <2>3, <2>4, ChainNotices
  <1>5. CASE FetchArchive \/ ExpireNonce \/ CrashRecover \/ Challenge
    BY <1>1, <1>5, QuietNotices
       DEF FetchArchive, ExpireNonce, CrashRecover, Challenge, relay
  <1>10. ~LateArchive
    BY DEF LateArchive
  <1>6. CASE Announce
    <2>e. PICK e : e = RecoveryEnroll(recover.copy.chain, NewID)
      OBVIOUS
    <2>1. UNCHANGED <<seq, archive, view, published, proc>>
      BY <1>6 DEF Announce
    <2>2. CASE UNCHANGED membership
      BY <1>1, <2>1, <2>2, QuietNotices
    <2>3. CASE membership' = Append(membership, e)
      <3>1. recover.copy.chain \in Chains /\ NewID \in Device
        BY <1>6, NewIDIsNew DEF Announce, NoticeInv, CopyInv, CommandInv, Past, Copies
      <3>2. e \in Event
        BY <2>e, <3>1, EventBuilt DEF RecoveryEnroll, Signer
      <3> QED BY <1>1, <2>1, <2>3, <3>2, ChainNotices
    <2> QED BY <1>6, <2>e, <2>2, <2>3 DEF Announce
  <1>7. CASE Commit
    BY <1>1, <1>7, CommitNotices
  <1>8. CASE LoseMachines
    BY <1>1, <1>8, LossNotices
  <1>9. CASE UNCHANGED vars
    BY <1>1, <1>9, QuietNotices DEF vars, relay
  <1> QED BY <1>2, <1>3, <1>4, <1>5, <1>6, <1>7, <1>8, <1>9, <1>10 DEF Next, RecoverStep

\* Uploads that have crossed stay so.
LEMMA CrossedStays ==
  ASSUME [Next]_vars, crossed
  PROVE  crossed'
  <1>1. ASSUME NEW p \in Process, Refresh(p) \/ Stop(p) \/ GiveUpPut(p) \/ PairDevice(p)
               \/ \E x \in Device : RevokeDevice(p, x)
        PROVE  crossed'
    BY <1>1 DEF Refresh, SyncNow, ReadState, BuildExport, PutArchive, NotePublished, Stop,
                GiveUpPut, PairDevice, RevokeDevice
  <1>2. CASE LateArchive \/ RecoverStep \/ FetchArchive \/ ExpireNonce \/ CrashRecover
             \/ LoseMachines \/ UNCHANGED vars
    BY <1>2 DEF LateArchive, RecoverStep, Challenge, Announce, Commit, FetchArchive,
                ExpireNonce, CrashRecover, LoseMachines, vars
  <1> QED BY <1>1, <1>2 DEF Next

(***************************************************************************)
(* A recovery copy that is not the relay's present state is known to be    *)
(* stale by a machine that is still a member (daemon/sync.go               *)
(* refreshRecovery), for any number of machines, and of requests that each *)
(* serves at once, until an upload arrives after its sender gave up or two *)
(* requests of one machine refresh the copy together.                      *)
(***************************************************************************)
THEOREM StaleCopiesAreNoticed == Spec => []StaleCopyIsNoticed
  <1> DEFINE Inv == CopyInv /\ (~crossed => NoticeInv)
  <1>1. Init => Inv
    <2> SUFFICES ASSUME Init PROVE CopyInv /\ NoticeInv
      OBVIOUS
    <2>1. CopyInv
      BY CopyInit
    <2>2. \A d \in Device : published[d] = None
      BY DEF Init
    <2>3. \A q \in Process : proc[q] = Idle
      BY DEF Init
    <2>4. Now # None
      BY <2>1, NowIsPast, Order DEF CopyInv
    <2>5. Noticed
      BY <2>2, <2>3, <2>4, SMTT(30) DEF Noticed, Told, Idle, Installed
    <2>6. Idle.pc \notin Busy
      BY SMTT(30) DEF Idle, Busy
    <2>7. Alone
      BY <2>3, <2>6 DEF Alone
    <2> QED BY <2>1, <2>2, <2>3, <2>5, <2>7, Order, SMTT(30) DEF NoticeInv, OrderInv, Idle, Busy
  <1>2. Inv => StaleCopyIsNoticed
    <2> SUFFICES ASSUME NoticeInv PROVE StaleCopyIsNoticed
      BY DEF StaleCopyIsNoticed
    <2>1. \A d \in Device : Noted(d, State(membership, seq)) => Told(d)
      BY DEF Noted, Told, Now
    <2> QED BY <2>1 DEF NoticeInv, Noticed, StaleCopyIsNoticed, Installed
  <1>3. Inv /\ [Next]_vars => Inv'
    BY CopyNext, NoticeNext, CrossedStays
  <1> QED BY <1>1, <1>2, <1>3, PTL DEF Spec
=============================================================================
