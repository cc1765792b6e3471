--------------------------- MODULE PairingProofs ---------------------------
(***************************************************************************)
(* Proofs about Pairing, for every set of devices and approvers, every     *)
(* chain they start from and every bound: an installed device is a member  *)
(* of the chain it installed, and Pairing implements PairingPromise.       *)
(*                                                                         *)
(* Neither is inductive.  PairInv adds what ties the processes together: a *)
(* joiner's transcript and the approval in its session are its own; the    *)
(* session's confirmation, and an approver past awaitJoiner, rest on users *)
(* who said yes; a joiner's user says yes to one transcript only; and an   *)
(* approver about to append has its bundle at the relay.                   *)
(***************************************************************************)
EXTENDS Pairing, TLAPS

\* Leaves that reason about numbers, sequences or records use the SMT solver.
USE ZenonT(60)

TranscriptOrNone == Transcript \cup {None}

SessionRow(V) ==
  [state : {"none", "offered", "confirming", "confirmed", "completed"}, expired : BOOLEAN,
   approver : TranscriptOrNone, joiner : TranscriptOrNone, snapshot : TranscriptOrNone,
   bundle : TranscriptOrNone, event : V]

JoinerRow(V) ==
  [pc : {"new", "waiting", "comparing", "receiving", "received", "installed", "done", "failed"},
   transcript : TranscriptOrNone, chain : Seq(V)]

\* Where an approver's request in progress may be.
Working == {"confirming", "checked", "approved", "comparing", "awaiting", "syncing", "uploading",
            "completing", "appending", "finishing"}

ApproverRow(V) ==
  {IdleApprover} \cup [pc : Working, t : Transcript, chain : Seq(V)]

\* V holds the events that are around; which ones does not matter here.
Types(V) ==
  /\ membership \in Seq(V)
  /\ session \in [Joiner -> SessionRow(V)]
  /\ joiner \in [Joiner -> JoinerRow(V)]
  /\ approver \in [Approver -> ApproverRow(V)]
  /\ minted \in Nat

JoinerInv(j) ==
  /\ joiner[j].pc \in {"new", "waiting"} => joiner[j].transcript = None
  /\ joiner[j].pc = "new" => session[j] = NoSession
  /\ joiner[j].pc = "comparing" => joiner[j].transcript # None
  /\ joiner[j].transcript # None => joiner[j].transcript[1] = j
  /\ session[j].approver # None => session[j].approver[1] = j
  /\ session[j].joiner # None => <<"joiner", session[j].joiner>> \in yes
  /\ joiner[j].pc \in {"received", "installed", "done"} =>
       IsPrefixOf(joiner[j].chain, membership) /\ j \in Authorized(joiner[j].chain)

ApproverInv(a) ==
  /\ approver[a].pc \in {"awaiting", "syncing", "uploading", "completing", "appending", "finishing"} =>
       <<"approver", approver[a].t>> \in yes
  /\ approver[a].pc \in {"syncing", "uploading", "completing", "appending", "finishing"} =>
       <<"joiner", approver[a].t>> \in yes
  /\ approver[a].pc = "appending" => session[Peer(a)].bundle # None

YesInv == \A t \in Transcript : <<"joiner", t>> \in yes => joiner[t[1]].transcript = t

PairInv ==
  /\ \E V : Types(V)
  /\ \A j \in Joiner : JoinerInv(j)
  /\ \A a \in Approver : ApproverInv(a)
  /\ YesInv

-----------------------------------------------------------------------------
(* Sequences and chains. *)

\* A sequence over a set is one over any larger set.
LEMMA SeqGrows ==
  ASSUME NEW V, NEW W, V \subseteq W, NEW c \in Seq(V)
  PROVE  c \in Seq(W)
  BY SMTT(30)

\* A prefix of a chain is a prefix of the chain one event longer.
LEMMA PrefixAppend ==
  ASSUME NEW V, NEW c \in Seq(V), NEW m \in Seq(V), NEW e, IsPrefixOf(c, m)
  PROVE  IsPrefixOf(c, Append(m, e))
  BY SMTT(30) DEF IsPrefixOf

\* The devices a chain enrols, or revokes, once one event is appended.
LEMMA NamedAppend ==
  ASSUME NEW V, NEW m \in Seq(V), NEW e, NEW action
  PROVE  Named(Append(m, e), action) = Named(m, action) \cup (IF e.action = action THEN {e.device} ELSE {})
  <1>1. /\ DOMAIN Append(m, e) = 1..(Len(m) + 1) /\ DOMAIN m = 1..Len(m) /\ Len(m) \in Nat
        /\ \A i \in 1..Len(m) : Append(m, e)[i] = m[i]
        /\ Append(m, e)[Len(m) + 1] = e
    BY SMTT(30)
  <1>2. ASSUME NEW x PROVE x \in Named(Append(m, e), action) <=>
                              \/ x \in Named(m, action)
                              \/ e.action = action /\ x = e.device
    BY <1>1, SMTT(30) DEF Named
  <1> QED BY <1>2

\* A chain enrols whoever its prefixes enrol.
LEMMA PrefixNamed ==
  ASSUME NEW V, NEW c \in Seq(V), NEW m \in Seq(V), IsPrefixOf(c, m)
  PROVE  Enrolled(c) \subseteq Enrolled(m)
  <1>1. DOMAIN c \subseteq DOMAIN m /\ \A i \in DOMAIN c : c[i] = m[i]
    BY SMTT(30) DEF IsPrefixOf
  <1> QED BY <1>1 DEF Enrolled, Named

-----------------------------------------------------------------------------
(* One step. *)

\* The chain is as it was or one event longer.
Grows == membership' = membership \/ \E e : membership' = Append(membership, e)

\* A joiner that a step does not touch keeps its facts.
LEMMA JoinerStays ==
  ASSUME NEW V, Types(V), NEW j \in Joiner, JoinerInv(j), Grows, yes \subseteq yes',
         joiner'[j] = joiner[j], session'[j] = session[j]
  PROVE  JoinerInv(j)'
  <1>1. joiner[j].chain \in Seq(V) /\ membership \in Seq(V)
    BY DEF Types, JoinerRow
  <1>2. IsPrefixOf(joiner[j].chain, membership) => IsPrefixOf(joiner[j].chain, membership')
    BY <1>1, PrefixAppend, Zenon DEF Grows
  <1> QED BY <1>2 DEF JoinerInv, NoSession

\* An approver that a step does not touch keeps its facts.
LEMMA ApproverStays ==
  ASSUME NEW V, Types(V), NEW a \in Approver, ApproverInv(a), yes \subseteq yes',
         approver'[a] = approver[a],
         \A j \in Joiner : session[j].bundle # None => session'[j].bundle # None
  PROVE  ApproverInv(a)'
  <1>1. approver[a].pc = "appending" => Peer(a) \in Joiner
    BY SMTT(30) DEF Types, ApproverRow, IdleApprover, Transcript, Peer
  <1> QED BY <1>1 DEF ApproverInv, Peer

\* Joiners keep their transcripts, so what their users said stays true of them.
LEMMA YesStays ==
  ASSUME YesInv,
         \A j \in Joiner : joiner[j].transcript # None => joiner'[j].transcript = joiner[j].transcript,
         \A t \in Transcript : <<"joiner", t>> \in yes' =>
           <<"joiner", t>> \in yes \/ joiner'[t[1]].transcript = t
  PROVE  YesInv'
  <1> SUFFICES ASSUME NEW t \in Transcript, <<"joiner", t>> \in yes'
               PROVE  joiner'[t[1]].transcript = t
    BY DEF YesInv
  <1>1. t # None /\ t[1] \in Joiner
    BY PairingConstants DEF Transcript
  <1> QED BY <1>1 DEF YesInv

\* A step keeps the invariant when whoever it touches keeps their own facts.
LEMMA StepKeeps ==
  ASSUME PairInv, NEW V, Types(V), NEW W, Types(W)', Grows, yes \subseteq yes',
         \A j \in Joiner : \/ JoinerInv(j)'
                           \/ joiner'[j] = joiner[j] /\ session'[j] = session[j],
         \A a \in Approver : ApproverInv(a)' \/ approver'[a] = approver[a],
         \A j \in Joiner : joiner[j].transcript # None => joiner'[j].transcript = joiner[j].transcript,
         \A j \in Joiner : session[j].bundle # None => session'[j].bundle # None,
         \A t \in Transcript : <<"joiner", t>> \in yes' =>
           <<"joiner", t>> \in yes \/ joiner'[t[1]].transcript = t
  PROVE  PairInv'
  <1>1. \A j \in Joiner : JoinerInv(j)'
    BY JoinerStays DEF PairInv
  <1>2. \A a \in Approver : ApproverInv(a)'
    BY ApproverStays DEF PairInv
  <1>3. YesInv'
    BY YesStays DEF PairInv
  <1> QED BY <1>1, <1>2, <1>3 DEF PairInv

\* A step that writes one joiner's state and its session.
LEMMA JoinerSteps ==
  ASSUME PairInv, NEW V, Types(V), NEW j \in Joiner, NEW r \in JoinerRow(V), NEW q \in SessionRow(V),
         joiner' = [joiner EXCEPT ![j] = r], session' = [session EXCEPT ![j] = q],
         membership' = membership, approver' = approver, minted' = minted, yes \subseteq yes', JoinerInv(j)',
         joiner[j].transcript # None => r.transcript = joiner[j].transcript,
         session[j].bundle # None => q.bundle # None,
         \A t \in Transcript : <<"joiner", t>> \in yes' => <<"joiner", t>> \in yes \/ (r.transcript = t /\ t[1] = j)
  PROVE  PairInv'
  <1>1. /\ joiner'[j] = r /\ session'[j] = q
        /\ \A k \in Joiner : k # j => joiner'[k] = joiner[k] /\ session'[k] = session[k]
    BY DEF Types
  <1>2. Types(V)'
    BY DEF Types
  <1>3. Grows
    BY DEF Grows
  <1> QED BY <1>1, <1>2, <1>3, StepKeeps, SMTT(30)

\* CreatePairing opens a session that was never used.
LEMMA BeginKeeps ==
  ASSUME PairInv, NEW j \in Joiner, Begin(j)
  PROVE  PairInv'
  <1>1. PICK V : Types(V)
    BY DEF PairInv
  <1>2. PICK r : r = [joiner[j] EXCEPT !.pc = "waiting"]
    BY Zenon
  <1>3. PICK q : q = [NoSession EXCEPT !.state = "offered"]
    BY Zenon
  <1>4. JoinerInv(j) /\ joiner[j] \in JoinerRow(V) /\ session[j] \in SessionRow(V)
    BY <1>1 DEF PairInv, Types
  <1>5. /\ joiner[j].pc = "new" /\ joiner' = [joiner EXCEPT ![j] = r] /\ session' = [session EXCEPT ![j] = q]
        /\ UNCHANGED <<membership, approver, minted, yes>>
    BY <1>2, <1>3 DEF Begin
  <1>6. session[j] = NoSession /\ joiner[j].transcript = None
    BY <1>4, <1>5 DEF JoinerInv
  <1>7. r \in JoinerRow(V) /\ q \in SessionRow(V)
    BY <1>2, <1>3, <1>4, <1>6, ZenonT(60) DEF JoinerRow, SessionRow, NoSession
  <1>8. JoinerInv(j)'
    <2>1. joiner'[j] = r /\ session'[j] = q
      BY <1>1, <1>5 DEF Types
    <2> QED BY <1>2, <1>3, <1>4, <1>6, <2>1, SMTT(30) DEF JoinerInv, NoSession, JoinerRow
  <1>9. session[j].bundle = None
    BY <1>6, SMTT(30) DEF NoSession
  <1> QED BY <1>1, <1>5, <1>6, <1>7, <1>8, <1>9, JoinerSteps, Zenon

\* A joiner that goes on without changing its session.
LEMMA JoinerGoesOn ==
  ASSUME PairInv, NEW V, Types(V), NEW j \in Joiner, NEW r \in JoinerRow(V),
         joiner' = [joiner EXCEPT ![j] = r], r.pc \notin {"new", "waiting", "comparing"},
         UNCHANGED <<membership, session, approver, minted, yes>>,
         r.transcript = joiner[j].transcript,
         r.pc \in {"received", "installed", "done"} =>
           IsPrefixOf(r.chain, membership) /\ j \in Authorized(r.chain)
  PROVE  PairInv'
  <1>1. PICK q : q = session[j]
    OBVIOUS
  <1>2. JoinerInv(j) /\ q \in SessionRow(V)
    BY <1>1 DEF PairInv, Types
  <1>3. session' = [session EXCEPT ![j] = q]
    BY <1>1 DEF Types
  <1>4. JoinerInv(j)'
    <2>1. joiner'[j] = r /\ session'[j] = session[j]
      BY DEF Types
    <2> QED BY <1>2, <2>1 DEF JoinerInv
  <1> QED BY <1>1, <1>2, <1>3, <1>4, JoinerSteps, Zenon

\* A joiner that gives up.
LEMMA FailKeeps ==
  ASSUME PairInv, NEW j \in Joiner, Fail(j),
         UNCHANGED <<membership, session, approver, minted, yes>>
  PROVE  PairInv'
  <1>1. PICK V : Types(V)
    BY DEF PairInv
  <1>2. PICK r : r = [joiner[j] EXCEPT !.pc = "failed"]
    BY Zenon
  <1>3. joiner' = [joiner EXCEPT ![j] = r]
    BY <1>2 DEF Fail
  <1>4. r \in JoinerRow(V) /\ r.pc = "failed" /\ r.transcript = joiner[j].transcript
    BY <1>1, <1>2, Zenon DEF JoinerRow, Types
  <1> QED BY <1>1, <1>3, <1>4, JoinerGoesOn, Zenon

\* The joiner takes its transcript from the approval in its session.
LEMMA LearnTranscriptKeeps ==
  ASSUME PairInv, NEW j \in Joiner, LearnTranscript(j)
  PROVE  PairInv'
  <1>1. joiner[j].pc = "waiting" /\ UNCHANGED <<membership, session, approver, minted, yes>>
    BY DEF LearnTranscript
  <1>2. CASE Fail(j)
    BY <1>1, <1>2, FailKeeps
  <1>3. CASE /\ session[j].approver # None
             /\ joiner' = [joiner EXCEPT ![j].pc = "comparing", ![j].transcript = session[j].approver]
    <2>1. PICK V : Types(V)
      BY DEF PairInv
    <2>2. PICK r : r = [joiner[j] EXCEPT !.pc = "comparing", !.transcript = session[j].approver]
      OBVIOUS
    <2>3. PICK q : q = session[j]
      OBVIOUS
    <2>4. JoinerInv(j) /\ joiner[j] \in JoinerRow(V) /\ q \in SessionRow(V)
      BY <2>1, <2>3 DEF PairInv, Types
    <2>5. joiner' = [joiner EXCEPT ![j] = r] /\ session' = [session EXCEPT ![j] = q]
      BY <1>1, <1>3, <2>1, <2>2, <2>3, Zenon DEF Types
    <2>6. r \in JoinerRow(V)
      BY <2>2, <2>3, <2>4, Zenon DEF JoinerRow, SessionRow
    <2>7. joiner[j].transcript = None
      BY <1>1, <2>4 DEF JoinerInv
    <2>8. JoinerInv(j)'
      <3>1. joiner'[j] = r /\ session'[j] = session[j]
        BY <1>1, <2>1, <2>5 DEF Types
      <3>2. r.pc = "comparing" /\ r.transcript = session[j].approver
        BY <2>2, <2>4 DEF JoinerRow
      <3> QED BY <1>1, <1>3, <2>4, <3>1, <3>2 DEF JoinerInv
    <2> QED BY <1>1, <2>1, <2>3, <2>4, <2>5, <2>6, <2>7, <2>8, JoinerSteps, Zenon
  <1> QED BY <1>2, <1>3 DEF LearnTranscript

\* The joiner's user says yes; the relay takes the confirmation or refuses.
LEMMA ConfirmJoinerKeeps ==
  ASSUME PairInv, NEW j \in Joiner, ConfirmJoiner(j)
  PROVE  PairInv'
  <1> DEFINE t == joiner[j].transcript
  <1>1. PICK V : Types(V)
    BY DEF PairInv
  <1>2. /\ joiner[j].pc = "comparing" /\ yes' = yes \cup {<<"joiner", t>>}
        /\ UNCHANGED <<membership, approver, minted>>
    BY DEF ConfirmJoiner
  <1>3. PICK r : \/ r = [joiner[j] EXCEPT !.pc = "receiving"] /\ joiner' = [joiner EXCEPT ![j] = r]
                    /\ session' = [session EXCEPT ![j].joiner = t, ![j].state = "confirmed"]
                 \/ r = [joiner[j] EXCEPT !.pc = "failed"] /\ joiner' = [joiner EXCEPT ![j] = r]
                    /\ session' = session
    BY Zenon DEF ConfirmJoiner, Fail
  <1>a. PICK u : u = [session[j] EXCEPT !.joiner = t, !.state = "confirmed"]
    OBVIOUS
  <1>b. session' = [session EXCEPT ![j] = u] \/ session' = session
    BY <1>3, <1>a, Zenon
  <1>4. PICK q : q \in {u, session[j]} /\ session' = [session EXCEPT ![j] = q]
    BY <1>1, <1>b DEF Types
  <1>5. JoinerInv(j) /\ joiner[j] \in JoinerRow(V) /\ session[j] \in SessionRow(V)
    BY <1>1 DEF PairInv, Types
  <1>6. t \in Transcript /\ t[1] = j
    BY <1>2, <1>5 DEF JoinerInv, JoinerRow, TranscriptOrNone
  <1>7. r \in JoinerRow(V) /\ r.transcript = t /\ r.pc \in {"receiving", "failed"}
    BY <1>3, <1>5 DEF JoinerRow
  <1>8. /\ q \in SessionRow(V) /\ q.bundle = session[j].bundle /\ q.approver = session[j].approver
        /\ q.joiner \in {session[j].joiner, t}
    BY <1>4, <1>5, <1>6, <1>a, ZenonT(60) DEF SessionRow, TranscriptOrNone
  <1>9. joiner' = [joiner EXCEPT ![j] = r] /\ session' = [session EXCEPT ![j] = q]
    BY <1>1, <1>3, <1>4 DEF Types
  <1>10. JoinerInv(j)'
    <2>1. joiner'[j] = r /\ session'[j] = q
      BY <1>1, <1>9 DEF Types
    <2> QED BY <1>2, <1>5, <1>6, <1>7, <1>8, <2>1 DEF JoinerInv
  <1> QED BY <1>1, <1>2, <1>6, <1>7, <1>8, <1>9, <1>10, JoinerSteps, Zenon

\* What the joiner receives is the relay's chain, with itself in it.
LEMMA ReceiveKeeps ==
  ASSUME PairInv, NEW j \in Joiner, Receive(j)
  PROVE  PairInv'
  <1>1. UNCHANGED <<membership, session, approver, minted, yes>>
    BY DEF Receive
  <1>2. CASE Fail(j)
    BY <1>1, <1>2, FailKeeps
  <1>3. CASE /\ j \in Enrolled(membership) \ Revoked(membership)
             /\ joiner' = [joiner EXCEPT ![j].pc = "received", ![j].chain = membership]
    <2>1. PICK V : Types(V)
      BY DEF PairInv
    <2>2. PICK r : r = [joiner[j] EXCEPT !.pc = "received", !.chain = membership]
      OBVIOUS
    <2>3. joiner' = [joiner EXCEPT ![j] = r]
      BY <1>3, <2>2, Zenon
    <2>4. /\ r \in JoinerRow(V) /\ r.pc = "received" /\ r.transcript = joiner[j].transcript
          /\ r.chain = membership /\ membership \in Seq(V)
      BY <2>1, <2>2, Zenon DEF JoinerRow, Types
    <2>5. IsPrefixOf(r.chain, membership) /\ j \in Authorized(r.chain)
      BY <1>3, <2>4, SMTT(30) DEF IsPrefixOf, Authorized
    <2> QED BY <1>1, <2>1, <2>3, <2>4, <2>5, JoinerGoesOn, Zenon
  <1> QED BY <1>2, <1>3 DEF Receive

\* vault.Join installs what was received.
LEMMA JoinVaultKeeps ==
  ASSUME PairInv, NEW j \in Joiner, JoinVault(j)
  PROVE  PairInv'
  <1>1. PICK V : Types(V)
    BY DEF PairInv
  <1>2. PICK r : r = [joiner[j] EXCEPT !.pc = "installed"]
    BY Zenon
  <1>3. /\ joiner[j].pc = "received" /\ joiner' = [joiner EXCEPT ![j] = r]
        /\ UNCHANGED <<membership, session, approver, minted, yes>>
    BY <1>2 DEF JoinVault
  <1>4. /\ r \in JoinerRow(V) /\ r.pc = "installed" /\ r.transcript = joiner[j].transcript
        /\ r.chain = joiner[j].chain
    BY <1>1, <1>2, Zenon DEF JoinerRow, Types
  <1>5. IsPrefixOf(r.chain, membership) /\ j \in Authorized(r.chain)
    BY <1>3, <1>4, Zenon DEF PairInv, JoinerInv
  <1> QED BY <1>1, <1>3, <1>4, <1>5, JoinerGoesOn, Zenon

\* The session is closed, or the acknowledgement is lost.
LEMMA AcknowledgeKeeps ==
  ASSUME PairInv, NEW j \in Joiner, Acknowledge(j)
  PROVE  PairInv'
  <1>1. PICK V : Types(V)
    BY DEF PairInv
  <1>2. PICK r : r = [joiner[j] EXCEPT !.pc = "done"]
    BY Zenon
  <1>3. PICK u : u = [session[j] EXCEPT !.state = "completed"]
    BY Zenon
  <1>4. /\ joiner[j].pc = "installed" /\ joiner' = [joiner EXCEPT ![j] = r]
        /\ UNCHANGED <<membership, approver, minted, yes>>
        /\ session' = [session EXCEPT ![j] = u] \/ session' = session
    BY <1>2, <1>3 DEF Acknowledge
  <1>5. PICK q : q \in {u, session[j]} /\ session' = [session EXCEPT ![j] = q]
    BY <1>1, <1>4 DEF Types
  <1>6. JoinerInv(j) /\ joiner[j] \in JoinerRow(V) /\ session[j] \in SessionRow(V)
    BY <1>1 DEF PairInv, Types
  <1>7. /\ r \in JoinerRow(V) /\ r.transcript = joiner[j].transcript /\ r.pc = "done"
        /\ r.chain = joiner[j].chain
    BY <1>2, <1>6 DEF JoinerRow
  <1>8. /\ q \in SessionRow(V) /\ q.bundle = session[j].bundle
        /\ q.approver = session[j].approver /\ q.joiner = session[j].joiner
    BY <1>3, <1>5, <1>6 DEF SessionRow
  <1>9. JoinerInv(j)'
    <2>1. joiner'[j] = r /\ session'[j] = q
      BY <1>1, <1>4, <1>5 DEF Types
    <2> QED BY <1>4, <1>6, <1>7, <1>8, <2>1 DEF JoinerInv
  <1> QED BY <1>1, <1>4, <1>5, <1>7, <1>8, <1>9, JoinerSteps, Zenon

-----------------------------------------------------------------------------
(* The approver's steps. *)

\* More events may be around than the state mentions.
LEMMA TypesWith ==
  ASSUME NEW V, Types(V), NEW W, V \subseteq W
  PROVE  Types(W)
  <1>1. JoinerRow(V) \subseteq JoinerRow(W) /\ SessionRow(V) \subseteq SessionRow(W)
    BY SeqGrows DEF JoinerRow, SessionRow
  <1>2. ApproverRow(V) \subseteq ApproverRow(W)
    BY SeqGrows DEF ApproverRow
  <1> QED BY <1>1, <1>2, SMTT(30) DEF Types

\* An approver that goes on without changing the relay.
LEMMA ApproverGoesOn ==
  ASSUME PairInv, NEW V, Types(V), NEW a \in Approver, NEW r \in ApproverRow(V),
         approver' = [approver EXCEPT ![a] = r], membership' = membership, session' = session,
         joiner' = joiner, minted' \in Nat, yes \subseteq yes', ApproverInv(a)',
         \A t \in Transcript : <<"joiner", t>> \in yes' => <<"joiner", t>> \in yes
  PROVE  PairInv'
  <1>1. Types(V)' /\ Grows /\ \A b \in Approver : b # a => approver'[b] = approver[b]
    BY DEF Types, Grows
  <1> QED BY <1>1, StepKeeps

\* An approver whose request ends.
LEMMA DropKeeps ==
  ASSUME PairInv, NEW a \in Approver, Drop(a), membership' = membership, session' = session,
         joiner' = joiner, minted' = minted, yes \subseteq yes',
         \A t \in Transcript : <<"joiner", t>> \in yes' => <<"joiner", t>> \in yes
  PROVE  PairInv'
  <1>1. PICK V : Types(V)
    BY DEF PairInv
  <1>2. approver' = [approver EXCEPT ![a] = IdleApprover] /\ minted' \in Nat
    BY <1>1 DEF Drop, Types
  <1>3. IdleApprover \in ApproverRow(V)
    BY DEF ApproverRow
  <1>4. approver'[a].pc = "idle"
    BY <1>1, <1>2 DEF Types, IdleApprover
  <1>5. ApproverInv(a)'
    BY <1>4 DEF ApproverInv
  <1> QED BY <1>1, <1>2, <1>3, <1>5, ApproverGoesOn, Zenon

\* Which answers an approver at each point of its request relies on.
Relies(t, pc, ok) ==
  /\ pc \in {"awaiting", "syncing", "uploading", "completing", "appending", "finishing"} =>
       <<"approver", t>> \in ok
  /\ pc \in {"syncing", "uploading", "completing", "appending", "finishing"} =>
       <<"joiner", t>> \in ok

\* An approver with a request in progress has a transcript and a joiner.
LEMMA WorkingRow ==
  ASSUME NEW V, Types(V), NEW a \in Approver, approver[a].pc \in Working
  PROVE  /\ approver[a] \in [pc : Working, t : Transcript, chain : Seq(V)]
         /\ Peer(a) \in Joiner /\ Peer(a) = approver[a].t[1]
         /\ approver[a].t \in Transcript /\ approver[a].t # None
  <1>1. approver[a] \in [pc : Working, t : Transcript, chain : Seq(V)]
    BY SMTT(30) DEF Types, ApproverRow, IdleApprover, Working
  <1>2. approver[a].t \in Transcript
    BY <1>1
  <1> QED BY <1>1, <1>2, PairingConstants DEF Peer, Transcript

\* Goto changes the point of the request only.
LEMMA GotoShape ==
  ASSUME NEW V, Types(V), NEW a \in Approver, approver[a].pc \in Working, NEW pc \in Working, Goto(a, pc)
  PROVE  \E r \in ApproverRow(V) :
           /\ approver' = [approver EXCEPT ![a] = r] /\ approver'[a] = r
           /\ r.pc = pc /\ r.t = approver[a].t /\ r.chain = approver[a].chain
  <1>1. PICK r : r = [approver[a] EXCEPT !.pc = pc]
    BY Zenon
  <1>2. approver' = [approver EXCEPT ![a] = r]
    BY <1>1 DEF Goto
  <1>3. approver[a] \in [pc : Working, t : Transcript, chain : Seq(V)]
    BY WorkingRow
  <1>4. /\ r \in [pc : Working, t : Transcript, chain : Seq(V)]
        /\ r.pc = pc /\ r.t = approver[a].t /\ r.chain = approver[a].chain
    BY <1>1, <1>3
  <1>5. r \in ApproverRow(V)
    BY <1>4 DEF ApproverRow, Working
  <1>6. approver'[a] = r
    BY <1>2 DEF Types
  <1> QED BY <1>2, <1>4, <1>5, <1>6, Zenon

\* An approver's request goes on, the answers it relies on being there.
LEMMA GotoKeeps ==
  ASSUME PairInv, NEW a \in Approver, approver[a].pc \in Working, NEW pc \in Working, Goto(a, pc),
         membership' = membership, session' = session, joiner' = joiner, minted' = minted,
         yes \subseteq yes', Relies(approver[a].t, pc, yes'), pc # "appending",
         \A t \in Transcript : <<"joiner", t>> \in yes' => <<"joiner", t>> \in yes
  PROVE  PairInv'
  <1>1. PICK V : Types(V)
    BY DEF PairInv
  <1>2. PICK r \in ApproverRow(V) :
           /\ approver' = [approver EXCEPT ![a] = r] /\ approver'[a] = r
           /\ r.pc = pc /\ r.t = approver[a].t /\ r.chain = approver[a].chain
    BY <1>1, GotoShape, SMTT(30)
  <1>3. minted' \in Nat
    BY <1>1 DEF Types
  <1>4. ApproverInv(a)'
    BY <1>2 DEF ApproverInv, Relies
  <1> QED BY <1>1, <1>2, <1>3, <1>4, ApproverGoesOn, Zenon

\* enroll.Approve makes a new transcript for the joiner.
LEMMA ApproveKeeps ==
  ASSUME PairInv, NEW a \in Approver, NEW j \in Joiner, Approve(a, j)
  PROVE  PairInv'
  <1>1. PICK V : Types(V)
    BY DEF PairInv
  <1>2. PICK r : r = [pc |-> "confirming", t |-> <<j, a, minted + 1>>, chain |-> <<>>]
    BY Zenon
  <1>3. /\ approver' = [approver EXCEPT ![a] = r] /\ minted < MaxApprovals /\ minted' = minted + 1
        /\ UNCHANGED <<membership, session, joiner, yes>>
    BY <1>2 DEF Approve
  <1>4. minted' \in Nat /\ minted + 1 \in 1..MaxApprovals
    BY <1>1, <1>3, PairingConstants, SMTT(30) DEF Types
  <1>5. <<j, a, minted + 1>> \in Transcript
    BY <1>4 DEF Transcript
  <1>6. r \in ApproverRow(V) /\ r.pc = "confirming"
    BY <1>2, <1>5, SMTT(30) DEF ApproverRow, Working
  <1>7. ApproverInv(a)'
    <2>1. approver'[a].pc = "confirming"
      BY <1>1, <1>3, <1>6 DEF Types
    <2> QED BY <2>1 DEF ApproverInv
  <1> QED BY <1>1, <1>3, <1>4, <1>6, <1>7, ApproverGoesOn, Zenon

\* The relay checks the approver against the chain it read.
LEMMA CheckApproverKeeps ==
  ASSUME PairInv, NEW a \in Approver, CheckApprover(a)
  PROVE  PairInv'
  <1>1. /\ approver[a].pc \in Working /\ "checked" \in Working
        /\ UNCHANGED <<membership, session, joiner, yes, minted>>
    BY DEF CheckApprover, At, Working
  <1>2. Relies(approver[a].t, "checked", yes')
    BY DEF Relies
  <1>3. Drop(a) \/ Goto(a, "checked")
    BY DEF CheckApprover
  <1> QED BY <1>1, <1>2, <1>3, GotoKeeps, DropKeeps

\* The daemon keeps the approval and shows the fingerprint.
LEMMA KeepApprovalKeeps ==
  ASSUME PairInv, NEW a \in Approver, KeepApproval(a)
  PROVE  PairInv'
  <1>1. /\ approver[a].pc \in Working /\ "comparing" \in Working
        /\ UNCHANGED <<membership, session, joiner, yes, minted>> /\ Goto(a, "comparing")
    BY DEF KeepApproval, At, Working
  <1>2. Relies(approver[a].t, "comparing", yes')
    BY DEF Relies
  <1> QED BY <1>1, <1>2, GotoKeeps

\* The approver's user says yes.
LEMMA AnswerApproverKeeps ==
  ASSUME PairInv, NEW a \in Approver, AnswerApprover(a)
  PROVE  PairInv'
  <1>1. /\ approver[a].pc \in Working /\ "awaiting" \in Working
        /\ UNCHANGED <<membership, session, joiner, minted>>
        /\ yes' = yes \cup {<<"approver", approver[a].t>>}
    BY DEF AnswerApprover, At, Working
  <1>2. Relies(approver[a].t, "awaiting", yes')
    BY <1>1 DEF Relies
  <1>3. \A t \in Transcript : <<"joiner", t>> \in yes' => <<"joiner", t>> \in yes
    BY <1>1
  <1>4. Drop(a) \/ Goto(a, "awaiting")
    BY DEF AnswerApprover
  <1> QED BY <1>1, <1>2, <1>3, <1>4, GotoKeeps, DropKeeps, Zenon

\* The joiner's confirmation in the session is its user's yes.
LEMMA AwaitJoinerKeeps ==
  ASSUME PairInv, NEW a \in Approver, AwaitJoiner(a)
  PROVE  PairInv'
  <1>1. /\ approver[a].pc = "awaiting" /\ approver[a].pc \in Working /\ "syncing" \in Working
        /\ UNCHANGED <<membership, session, joiner, yes, minted>>
    BY DEF AwaitJoiner, At, Working
  <1>2. CASE Drop(a)
    BY <1>1, <1>2, DropKeeps
  <1>3. CASE session[Peer(a)].joiner = approver[a].t /\ Goto(a, "syncing")
    <2>1. Peer(a) \in Joiner /\ approver[a].t # None
      BY <1>1, WorkingRow DEF PairInv
    <2>2. JoinerInv(Peer(a)) /\ ApproverInv(a)
      BY <2>1 DEF PairInv
    <2>3. Relies(approver[a].t, "syncing", yes')
      BY <1>1, <1>3, <2>1, <2>2 DEF Relies, JoinerInv, ApproverInv
    <2> QED BY <1>1, <1>3, <2>3, GotoKeeps
  <1> QED BY <1>2, <1>3 DEF AwaitJoiner

\* syncedSnapshot takes the relay's chain or is refused.
LEMMA SyncBeforeKeeps ==
  ASSUME PairInv, NEW a \in Approver, SyncBefore(a)
  PROVE  PairInv'
  <1>1. PICK V : Types(V)
    BY DEF PairInv
  <1>2. PICK r : r = [approver[a] EXCEPT !.pc = "uploading", !.chain = membership]
    OBVIOUS
  <1>3. /\ approver[a].pc = "syncing" /\ approver[a].pc \in Working
        /\ UNCHANGED <<membership, session, joiner, yes, minted>>
        /\ approver' = [approver EXCEPT ![a] = r] \/ Drop(a)
    BY <1>2, Zenon DEF SyncBefore, At, Working, Drop
  <1>4. CASE Drop(a)
    BY <1>3, <1>4, DropKeeps
  <1>5. CASE approver' = [approver EXCEPT ![a] = r]
    <2>1. approver[a] \in [pc : Working, t : Transcript, chain : Seq(V)]
      BY <1>1, <1>3, WorkingRow
    <2>2. membership \in Seq(V) /\ minted \in Nat /\ approver'[a] = r
      BY <1>1, <1>5 DEF Types
    <2>3. r \in ApproverRow(V) /\ r.pc = "uploading" /\ r.t = approver[a].t
      BY <1>2, <2>1, <2>2, Zenon DEF ApproverRow, Working
    <2>4. ApproverInv(a)'
      BY <1>3, <2>2, <2>3 DEF ApproverInv, PairInv
    <2> QED BY <1>1, <1>3, <1>5, <2>2, <2>3, <2>4, ApproverGoesOn, Zenon
  <1> QED BY <1>3, <1>4, <1>5

\* A step that writes a row of the relay in use, with at most the approver's
\* own state beside it.
LEMMA RowStep ==
  ASSUME PairInv, NEW V, Types(V), NEW k \in Joiner, NEW q \in SessionRow(V),
         session' = [session EXCEPT ![k] = q], session[k].state # "none",
         q.joiner = session[k].joiner, q.approver # session[k].approver => q.approver[1] = k,
         session[k].bundle # None => q.bundle # None,
         approver' \in [Approver -> ApproverRow(V)],
         \A a \in Approver : ApproverInv(a)' \/ approver'[a] = approver[a],
         membership' = membership, joiner' = joiner, yes' = yes, minted' = minted
  PROVE  PairInv'
  <1>1. /\ session'[k] = q /\ joiner'[k] = joiner[k]
        /\ \A j \in Joiner : j # k => session'[j] = session[j] /\ joiner'[j] = joiner[j]
    BY DEF Types
  <1>2. Types(V)' /\ Grows
    BY DEF Types, Grows
  <1>3. JoinerInv(k)'
    <2>1. JoinerInv(k) /\ joiner[k].pc # "new"
      BY SMTT(30) DEF PairInv, JoinerInv, NoSession
    <2> QED BY <1>1, <2>1, SMTT(30) DEF JoinerInv
  <1> QED BY <1>1, <1>2, <1>3, StepKeeps

\* A session in use exists, is open and has not expired.
LEMMA InUse ==
  ASSUME NEW j \in Joiner, Usable(j)
  PROVE  session[j].state # "none" /\ session[j].state # "completed" /\ ~session[j].expired
  BY DEF Usable, StateOf

\* An approver's request that writes its joiner's session.
LEMMA ApproverWrites ==
  ASSUME PairInv, NEW V, Types(V), NEW a \in Approver, approver[a].pc \in Working,
         NEW pc \in Working, Goto(a, pc), NEW q \in SessionRow(V), Usable(Peer(a)),
         session' = [session EXCEPT ![Peer(a)] = q],
         q.joiner = session[Peer(a)].joiner,
         q.approver # session[Peer(a)].approver => q.approver = approver[a].t,
         session[Peer(a)].bundle # None => q.bundle # None,
         Relies(approver[a].t, pc, yes), pc = "appending" => q.bundle # None,
         membership' = membership, joiner' = joiner, yes' = yes, minted' = minted
  PROVE  PairInv'
  <1>1. PICK k : k = Peer(a)
    OBVIOUS
  <1>2. k \in Joiner /\ k = approver[a].t[1]
    BY <1>1, WorkingRow
  <1>3. PICK r \in ApproverRow(V) :
           /\ approver' = [approver EXCEPT ![a] = r] /\ approver'[a] = r
           /\ r.pc = pc /\ r.t = approver[a].t /\ r.chain = approver[a].chain
    BY GotoShape, SMTT(30)
  <1>4. /\ approver' \in [Approver -> ApproverRow(V)] /\ session'[k] = q
        /\ \A b \in Approver : b # a => approver'[b] = approver[b]
    BY <1>1, <1>2, <1>3 DEF Types
  <1>5. ApproverInv(a)'
    BY <1>2, <1>3, <1>4 DEF ApproverInv, Relies, Peer
  <1>6. session[k].state # "none"
    BY <1>1, <1>2, InUse
  <1> QED BY <1>1, <1>2, <1>4, <1>5, <1>6, RowStep, Zenon

\* The relay takes the approval into the session.
LEMMA ConfirmApproverKeeps ==
  ASSUME PairInv, NEW a \in Approver, ConfirmApprover(a)
  PROVE  PairInv'
  <1>1. /\ approver[a].pc \in Working /\ "approved" \in Working
        /\ UNCHANGED <<membership, joiner, yes, minted>>
    BY DEF ConfirmApprover, At, Working
  <1>2. CASE Drop(a) /\ UNCHANGED session
    BY <1>1, <1>2, DropKeeps
  <1>3. CASE /\ Usable(Peer(a)) /\ Goto(a, "approved")
             /\ session' = [session EXCEPT ![Peer(a)].approver = approver[a].t, ![Peer(a)].state = "confirming"]
    <2>1. PICK V : Types(V)
      BY DEF PairInv
    <2>2. PICK q : q = [session[Peer(a)] EXCEPT !.approver = approver[a].t, !.state = "confirming"]
      OBVIOUS
    <2>3. session' = [session EXCEPT ![Peer(a)] = q]
      BY <1>3, <2>2, Zenon
    <2>4. Peer(a) \in Joiner /\ approver[a].t \in Transcript
      BY <1>1, <2>1, WorkingRow
    <2>5. session[Peer(a)] \in SessionRow(V)
      BY <2>1, <2>4 DEF Types
    <2>6. /\ q \in SessionRow(V) /\ q.joiner = session[Peer(a)].joiner
          /\ q.approver = approver[a].t /\ q.bundle = session[Peer(a)].bundle
      BY <2>2, <2>4, <2>5, Zenon DEF SessionRow, TranscriptOrNone
    <2>7. Relies(approver[a].t, "approved", yes)
      BY DEF Relies
    <2> QED BY <1>1, <1>3, <2>1, <2>3, <2>6, <2>7, ApproverWrites, Zenon
  <1> QED BY <1>2, <1>3 DEF ConfirmApprover

\* The relay takes the snapshot.
LEMMA PutSnapshotKeeps ==
  ASSUME PairInv, NEW a \in Approver, PutSnapshot(a)
  PROVE  PairInv'
  <1>1. /\ approver[a].pc = "uploading" /\ approver[a].pc \in Working /\ "completing" \in Working
        /\ UNCHANGED <<membership, joiner, yes, minted>>
    BY DEF PutSnapshot, At, Working
  <1>2. CASE Drop(a) /\ UNCHANGED session
    BY <1>1, <1>2, DropKeeps
  <1>3. CASE /\ Open(Peer(a)) /\ Goto(a, "completing")
             /\ session' = [session EXCEPT ![Peer(a)].snapshot = approver[a].t]
    <2>1. PICK V : Types(V)
      BY DEF PairInv
    <2>2. PICK q : q = [session[Peer(a)] EXCEPT !.snapshot = approver[a].t]
      BY Zenon
    <2>3. session' = [session EXCEPT ![Peer(a)] = q] /\ Usable(Peer(a))
      BY <1>3, <2>2 DEF Open
    <2>4. Peer(a) \in Joiner /\ approver[a].t \in Transcript
      BY <1>1, <2>1, WorkingRow
    <2>5. session[Peer(a)] \in SessionRow(V)
      BY <2>1, <2>4 DEF Types
    <2>6. /\ q \in SessionRow(V) /\ q.joiner = session[Peer(a)].joiner
          /\ q.approver = session[Peer(a)].approver /\ q.bundle = session[Peer(a)].bundle
      BY <2>2, <2>4, <2>5 DEF SessionRow, TranscriptOrNone
    <2>7. Relies(approver[a].t, "completing", yes)
      BY <1>1 DEF Relies, PairInv, ApproverInv
    <2> QED BY <1>1, <1>3, <2>1, <2>3, <2>6, <2>7, ApproverWrites, Zenon
  <1> QED BY <1>2, <1>3 DEF PutSnapshot

\* The relay takes the event and the bundle, which stays.
LEMMA CompleteKeeps ==
  ASSUME PairInv, NEW a \in Approver, Complete(a)
  PROVE  PairInv'
  <1>1. /\ approver[a].pc = "completing" /\ approver[a].pc \in Working /\ "appending" \in Working
        /\ UNCHANGED <<membership, joiner, yes, minted>>
    BY DEF Complete, At, Working
  <1>2. CASE Drop(a) /\ UNCHANGED session
    BY <1>1, <1>2, DropKeeps
  <1>3. CASE /\ Open(Peer(a)) /\ Goto(a, "appending")
             /\ session' = [session EXCEPT ![Peer(a)].bundle = approver[a].t, ![Peer(a)].event = Event(a)]
    <2>1. PICK U : Types(U)
      BY DEF PairInv
    <2>2. PICK V : Types(V) /\ Event(a) \in V
      BY <2>1, TypesWith, U \subseteq U \cup {Event(a)}, Event(a) \in U \cup {Event(a)}, Zenon
    <2>3. PICK q : q = [session[Peer(a)] EXCEPT !.bundle = approver[a].t, !.event = Event(a)]
      OBVIOUS
    <2>4. session' = [session EXCEPT ![Peer(a)] = q] /\ Usable(Peer(a))
      BY <1>3, <2>3, Zenon DEF Open
    <2>5. Peer(a) \in Joiner /\ approver[a].t \in Transcript /\ approver[a].t # None
      BY <1>1, <2>2, WorkingRow
    <2>6. session[Peer(a)] \in SessionRow(V)
      BY <2>2, <2>5 DEF Types
    <2>7. /\ q \in SessionRow(V) /\ q.joiner = session[Peer(a)].joiner
          /\ q.approver = session[Peer(a)].approver /\ q.bundle # None
      BY <2>2, <2>3, <2>5, <2>6, Zenon DEF SessionRow, TranscriptOrNone
    <2>8. Relies(approver[a].t, "appending", yes)
      BY <1>1 DEF Relies, PairInv, ApproverInv
    <2> QED BY <1>1, <1>3, <2>2, <2>4, <2>7, <2>8, ApproverWrites, Zenon
  <1> QED BY <1>2, <1>3 DEF Complete

\* A step that appends an event to the relay's chain.
LEMMA ChainStep ==
  ASSUME PairInv, NEW V, Types(V), NEW e \in V, membership' = Append(membership, e),
         approver' \in [Approver -> ApproverRow(V)],
         \A a \in Approver : ApproverInv(a)' \/ approver'[a] = approver[a],
         session' = session, joiner' = joiner, yes' = yes, minted' = minted
  PROVE  PairInv'
  <1>1. Types(V)' /\ Grows
    BY SMTT(30) DEF Types, Grows
  <1> QED BY <1>1, StepKeeps

\* The relay appends the enrolment or refuses it.
LEMMA AppendEventKeeps ==
  ASSUME PairInv, NEW a \in Approver, AppendEvent(a)
  PROVE  PairInv'
  <1>1. /\ approver[a].pc = "appending" /\ approver[a].pc \in Working /\ "finishing" \in Working
        /\ UNCHANGED <<session, joiner, yes, minted>>
    BY DEF AppendEvent, At, Working
  <1>2. CASE Drop(a) /\ UNCHANGED membership
    BY <1>1, <1>2, DropKeeps
  <1>3. CASE membership' = Append(membership, Event(a)) /\ Goto(a, "finishing")
    <2>1. PICK U : Types(U)
      BY DEF PairInv
    <2>2. PICK V : Types(V) /\ Event(a) \in V
      BY <2>1, TypesWith, U \subseteq U \cup {Event(a)}, Event(a) \in U \cup {Event(a)}, Zenon
    <2>3. PICK r \in ApproverRow(V) :
             /\ approver' = [approver EXCEPT ![a] = r] /\ approver'[a] = r
             /\ r.pc = "finishing" /\ r.t = approver[a].t /\ r.chain = approver[a].chain
      BY <1>1, <1>3, <2>2, GotoShape, SMTT(30)
    <2>4. /\ approver' \in [Approver -> ApproverRow(V)]
          /\ \A b \in Approver : b # a => approver'[b] = approver[b]
      BY <2>2, <2>3 DEF Types
    <2>5. ApproverInv(a)'
      BY <1>1, <2>3, SMTT(30) DEF ApproverInv, PairInv
    <2> QED BY <1>1, <1>3, <2>2, <2>4, <2>5, ChainStep
  <1> QED BY <1>2, <1>3 DEF AppendEvent

\* A revocation from another device.
LEMMA RevokeKeeps ==
  ASSUME PairInv, NEW a \in Approver, NEW x \in Device, RevokeFromElsewhere(a, x)
  PROVE  PairInv'
  <1>1. PICK U : Types(U)
    BY DEF PairInv
  <1>2. PICK e : e = Revoke(membership, a, x)
    OBVIOUS
  <1>3. PICK V : Types(V) /\ e \in V
    BY <1>1, TypesWith, U \subseteq U \cup {e}, e \in U \cup {e}, Zenon
  <1>4. membership' = Append(membership, e) /\ UNCHANGED <<session, joiner, approver, yes, minted>>
    BY <1>2 DEF RevokeFromElsewhere
  <1>5. approver' \in [Approver -> ApproverRow(V)]
    BY <1>3, <1>4 DEF Types
  <1> QED BY <1>3, <1>4, <1>5, ChainStep

\* A request that is over, or was stopped.
LEMMA FinishDeliveryKeeps ==
  ASSUME PairInv, NEW a \in Approver, FinishDelivery(a) \/ StopApprover(a)
  PROVE  PairInv'
  <1>1. Drop(a) /\ UNCHANGED <<membership, session, joiner, yes, minted>>
    BY DEF FinishDelivery, StopApprover
  <1> QED BY <1>1, DropKeeps

\* A session's time passes.
LEMMA ExpireKeeps ==
  ASSUME PairInv, NEW j \in Joiner, Expire(j)
  PROVE  PairInv'
  <1>1. PICK V : Types(V)
    BY DEF PairInv
  <1>2. PICK q : q = [session[j] EXCEPT !.expired = TRUE]
    BY Zenon
  <1>3. /\ session[j].state # "none" /\ session' = [session EXCEPT ![j] = q]
        /\ UNCHANGED <<membership, joiner, approver, yes, minted>>
    BY <1>2 DEF Expire
  <1>4. session[j] \in SessionRow(V) /\ approver' \in [Approver -> ApproverRow(V)]
    BY <1>1, <1>3 DEF Types
  <1>5. /\ q \in SessionRow(V) /\ q.joiner = session[j].joiner
        /\ q.approver = session[j].approver /\ q.bundle = session[j].bundle
    BY <1>2, <1>4, Zenon DEF SessionRow
  <1> QED BY <1>1, <1>3, <1>4, <1>5, RowStep, Zenon

\* A step that leaves all of this alone.
LEMMA IdleKeeps ==
  ASSUME PairInv, UNCHANGED <<membership, session, joiner, approver, yes, minted>>
  PROVE  PairInv'
  <1>1. PICK V : Types(V)
    BY DEF PairInv
  <1>2. Types(V)' /\ Grows
    BY <1>1 DEF Types, Grows
  <1> QED BY <1>1, <1>2, StepKeeps

-----------------------------------------------------------------------------
(* Every step. *)

\* The invariant holds before anyone pairs.
LEMMA InitPair == Init => PairInv
  <1> SUFFICES ASSUME Init PROVE PairInv
    OBVIOUS
  <1>1. PICK V : StartChain \in Seq(V) /\ None \in V
    <2>1. PICK U : StartChain \in Seq(U)
      BY PairingConstants
    <2> QED BY <2>1, SeqGrows, U \subseteq U \cup {None}, None \in U \cup {None}, Zenon
  <1>2. NoSession \in SessionRow(V)
    BY <1>1 DEF NoSession, SessionRow, TranscriptOrNone
  <1>3. Types(V)
    BY <1>1, <1>2, SMTT(30) DEF Types, Init, JoinerRow, ApproverRow, TranscriptOrNone
  <1>4. ASSUME NEW j \in Joiner PROVE JoinerInv(j)
    <2>1. joiner[j].pc = "new" /\ joiner[j].transcript = None /\ session[j] = NoSession
      BY DEF Init
    <2> QED BY <2>1, SMTT(30) DEF JoinerInv, NoSession
  <1>5. ASSUME NEW a \in Approver PROVE ApproverInv(a)
    <2>1. approver[a].pc = "idle"
      BY DEF Init, IdleApprover
    <2> QED BY <2>1 DEF ApproverInv
  <1>6. YesInv
    BY DEF YesInv, Init
  <1> QED BY <1>3, <1>4, <1>5, <1>6 DEF PairInv

\* Every step keeps the invariant.
LEMMA NextPair == PairInv /\ [Next]_pairVars => PairInv'
  <1> SUFFICES ASSUME PairInv, [Next]_pairVars PROVE PairInv'
    OBVIOUS
  <1>1. ASSUME NEW j \in Joiner, JoinerStep(j) PROVE PairInv'
    BY <1>1, BeginKeeps, LearnTranscriptKeeps, ConfirmJoinerKeeps, ReceiveKeeps, JoinVaultKeeps,
       AcknowledgeKeeps DEF JoinerStep
  <1>2. ASSUME NEW j \in Joiner, Expire(j) PROVE PairInv'
    BY <1>2, ExpireKeeps
  <1>3. ASSUME NEW j \in Joiner, StopJoiner(j) PROVE PairInv'
    BY <1>3, FailKeeps DEF StopJoiner
  <1>4. ASSUME NEW a \in Approver, ApproverStep(a) PROVE PairInv'
    BY <1>4, CheckApproverKeeps, ConfirmApproverKeeps, KeepApprovalKeeps, AnswerApproverKeeps,
       AwaitJoinerKeeps, SyncBeforeKeeps, PutSnapshotKeeps, CompleteKeeps, AppendEventKeeps,
       FinishDeliveryKeeps DEF ApproverStep
  <1>5. ASSUME NEW a \in Approver, StopApprover(a) PROVE PairInv'
    BY <1>5, FinishDeliveryKeeps
  <1>6. ASSUME NEW a \in Approver, ForgetApprovals(a) PROVE PairInv'
    BY <1>6, IdleKeeps DEF ForgetApprovals
  <1>7. ASSUME NEW a \in Approver, NEW j \in Joiner, Approve(a, j) PROVE PairInv'
    BY <1>7, ApproveKeeps
  <1>8. ASSUME NEW a \in Approver, NEW x \in Device, RevokeFromElsewhere(a, x) PROVE PairInv'
    BY <1>8, RevokeKeeps
  <1>9. CASE UNCHANGED pairVars
    BY <1>9, IdleKeeps DEF pairVars
  <1> QED BY <1>1, <1>2, <1>3, <1>4, <1>5, <1>6, <1>7, <1>8, <1>9 DEF Next

(***************************************************************************)
(* The inductive invariant holds throughout: the processes of joiners,     *)
(* approvers and relay (enroll.Joiner, enroll.Approver, relay/pairing.go)  *)
(* stay tied to the same transcripts and the same answers of their users.  *)
(***************************************************************************)
THEOREM PairingSafe == Spec => []PairInv
  BY InitPair, NextPair, PTL DEF Spec

(***************************************************************************)
(* A joiner that installed the vault installed a chain that the relay has  *)
(* and that authorizes it (Joiner.Receive before vault.Join), whoever      *)
(* stops, expires or is revoked meanwhile.                                 *)
(***************************************************************************)
THEOREM InstalledAreMembers == Spec => []InstalledIsMember
  <1>1. PairInv => InstalledIsMember
    BY Zenon DEF PairInv, JoinerInv, InstalledIsMember, Held
  <1> QED BY <1>1, PairingSafe, PTL

-----------------------------------------------------------------------------
(* The steps seen through the mapping to PairingPromise. *)

SentTo(j) == session[j].bundle # None
Closed(j) == session[j].state = "completed"
Members == Enrolled(membership) \cap Joiner

SameAgreed == \A j \in Joiner : AgreedBy(j)' = AgreedBy(j)
SameSent == \A j \in Joiner : SentTo(j)' <=> SentTo(j)
SameClosed == \A j \in Joiner : Closed(j)' <=> Closed(j)
SameHeld == \A j \in Joiner : Held(j)' <=> Held(j)

\* The mapping of PairingPromise, named once.
LEMMA PromiseSame ==
  /\ SameAgreed => [j \in Joiner |-> AgreedBy(j)]' = [j \in Joiner |-> AgreedBy(j)]
  /\ SameSent => {j \in Joiner : session[j].bundle # None}' = {j \in Joiner : session[j].bundle # None}
  /\ SameClosed => {j \in Joiner : session[j].state = "completed"}' =
                     {j \in Joiner : session[j].state = "completed"}
  /\ SameHeld => {j \in Joiner : Held(j)}' = {j \in Joiner : Held(j)}
  <1>1. SameAgreed => [j \in Joiner |-> AgreedBy(j)]' = [j \in Joiner |-> AgreedBy(j)]
    BY DEF SameAgreed
  <1>2. SameSent => {j \in Joiner : session[j].bundle # None}' = {j \in Joiner : session[j].bundle # None}
    BY DEF SameSent, SentTo
  <1>3. SameClosed => {j \in Joiner : session[j].state = "completed"}' =
                        {j \in Joiner : session[j].state = "completed"}
    BY DEF SameClosed, Closed
  <1>4. SameHeld => {j \in Joiner : Held(j)}' = {j \in Joiner : Held(j)}
    BY DEF SameHeld
  <1> QED BY <1>1, <1>2, <1>3, <1>4

\* A step nothing of the promise can see.
LEMMA SilentStep ==
  ASSUME SameAgreed, SameSent, Members' = Members, SameHeld, SameClosed
  PROVE  UNCHANGED Promise!vars
  BY PromiseSame DEF Promise!vars, Members

\* Both users have now agreed on one transcript.
LEMMA AgreeStep ==
  ASSUME NEW j \in Joiner, NEW t \in Transcript, AgreedBy(j) = None, AgreedBy(j)' = t,
         \A k \in Joiner : k # j => AgreedBy(k)' = AgreedBy(k),
         SameSent, Members' = Members, SameHeld, SameClosed
  PROVE  Promise!Agree(j)
  <1>1. [k \in Joiner |-> AgreedBy(k)]' = [[k \in Joiner |-> AgreedBy(k)] EXCEPT ![j] = t]
    BY Zenon
  <1> QED BY <1>1, PromiseSame, Zenon DEF Promise!Agree, Members

\* The keys are sent to a joiner whose users agreed.
LEMMA SendStep ==
  ASSUME NEW j \in Joiner, AgreedBy(j) # None, SentTo(j)',
         \A k \in Joiner : k # j => (SentTo(k)' <=> SentTo(k)),
         SameAgreed, Members' = Members, SameHeld, SameClosed
  PROVE  Promise!Send(j)
  <1>1. {k \in Joiner : session[k].bundle # None}' = {k \in Joiner : session[k].bundle # None} \cup {j}
    BY DEF SentTo
  <1> QED BY <1>1, PromiseSame DEF Promise!Send, Members

\* The chain enrols a joiner whose keys were sent.
LEMMA AdmitStep ==
  ASSUME NEW j \in Joiner, SentTo(j), Members' = Members \cup {j},
         SameAgreed, SameSent, SameHeld, SameClosed
  PROVE  Promise!Admit(j)
  BY PromiseSame DEF Promise!Admit, Members, SentTo

\* A member holds the vault.
LEMMA HoldStep ==
  ASSUME NEW j \in Joiner, j \in Members, Held(j)',
         \A k \in Joiner : k # j => (Held(k)' <=> Held(k)),
         SameAgreed, SameSent, Members' = Members, SameClosed
  PROVE  Promise!Hold(j)
  <1>1. {k \in Joiner : Held(k)}' = {k \in Joiner : Held(k)} \cup {j}
    OBVIOUS
  <1> QED BY <1>1, PromiseSame DEF Promise!Hold, Members

\* The session of a joiner that holds the vault is closed.
LEMMA CloseStep ==
  ASSUME NEW j \in Joiner, Held(j), Closed(j)',
         \A k \in Joiner : k # j => (Closed(k)' <=> Closed(k)),
         SameAgreed, SameSent, Members' = Members, SameHeld
  PROVE  Promise!Close(j)
  <1>1. {k \in Joiner : session[k].state = "completed"}' =
          {k \in Joiner : session[k].state = "completed"} \cup {j}
    BY DEF Closed
  <1> QED BY <1>1, PromiseSame DEF Promise!Close, Members

PromiseStep == Promise!Next \/ UNCHANGED Promise!vars

\* Both users can only have agreed on the joiner's own transcript.
AgreedOwn(j) ==
  IF joiner[j].transcript # None /\ AgreedOn(joiner[j].transcript)
  THEN AgreedBy(j) = joiner[j].transcript ELSE AgreedBy(j) = None

AllAgreedOwn == \A j \in Joiner : AgreedOwn(j)

\* Every state of the invariant has agreed transcripts of that kind only.
LEMMA AgreedIsOwn == PairInv => AllAgreedOwn
  <1> SUFFICES ASSUME PairInv, NEW j \in Joiner PROVE AgreedOwn(j)
    BY DEF AllAgreedOwn
  <1> DEFINE T == Agreements(j)
  <1>1. AgreedBy(j) = IF T = {} THEN None ELSE CHOOSE t \in T : TRUE
    BY DEF AgreedBy
  <1>2. \A t \in T : t = joiner[j].transcript
    BY DEF Agreements, AgreedOn, PairInv, YesInv
  <1>3. CASE T = {}
    <2>1. joiner[j].transcript \in Transcript => joiner[j].transcript[1] = j
      BY PairingConstants, Zenon DEF PairInv, JoinerInv
    <2>2. joiner[j].transcript \in Transcript \/ joiner[j].transcript = None
      BY DEF PairInv, Types, JoinerRow, TranscriptOrNone
    <2> QED BY <1>1, <1>3, <2>1, <2>2 DEF AgreedOwn, Agreements
  <1>4. CASE T # {}
    <2>1. PICK t \in T : t = AgreedBy(j)
      BY <1>1, <1>4
    <2> QED BY <1>2, <2>1, PairingConstants DEF AgreedOwn, Agreements
  <1> QED BY <1>3, <1>4

\* A user's yes to a transcript the joiner has.
LEMMA YesStep ==
  ASSUME PairInv, PairInv', NEW t \in Transcript, NEW side, yes' = yes \cup {<<side, t>>},
         joiner[t[1]].transcript = t, \A k \in Joiner : joiner'[k].transcript = joiner[k].transcript,
         SameSent, membership' = membership, SameHeld, SameClosed
  PROVE  PromiseStep
  <1> DEFINE j == t[1]
  <1>1. j \in Joiner /\ t # None
    BY PairingConstants DEF Transcript
  <1>2. Members' = Members
    BY DEF Members
  <1>3. ASSUME NEW k \in Joiner, k # j PROVE AgreedBy(k)' = AgreedBy(k)
    <2>1. \A u \in Transcript : u[1] = k => (AgreedOn(u)' <=> AgreedOn(u))
      BY <1>3 DEF AgreedOn
    <2>2. Agreements(k)' = Agreements(k)
      BY <2>1 DEF Agreements
    <2> QED BY <2>2, SMTT(30) DEF AgreedBy
  <1>4. IF AgreedOn(t) THEN AgreedBy(j) = t ELSE AgreedBy(j) = None
    BY <1>1, AgreedIsOwn DEF AllAgreedOwn, AgreedOwn
  <1>5. IF AgreedOn(t)' THEN AgreedBy(j)' = t ELSE AgreedBy(j)' = None
    <2>1. joiner'[j].transcript = t
      BY <1>1
    <2>2. AllAgreedOwn'
      BY AgreedIsOwn, PairInv', PTL
    <2>3. AgreedOwn(j)'
      BY <1>1, <2>2 DEF AllAgreedOwn
    <2> QED BY <1>1, <2>1, <2>3 DEF AgreedOwn, AgreedOn
  <1>6. AgreedOn(t) => AgreedOn(t)'
    BY DEF AgreedOn
  <1>7. CASE AgreedBy(j)' = AgreedBy(j)
    <2>1. SameAgreed
      BY <1>3, <1>7 DEF SameAgreed
    <2> QED BY <1>2, <2>1, SilentStep DEF PromiseStep
  <1>8. CASE AgreedBy(j) = None /\ AgreedBy(j)' = t
    <2>1. Promise!Agree(j)
      BY <1>1, <1>2, <1>3, <1>8, AgreeStep
    <2> QED BY <1>1, <2>1 DEF PromiseStep, Promise!Next
  <1> QED BY <1>1, <1>4, <1>5, <1>6, <1>7, <1>8

\* Without a new answer nobody agrees on anything new.
LEMMA SameYes ==
  ASSUME yes' = yes
  PROVE  SameAgreed
  BY SMTT(30) DEF SameAgreed, AgreedBy, Agreements, AgreedOn

\* Without a new answer, event, bundle, install or close a step is silent.
LEMMA QuietStep ==
  ASSUME yes' = yes, membership' = membership, SameSent, SameHeld, SameClosed
  PROVE  PromiseStep
  BY SameYes, SilentStep DEF PromiseStep, Members

\* Sessions that do not change show nothing new.
LEMMA SameSessions ==
  ASSUME session' = session
  PROVE  SameSent /\ SameClosed
  BY DEF SameSent, SameClosed, SentTo, Closed

\* Joiners that do not change show nothing new.
LEMMA SameJoiners ==
  ASSUME joiner' = joiner
  PROVE  SameHeld
  BY DEF SameHeld, Held

\* A step that writes one row of the relay, or one joiner's state.
LEMMA RowView ==
  ASSUME PairInv, NEW j \in Joiner, NEW q, session' = [session EXCEPT ![j] = q]
  PROVE  /\ \A k \in Joiner : k # j => (SentTo(k)' <=> SentTo(k)) /\ (Closed(k)' <=> Closed(k))
         /\ SentTo(j)' <=> q.bundle # None
         /\ Closed(j)' <=> q.state = "completed"
  <1>1. session'[j] = q /\ \A k \in Joiner : k # j => session'[k] = session[k]
    BY DEF PairInv, Types
  <1> QED BY <1>1 DEF SentTo, Closed

\* A step that writes one joiner's state shows at most that joiner's install.
LEMMA JoinerView ==
  ASSUME PairInv, NEW j \in Joiner, NEW r, joiner' = [joiner EXCEPT ![j] = r]
  PROVE  /\ \A k \in Joiner : k # j => joiner'[k] = joiner[k] /\ (Held(k)' <=> Held(k))
         /\ joiner'[j] = r /\ (Held(j)' <=> r.pc \in {"installed", "done"})
  <1>1. joiner'[j] = r /\ \A k \in Joiner : k # j => joiner'[k] = joiner[k]
    BY DEF PairInv, Types
  <1> QED BY <1>1 DEF Held

\* Sessions and joiners are records of their types.
LEMMA RowFields ==
  ASSUME PairInv, NEW j \in Joiner
  PROVE  /\ \E V : session[j] \in SessionRow(V)
         /\ \E V : joiner[j] \in JoinerRow(V)
  BY DEF PairInv, Types

\* A new session is nothing the promise sees.
LEMMA BeginPromise ==
  ASSUME PairInv, NEW j \in Joiner, Begin(j)
  PROVE  PromiseStep
  <1>1. PICK r : r = [joiner[j] EXCEPT !.pc = "waiting"]
    BY Zenon
  <1>2. PICK q : q = [NoSession EXCEPT !.state = "offered"]
    BY Zenon
  <1>3. /\ joiner[j].pc = "new" /\ joiner' = [joiner EXCEPT ![j] = r] /\ session' = [session EXCEPT ![j] = q]
        /\ membership' = membership /\ yes' = yes
    BY <1>1, <1>2 DEF Begin
  <1>4. session[j] = NoSession
    BY <1>3, Zenon DEF PairInv, JoinerInv
  <1>5. ~SentTo(j) /\ ~Closed(j) /\ q.bundle = None /\ q.state = "offered"
    BY <1>2, <1>4, SMTT(30) DEF NoSession, SentTo, Closed
  <1>6. r.pc = "waiting" /\ ~Held(j)
    BY <1>1, <1>3, RowFields DEF JoinerRow, Held
  <1>7. SameSent /\ SameClosed
    BY <1>3, <1>5, RowView, Zenon DEF SameSent, SameClosed
  <1>8. SameHeld
    BY <1>3, <1>6, JoinerView, Zenon DEF SameHeld
  <1> QED BY <1>3, <1>7, <1>8, QuietStep

\* A joiner that goes on without the vault is nothing the promise sees.
LEMMA NotHeldPromise ==
  ASSUME PairInv, NEW j \in Joiner, ~Held(j), NEW r, r.pc \notin {"installed", "done"},
         joiner' = [joiner EXCEPT ![j] = r], session' = session, membership' = membership, yes' = yes
  PROVE  PromiseStep
  <1>1. SameHeld
    BY JoinerView, Zenon DEF SameHeld
  <1> QED BY <1>1, SameSessions, QuietStep

\* Neither is one that gives up.
LEMMA FailPromise ==
  ASSUME PairInv, NEW j \in Joiner, ~Held(j), Fail(j), session' = session, membership' = membership,
         yes' = yes
  PROVE  PromiseStep
  <1>1. PICK r : r = [joiner[j] EXCEPT !.pc = "failed"]
    BY Zenon
  <1>2. joiner' = [joiner EXCEPT ![j] = r] /\ r.pc = "failed"
    BY <1>1, RowFields DEF Fail, JoinerRow
  <1> QED BY <1>2, NotHeldPromise, Zenon

\* Neither is learning the transcript.
LEMMA LearnTranscriptPromise ==
  ASSUME PairInv, NEW j \in Joiner, LearnTranscript(j)
  PROVE  PromiseStep
  <1>1. ~Held(j) /\ session' = session /\ membership' = membership /\ yes' = yes
    BY DEF LearnTranscript, Held
  <1>2. PICK r : r = [joiner[j] EXCEPT !.pc = "comparing", !.transcript = session[j].approver]
    OBVIOUS
  <1>3. r.pc = "comparing"
    BY <1>2, RowFields DEF JoinerRow
  <1>4. Fail(j) \/ joiner' = [joiner EXCEPT ![j] = r]
    BY <1>2, Zenon DEF LearnTranscript
  <1> QED BY <1>1, <1>3, <1>4, FailPromise, NotHeldPromise

\* Neither is receiving the delivery, which is not installed yet.
LEMMA ReceivePromise ==
  ASSUME PairInv, NEW j \in Joiner, Receive(j)
  PROVE  PromiseStep
  <1>1. ~Held(j) /\ session' = session /\ membership' = membership /\ yes' = yes
    BY DEF Receive, Held
  <1>2. PICK r : r = [joiner[j] EXCEPT !.pc = "received", !.chain = membership]
    OBVIOUS
  <1>3. r.pc = "received"
    BY <1>2, RowFields DEF JoinerRow
  <1>4. Fail(j) \/ joiner' = [joiner EXCEPT ![j] = r]
    BY <1>2, Zenon DEF Receive
  <1> QED BY <1>1, <1>3, <1>4, FailPromise, NotHeldPromise

\* The joiner's yes agrees, when the approver's was there.
LEMMA ConfirmJoinerPromise ==
  ASSUME PairInv, PairInv', NEW j \in Joiner, ConfirmJoiner(j)
  PROVE  PromiseStep
  <1> DEFINE t == joiner[j].transcript
  <1>1. joiner[j].pc = "comparing" /\ yes' = yes \cup {<<"joiner", t>>} /\ membership' = membership
    BY DEF ConfirmJoiner
  <1>2. JoinerInv(j) /\ t \in TranscriptOrNone
    BY RowFields DEF PairInv, JoinerRow
  <1>3. t \in Transcript /\ t[1] = j
    BY <1>1, <1>2 DEF JoinerInv, TranscriptOrNone
  <1>4. SameHeld /\ \A k \in Joiner : joiner'[k].transcript = joiner[k].transcript
    <2>1. PICK r : /\ r = [joiner[j] EXCEPT !.pc = "receiving"] \/ r = [joiner[j] EXCEPT !.pc = "failed"]
                   /\ joiner' = [joiner EXCEPT ![j] = r]
      BY Zenon DEF ConfirmJoiner, Fail
    <2>2. r.transcript = t /\ r.pc \in {"receiving", "failed"}
      BY <2>1, RowFields DEF JoinerRow
    <2> QED BY <1>1, <2>1, <2>2, JoinerView, SMTT(30) DEF SameHeld, Held
  <1>5. SameSent /\ SameClosed
    <2>1. CASE session' = session
      BY <2>1, SameSessions
    <2>2. CASE Usable(j) /\ session' = [session EXCEPT ![j].joiner = t, ![j].state = "confirmed"]
      <3>1. PICK q : q = [session[j] EXCEPT !.joiner = t, !.state = "confirmed"]
        OBVIOUS
      <3>2. session' = [session EXCEPT ![j] = q]
        BY <2>2, <3>1, Zenon
      <3>3. q.bundle = session[j].bundle /\ q.state = "confirmed" /\ session[j].state # "completed"
        BY <2>2, <3>1, InUse, RowFields DEF SessionRow
      <3> QED BY <3>2, <3>3, RowView, SMTT(30) DEF SameSent, SameClosed, SentTo, Closed
    <2> QED BY <2>1, <2>2 DEF ConfirmJoiner
  <1> QED BY <1>1, <1>3, <1>4, <1>5, YesStep, Zenon

\* vault.Join is Hold: the joiner is in the chain it received.
LEMMA JoinVaultPromise ==
  ASSUME PairInv, NEW j \in Joiner, JoinVault(j)
  PROVE  PromiseStep
  <1>1. PICK r : r = [joiner[j] EXCEPT !.pc = "installed"]
    BY Zenon
  <1>2. /\ joiner[j].pc = "received" /\ joiner' = [joiner EXCEPT ![j] = r]
        /\ session' = session /\ membership' = membership /\ yes' = yes
    BY <1>1 DEF JoinVault
  <1>3. r.pc = "installed"
    BY <1>1, RowFields DEF JoinerRow
  <1>4. j \in Members
    <2>1. JoinerInv(j) /\ \E V : membership \in Seq(V) /\ joiner[j].chain \in Seq(V)
      BY DEF PairInv, Types, JoinerRow
    <2>2. IsPrefixOf(joiner[j].chain, membership) /\ j \in Enrolled(joiner[j].chain)
      BY <1>2, <2>1 DEF JoinerInv, Authorized
    <2> QED BY <2>1, <2>2, PrefixNamed DEF Members
  <1>5. Held(j)' /\ \A k \in Joiner : k # j => (Held(k)' <=> Held(k))
    BY <1>2, <1>3, JoinerView, Zenon
  <1>6. Members' = Members
    BY <1>2 DEF Members
  <1>7. Promise!Hold(j)
    BY <1>2, <1>4, <1>5, <1>6, SameYes, SameSessions, HoldStep
  <1> QED BY <1>7 DEF PromiseStep, Promise!Next

\* An acknowledgement the relay takes is Close.
LEMMA AcknowledgePromise ==
  ASSUME PairInv, NEW j \in Joiner, Acknowledge(j)
  PROVE  PromiseStep
  <1>1. PICK r : r = [joiner[j] EXCEPT !.pc = "done"]
    BY Zenon
  <1>2. PICK q : q = [session[j] EXCEPT !.state = "completed"]
    BY Zenon
  <1>3. /\ joiner[j].pc = "installed" /\ joiner' = [joiner EXCEPT ![j] = r]
        /\ membership' = membership /\ yes' = yes
        /\ session' = session \/ session' = [session EXCEPT ![j] = q]
    BY <1>1, <1>2 DEF Acknowledge
  <1>4. r.pc = "done" /\ Held(j)
    BY <1>1, <1>3, RowFields DEF JoinerRow, Held
  <1>5. SameHeld
    BY <1>3, <1>4, JoinerView, Zenon DEF SameHeld
  <1>6. CASE session' = session
    BY <1>3, <1>5, <1>6, SameSessions, QuietStep
  <1>7. CASE session' = [session EXCEPT ![j] = q]
    <2>1. q.bundle = session[j].bundle /\ q.state = "completed"
      BY <1>2, RowFields DEF SessionRow
    <2>2. SameSent
      BY <1>7, <2>1, RowView DEF SameSent, SentTo
    <2>3. Closed(j)' /\ \A k \in Joiner : k # j => (Closed(k)' <=> Closed(k))
      BY <1>7, <2>1, RowView, Zenon
    <2>4. Members' = Members
      BY <1>3 DEF Members
    <2>5. Promise!Close(j)
      BY <1>3, <1>4, <1>5, <2>2, <2>3, <2>4, SameYes, CloseStep
    <2> QED BY <2>5 DEF PromiseStep, Promise!Next
  <1> QED BY <1>3, <1>6, <1>7

\* The steps of an approver that leave the relay, the joiners and the users'
\* answers as they are.
LEMMA LocalPromise ==
  ASSUME session' = session, joiner' = joiner, membership' = membership, yes' = yes
  PROVE  PromiseStep
  BY SameSessions, SameJoiners, QuietStep

\* The approver's yes agrees, when the joiner's was there.
LEMMA AnswerApproverPromise ==
  ASSUME PairInv, PairInv', NEW a \in Approver, AnswerApprover(a)
  PROVE  PromiseStep
  <1>1. /\ approver[a].pc \in Working /\ yes' = yes \cup {<<"approver", approver[a].t>>}
        /\ joiner[Peer(a)].transcript = approver[a].t
        /\ session' = session /\ joiner' = joiner /\ membership' = membership
    BY DEF AnswerApprover, At, Working
  <1>2. Peer(a) = approver[a].t[1] /\ approver[a].t \in Transcript
    BY <1>1, WorkingRow DEF PairInv
  <1> QED BY <1>1, <1>2, SameSessions, SameJoiners, YesStep

\* A row in use that an approver writes without the bundle.
LEMMA WritePromise ==
  ASSUME PairInv, NEW j \in Joiner, NEW q, session' = [session EXCEPT ![j] = q],
         q.bundle = session[j].bundle, q.state = "completed" <=> session[j].state = "completed",
         joiner' = joiner, membership' = membership, yes' = yes
  PROVE  PromiseStep
  <1>1. SameSent /\ SameClosed
    BY RowView, SMTT(30) DEF SameSent, SameClosed, SentTo, Closed
  <1> QED BY <1>1, SameJoiners, QuietStep

\* Taking an approval is silent: the session is not closed.
LEMMA ConfirmApproverPromise ==
  ASSUME PairInv, NEW a \in Approver, ConfirmApprover(a)
  PROVE  PromiseStep
  <1>1. approver[a].pc \in Working /\ joiner' = joiner /\ membership' = membership /\ yes' = yes
    BY DEF ConfirmApprover, At, Working
  <1>2. CASE session' = session
    BY <1>1, <1>2, LocalPromise
  <1>3. CASE /\ Usable(Peer(a))
             /\ session' = [session EXCEPT ![Peer(a)].approver = approver[a].t, ![Peer(a)].state = "confirming"]
    <2>1. PICK j : j = Peer(a)
      OBVIOUS
    <2>2. PICK q : q = [session[j] EXCEPT !.approver = approver[a].t, !.state = "confirming"]
      OBVIOUS
    <2>3. session' = [session EXCEPT ![j] = q]
      BY <1>3, <2>1, <2>2, Zenon
    <2>4. j \in Joiner /\ session[j].state # "completed"
      BY <1>1, <1>3, <2>1, WorkingRow, InUse DEF PairInv
    <2>5. q.bundle = session[j].bundle /\ q.state = "confirming"
      BY <2>2, <2>4, RowFields DEF SessionRow
    <2> QED BY <1>1, <2>3, <2>4, <2>5, WritePromise, Zenon
  <1> QED BY <1>2, <1>3 DEF ConfirmApprover

\* Taking the snapshot is silent.
LEMMA PutSnapshotPromise ==
  ASSUME PairInv, NEW a \in Approver, PutSnapshot(a)
  PROVE  PromiseStep
  <1>1. approver[a].pc \in Working /\ joiner' = joiner /\ membership' = membership /\ yes' = yes
    BY DEF PutSnapshot, At, Working
  <1>2. CASE session' = session
    BY <1>1, <1>2, LocalPromise
  <1>3. CASE session' = [session EXCEPT ![Peer(a)].snapshot = approver[a].t]
    <2>1. PICK j : j = Peer(a)
      OBVIOUS
    <2>2. PICK q : q = [session[j] EXCEPT !.snapshot = approver[a].t]
      BY ZenonT(30)
    <2>3. session' = [session EXCEPT ![j] = q]
      BY <1>3, <2>1, <2>2
    <2>4. j \in Joiner
      BY <1>1, <2>1, WorkingRow DEF PairInv
    <2>5. q.bundle = session[j].bundle /\ q.state = session[j].state
      BY <2>2, <2>4, RowFields DEF SessionRow
    <2> QED BY <1>1, <2>3, <2>4, <2>5, WritePromise, Zenon
  <1> QED BY <1>2, <1>3 DEF PutSnapshot

\* Taking the bundle is Send: both users have agreed.
LEMMA CompletePromise ==
  ASSUME PairInv, NEW a \in Approver, Complete(a)
  PROVE  PromiseStep
  <1>1. /\ approver[a].pc = "completing" /\ approver[a].pc \in Working
        /\ joiner' = joiner /\ membership' = membership /\ yes' = yes
    BY DEF Complete, At, Working
  <1>2. CASE session' = session
    BY <1>1, <1>2, LocalPromise
  <1>3. CASE session' = [session EXCEPT ![Peer(a)].bundle = approver[a].t, ![Peer(a)].event = Event(a)]
    <2>1. PICK j : j = Peer(a)
      OBVIOUS
    <2>2. PICK q : q = [session[j] EXCEPT !.bundle = approver[a].t, !.event = Event(a)]
      OBVIOUS
    <2>3. session' = [session EXCEPT ![j] = q]
      BY <1>3, <2>1, <2>2, Zenon
    <2>4. /\ j \in Joiner /\ j = approver[a].t[1]
          /\ approver[a].t \in Transcript /\ approver[a].t # None
      BY <1>1, <2>1, WorkingRow DEF PairInv
    <2>5. q.bundle # None /\ q.state = session[j].state
      BY <2>2, <2>4, RowFields, SMTT(30) DEF SessionRow
    <2>6. AgreedBy(j) # None
      <3>1. AgreedOn(approver[a].t)
        BY <1>1 DEF PairInv, ApproverInv, AgreedOn
      <3>2. joiner[j].transcript = approver[a].t
        BY <2>4, <3>1 DEF PairInv, YesInv, AgreedOn
      <3> QED BY <2>4, <3>1, <3>2, AgreedIsOwn DEF AllAgreedOwn, AgreedOwn
    <2>7. SentTo(j)' /\ \A k \in Joiner : k # j => (SentTo(k)' <=> SentTo(k))
      BY <2>3, <2>4, <2>5, RowView, ZenonT(30)
    <2>8. SameClosed
      BY <2>3, <2>4, <2>5, RowView, SMTT(30) DEF SameClosed, Closed
    <2>9. Members' = Members
      BY <1>1 DEF Members
    <2>10. Promise!Send(j)
      BY <1>1, <2>4, <2>6, <2>7, <2>8, <2>9, SameYes, SameJoiners, SendStep
    <2> QED BY <2>4, <2>10 DEF PromiseStep, Promise!Next
  <1> QED BY <1>2, <1>3 DEF Complete

\* Only an enrolment enrols.
LEMMA EnrolledAppend ==
  ASSUME PairInv, NEW e
  PROVE  Enrolled(Append(membership, e)) =
           Enrolled(membership) \cup (IF e.action = "enroll" THEN {e.device} ELSE {})
  <1>1. PICK V : membership \in Seq(V)
    BY DEF PairInv, Types
  <1> QED BY <1>1, NamedAppend DEF Enrolled

\* Appending the enrolment is Admit: the bundle is at the relay.
LEMMA AppendEventPromise ==
  ASSUME PairInv, NEW a \in Approver, AppendEvent(a)
  PROVE  PromiseStep
  <1>1. /\ approver[a].pc = "appending" /\ approver[a].pc \in Working
        /\ joiner' = joiner /\ session' = session /\ yes' = yes
    BY DEF AppendEvent, At, Working
  <1>2. CASE membership' = membership
    BY <1>1, <1>2, LocalPromise
  <1>3. CASE membership' = Append(membership, Event(a))
    <2>1. PICK j : j = Peer(a)
      OBVIOUS
    <2>2. j \in Joiner /\ SentTo(j)
      BY <1>1, <2>1, WorkingRow, Zenon DEF PairInv, ApproverInv, SentTo
    <2>3. Event(a).action = "enroll" /\ Event(a).device = j
      BY <2>1 DEF Event, Enroll, NextEvent
    <2>4. Members' = Members \cup {j}
      BY <1>3, <2>2, <2>3, EnrolledAppend DEF Members
    <2>5. Promise!Admit(j)
      BY <1>1, <2>2, <2>4, SameYes, SameSessions, SameJoiners, AdmitStep
    <2> QED BY <2>2, <2>5 DEF PromiseStep, Promise!Next
  <1> QED BY <1>2, <1>3 DEF AppendEvent

\* A revocation enrols nobody and disenrols nobody.
LEMMA RevokePromise ==
  ASSUME PairInv, NEW a \in Approver, NEW x \in Device, RevokeFromElsewhere(a, x)
  PROVE  PromiseStep
  <1>1. PICK e : e = Revoke(membership, a, x)
    OBVIOUS
  <1>2. /\ membership' = Append(membership, e) /\ e.action = "revoke"
        /\ joiner' = joiner /\ session' = session /\ yes' = yes
    BY <1>1 DEF RevokeFromElsewhere, Revoke, NextEvent
  <1>3. Members' = Members
    BY <1>2, EnrolledAppend DEF Members
  <1> QED BY <1>2, <1>3, SameYes, SameSessions, SameJoiners, SilentStep DEF PromiseStep

\* Expiry is decided on reading: it closes nothing.
LEMMA ExpirePromise ==
  ASSUME PairInv, NEW j \in Joiner, Expire(j)
  PROVE  PromiseStep
  <1>1. PICK q : q = [session[j] EXCEPT !.expired = TRUE]
    BY Zenon
  <1>2. /\ session' = [session EXCEPT ![j] = q]
        /\ joiner' = joiner /\ membership' = membership /\ yes' = yes
    BY <1>1 DEF Expire
  <1>3. q.bundle = session[j].bundle /\ q.state = session[j].state
    BY <1>1, RowFields DEF SessionRow
  <1> QED BY <1>2, <1>3, WritePromise, Zenon

\* Initial states map to the promise's initial state.
LEMMA InitPromise == Init => Promise!Init
  <1> SUFFICES ASSUME Init PROVE Promise!Init
    OBVIOUS
  <1>1. ASSUME NEW j \in Joiner PROVE AgreedBy(j) = None
    BY DEF Init, AgreedBy, Agreements, AgreedOn
  <1>2. Enrolled(membership) \cap Joiner = {}
    BY PairingConstants DEF Init, Joiner
  <1>3. \A j \in Joiner : session[j].bundle = None /\ session[j].state = "none" /\ ~Held(j)
    BY DEF Init, NoSession, Held
  <1> QED BY <1>1, <1>2, <1>3 DEF Promise!Init

\* Every step maps to a step of the promise or a stutter.
LEMMA NextPromise == PairInv /\ PairInv' /\ [Next]_pairVars => [Promise!Next]_(Promise!vars)
  <1> SUFFICES ASSUME PairInv, PairInv', [Next]_pairVars PROVE PromiseStep
    BY DEF PromiseStep
  <1>1. ASSUME NEW j \in Joiner, JoinerStep(j) PROVE PromiseStep
    BY <1>1, BeginPromise, LearnTranscriptPromise, ConfirmJoinerPromise, ReceivePromise,
       JoinVaultPromise, AcknowledgePromise DEF JoinerStep
  <1>2. ASSUME NEW j \in Joiner, Expire(j) PROVE PromiseStep
    BY <1>2, ExpirePromise
  <1>3. ASSUME NEW j \in Joiner, StopJoiner(j) PROVE PromiseStep
    BY <1>3, FailPromise DEF StopJoiner, Held
  <1>4. ASSUME NEW a \in Approver, ApproverStep(a) PROVE PromiseStep
    <2>1. CASE CheckApprover(a) \/ KeepApproval(a) \/ AwaitJoiner(a) \/ SyncBefore(a) \/ FinishDelivery(a)
      BY <2>1, LocalPromise DEF CheckApprover, KeepApproval, AwaitJoiner, SyncBefore, FinishDelivery
    <2> QED BY <1>4, <2>1, ConfirmApproverPromise, AnswerApproverPromise, PutSnapshotPromise,
               CompletePromise, AppendEventPromise DEF ApproverStep
  <1>5. ASSUME NEW a \in Approver, StopApprover(a) \/ ForgetApprovals(a) PROVE PromiseStep
    BY <1>5, LocalPromise DEF StopApprover, ForgetApprovals
  <1>6. ASSUME NEW a \in Approver, NEW j \in Joiner, Approve(a, j) PROVE PromiseStep
    BY <1>6, LocalPromise DEF Approve
  <1>7. ASSUME NEW a \in Approver, NEW x \in Device, RevokeFromElsewhere(a, x) PROVE PromiseStep
    BY <1>7, RevokePromise
  <1>8. CASE UNCHANGED pairVars
    BY <1>8, LocalPromise DEF pairVars
  <1> QED BY <1>1, <1>2, <1>3, <1>4, <1>5, <1>6, <1>7, <1>8 DEF Next

(***************************************************************************)
(* Pairing implements its promise: CompletePairing stores a bundle only    *)
(* after both users agreed on the transcript, the chain enrols a joiner    *)
(* only after its bundle, vault.Join only ever installs a member's vault,  *)
(* and only such a joiner's session is closed.  Every other step of        *)
(* clients, relay, users and faults leaves that unchanged.                 *)
(***************************************************************************)
THEOREM PairingImplementsPromise == Spec => KeepsPromise
  BY InitPromise, NextPromise, PairingSafe, PTL DEF Spec, KeepsPromise, Promise!Spec
=============================================================================
