-------------------------- MODULE SyncCursorProofs --------------------------
(***************************************************************************)
(* The cursor tells the truth (CursorIsHonest), for any number of devices, *)
(* concurrent syncs, records, edits and faults, on every device that has   *)
(* not run two syncs at once, whatever the others do.  On a device that    *)
(* has it is false, see CursorIsHonest.                                    *)
(*                                                                         *)
(* CursorInv says of such a device that its sync, if one runs, runs alone, *)
(* and what makes the cursor safe to move:                                 *)
(*   Settled       a queued write that the relay did accept is no older    *)
(*                 than anything before the cursor, so making it the head  *)
(*                 loses nothing;                                          *)
(*   Asked         what a device has sent and still queues is what its     *)
(*                 sync is asking about, so nothing queued was sent once   *)
(*                 the sync pulls;                                         *)
(*   PageInv       what a page leaves out is already held, and what it     *)
(*                 brings is newer than what is held, also after the user  *)
(*                 wrote in between.                                       *)
(***************************************************************************)
EXTENDS SyncProofs
LOCAL INSTANCE WellFoundedInduction

\* Leaves that reason about numbers, sequences or records use the SMT solver.
USE ZenonT(60)

\* The device of p runs no other sync.
Alone(p) == \A q \in Process : q[1] = p[1] /\ q # p => proc[q] = Idle

AloneInv == \A p \in Process : p[1] \notin overlapped /\ proc[p] # Idle => Alone(p)

\* e is in the log, at or after every entry of its record up to c.
Reaches(e, c) ==
  \E j \in 1..Len(changeLog) :
    /\ changeLog[j] = e
    /\ \A n \in 1..c : changeLog[n].record = e.record => n <= j

Settled(e, c) == InLog(e) => Reaches(e, c)

\* What CursorIsHonest says of position n and store s.
HonestAt(s, n) ==
  LET r == changeLog[n].record
  IN  Queued(s, r) = {} =>
        HasHead(s, r) /\ \E j \in n..Len(changeLog) : changeLog[j] = HeadEnv(s, r)

HonestStore(s) ==
  /\ \A n \in 1..s.cursor : HonestAt(s, n)
  /\ \A r \in DOMAIN s.heads : Queued(s, r) = {} => InLog(HeadEnv(s, r))
  /\ \A e \in s.outbox : Settled(e, s.cursor)

\* e may be at the relay: it is on its way there or has an outcome.
Sent(e) == e \in late \/ e.mutation \in DOMAIN outcome

PageInv(s, m) ==
  /\ \A n \in 1..m.next : n \in m.batch \/ HonestAt(s, n)
  /\ \A i \in m.batch :
       Queued(s, changeLog[i].record) = {} => Ahead(s, changeLog[i])

\* The writes a sync that pushes has yet to settle.
Asked(m) == m.queue \cup (IF m.pc = "push" THEN {} ELSE {m.candidate})

HonestMemory(s, m) ==
  /\ m.pc \in {"push", "answered", "preserved"} =>
       /\ \A e \in s.outbox : Sent(e) => e \in Asked(m)
       /\ \A e \in Asked(m) : Settled(e, s.cursor)
  /\ m.pc = "answered" => \A head \in m.reply.head : Reaches(head.env, s.cursor)
  /\ m.pc = "preserved" => Reaches(m.head.env, s.cursor) /\ ~Sent(m.copy)
  /\ m.pc \in {"pull", "fetched", "filtered"} => \A e \in s.outbox : ~Sent(e)
  /\ m.pc \in {"pull", "fetched"} => m.since = s.cursor
  /\ m.pc = "filtered" => PageInv(s, m)

CursorInv ==
  /\ \A d \in Device : d \notin overlapped => HonestStore(store[d])
  /\ \A p \in Process : p[1] \notin overlapped => HonestMemory(store[p[1]], proc[p])
  /\ AloneInv

-----------------------------------------------------------------------------
(* The log. *)

LEMMA LogRevisions ==
  ASSUME RelayInv
  PROVE  \A x \in 1..Len(changeLog) : changeLog[x].rev \in Nat
  <1>1. changeLog \in Seq(Envelope)
    BY DEF RelayInv, RelayTypeOK
  <1>2. \A x \in 1..Len(changeLog) : changeLog[x] \in Envelope
    BY <1>1, SMTT(30)
  <1>3. \A e \in Envelope : e.rev \in Nat
    BY EnvelopeConstants, SMTT(30) DEF Envelope
  <1> QED BY <1>2, <1>3

\* Revisions of a record increase along an unforked log.
LEMMA RevisionsIncrease ==
  ASSUME RelayInv, NEW a \in 1..Len(changeLog), NEW b \in 1..Len(changeLog),
         changeLog[a].record = changeLog[b].record, a < b
  PROVE  changeLog[a].rev < changeLog[b].rev
  <1> DEFINE Late(y) == \E x \in 1..(y - 1) :
                           /\ changeLog[x].record = changeLog[y].record
                           /\ ~(changeLog[x].rev < changeLog[y].rev)
             T == {y \in 1..Len(changeLog) : Late(y)}
             R == OpToRel(<, Nat)
  <1>1. changeLog \in Seq(Envelope) /\ Len(changeLog) \in Nat
    BY SMTT(30) DEF RelayInv, RelayTypeOK
  <1>2. \A x \in 1..Len(changeLog) : changeLog[x].rev \in Nat
    BY LogRevisions
  <1>3. \A x, y \in Nat : x < y => <<x, y>> \in R
    BY DEF OpToRel
  <1>4. IsWellFoundedOn(R, Nat)
    BY NatLessThanWellFounded
  <1> HIDE DEF R
  <1>5. ASSUME T # {} PROVE FALSE
    <2>1. T \subseteq Nat
      BY <1>1, SMTT(30)
    <2>2. PICK y \in T : \A u \in T : ~(<<u, y>> \in R)
      BY <1>4, <1>5, <2>1, WFMin
    <2>3. y \in 1..Len(changeLog) /\ Late(y)
      BY <2>2
    <2>4. PICK x \in 1..(y - 1) : /\ changeLog[x].record = changeLog[y].record
                                  /\ ~(changeLog[x].rev < changeLog[y].rev)
      BY <2>3
    <2>5. PICK k \in 1..(y - 1) : /\ LatestAt(changeLog[y].record, y - 1, k)
                                  /\ changeLog[y].rev = changeLog[k].rev + 1
      BY <2>3, <2>4 DEF RelayInv, UnforkedLog, Extends
    <2>6. /\ x \in Nat /\ k \in Nat /\ y \in Nat /\ k < y /\ x < y
          /\ x \in 1..Len(changeLog) /\ k \in 1..Len(changeLog)
      BY <1>1, <2>3, <2>4, <2>5, SMTT(30)
    <2>7. changeLog[k].record = changeLog[y].record
      BY <2>5 DEF LatestAt
    <2>8. ~(k < x)
      <3>1. \A n \in k + 1 .. y - 1 : changeLog[n].record # changeLog[y].record
        BY <2>5 DEF LatestAt
      <3>2. k < x => x \in k + 1 .. y - 1
        BY <2>4, <2>6, SMTT(30)
      <3> QED BY <2>4, <3>1, <3>2
    <2>9. x # k
      BY <1>2, <2>4, <2>5, <2>6, SMTT(30)
    <2>10. x < k /\ x \in 1..(k - 1)
      BY <2>4, <2>6, <2>8, <2>9, SMTT(30)
    <2>11. ~Late(k)
      <3>1. k \notin T
        BY <1>3, <2>2, <2>6
      <3> QED BY <2>6, <3>1
    <2>12. changeLog[x].rev < changeLog[k].rev
      BY <2>4, <2>7, <2>10, <2>11
    <2>13. changeLog[x].rev < changeLog[y].rev
      BY <1>2, <2>5, <2>6, <2>12, SMTT(30)
    <2> QED BY <2>4, <2>13
  <1>6. ~Late(b)
    BY <1>5
  <1>7. a \in 1..(b - 1)
    BY SMTT(30)
  <1> QED BY <1>6, <1>7

\* What is in the log has an outcome.
LEMMA InLogIsSent ==
  ASSUME RelayInv, NEW e, InLog(e)
  PROVE  Sent(e)
  BY DEF InLog, Sent, RelayInv, ExactlyOnce

\* The head the relay sends with a rejection reaches any position.
LEMMA HeadReaches ==
  ASSUME RelayInv, NEW r \in DOMAIN recordHead, NEW c \in Nat, c <= Len(changeLog),
         NEW head \in HeadOf(r)
  PROVE  Reaches(head.env, c)
  <1>1. Len(changeLog) \in Nat
    BY SMTT(30) DEF RelayInv, RelayTypeOK
  <1>2. head = recordHead[r]
    BY DEF HeadOf
  <1>3. PICK j : j = head.seq
    OBVIOUS
  <1>4. LatestAt(r, Len(changeLog), j) /\ head.env = changeLog[j]
    BY <1>2, <1>3 DEF RelayInv, HeadIsLatest
  <1>5. ASSUME NEW n \in 1..c, changeLog[n].record = r PROVE n <= j
    <2>1. n > j /\ j \in Nat => n \in j + 1 .. Len(changeLog)
      BY <1>1, SMTT(30)
    <2>2. j \in 1..Len(changeLog)
      BY <1>4 DEF LatestAt
    <2>3. \A k \in j + 1 .. Len(changeLog) : changeLog[k].record # r
      BY <1>4 DEF LatestAt
    <2> QED BY <1>1, <1>5, <2>1, <2>2, <2>3, SMTT(30)
  <1> QED BY <1>4, <1>5 DEF Reaches, LatestAt

-----------------------------------------------------------------------------
(* History growing. *)

LEMMA ReachesGrows ==
  ASSUME Grows, NEW e, NEW c \in Nat, c <= Len(changeLog), Reaches(e, c)
  PROVE  Reaches(e, c)'
  <1>1. PICK j \in 1..Len(changeLog) :
          /\ changeLog[j] = e
          /\ \A n \in 1..c : changeLog[n].record = e.record => n <= j
    BY DEF Reaches
  <1>2. /\ j \in 1..Len(changeLog') /\ changeLog'[j] = e
        /\ \A n \in 1..c : changeLog'[n] = changeLog[n]
    BY <1>1, SMTT(30) DEF Grows
  <1> QED BY <1>1, <1>2 DEF Reaches

\* What enters the log now is after the cursor.
LEMMA SettledGrows ==
  ASSUME Grows, NEW e, NEW c \in Nat, c <= Len(changeLog), Settled(e, c)
  PROVE  Settled(e, c)'
  <1>1. CASE InLog(e)
    BY <1>1, ReachesGrows DEF Settled
  <1>2. CASE ~InLog(e)
    <2> SUFFICES ASSUME InLog(e)' PROVE Reaches(e, c)'
      BY DEF Settled
    <2>1. PICK j \in 1..Len(changeLog') : changeLog'[j] = e
      BY DEF InLog
    <2>2. j \in 1..Len(changeLog) => FALSE
      BY <1>2, <2>1 DEF InLog, Grows
    <2>3. \A n \in 1..c : n <= j
      BY <2>1, <2>2, SMTT(30) DEF Grows
    <2> QED BY <2>1, <2>3 DEF Reaches
  <1> QED BY <1>1, <1>2

LEMMA HonestAtGrows ==
  ASSUME Grows, NEW s, NEW n \in 1..Len(changeLog), HonestAt(s, n)
  PROVE  HonestAt(s, n)'
  <1>1. changeLog'[n] = changeLog[n]
    BY DEF Grows
  <1>2. \A j \in n..Len(changeLog) : j \in n..Len(changeLog') /\ changeLog'[j] = changeLog[j]
    BY SMTT(30) DEF Grows
  <1> QED BY <1>1, <1>2 DEF HonestAt, Queued, HasHead, HeadEnv

LEMMA HonestStoreGrows ==
  ASSUME Grows, NEW s, StoreOK(s), s.cursor <= CurrentSeq, HonestStore(s)
  PROVE  HonestStore(s)'
  <1>1. s.cursor \in Nat /\ s.cursor <= Len(changeLog)
    BY DEF StoreOK, CurrentSeq
  <1>2. ASSUME NEW n \in 1..s.cursor PROVE HonestAt(s, n)'
    <2>1. n \in 1..Len(changeLog)
      BY <1>1, SMTT(30) DEF Grows
    <2> QED BY <2>1, HonestAtGrows DEF HonestStore
  <1>3. \A r \in DOMAIN s.heads : Queued(s, r) = {} => InLog(HeadEnv(s, r))'
    BY InLogGrows DEF HonestStore
  <1>4. \A e \in s.outbox : Settled(e, s.cursor)'
    BY <1>1, SettledGrows DEF HonestStore
  <1> QED BY <1>2, <1>3, <1>4 DEF HonestStore, Queued, HeadEnv

\* A memory stays honest while nothing its device queues is sent.
LEMMA HonestMemoryGrows ==
  ASSUME Grows, NEW p, NEW s, StoreOK(s), s.cursor <= CurrentSeq,
         NEW m, ProcOK(m), MemoryInv(p, m), HonestMemory(s, m),
         \A e \in s.outbox : Sent(e)' => Sent(e),
         m.pc = "preserved" => (Sent(m.copy)' => Sent(m.copy))
  PROVE  HonestMemory(s, m)'
  <1>1. s.cursor \in Nat /\ s.cursor <= Len(changeLog) /\ Len(changeLog) \in Nat
    BY DEF StoreOK, CurrentSeq, Grows
  <1>2. ASSUME m.pc \in {"push", "answered", "preserved"}
        PROVE  /\ \A e \in s.outbox : Sent(e)' => e \in Asked(m)
               /\ \A e \in Asked(m) : Settled(e, s.cursor)'
    BY <1>1, <1>2, SettledGrows DEF HonestMemory
  <1>3. ASSUME m.pc = "answered"
        PROVE  \A head \in m.reply.head : Reaches(head.env, s.cursor)'
    BY <1>1, <1>3, ReachesGrows DEF HonestMemory
  <1>4. ASSUME m.pc = "preserved"
        PROVE  Reaches(m.head.env, s.cursor)' /\ ~Sent(m.copy)'
    BY <1>1, <1>4, ReachesGrows DEF HonestMemory
  <1>5. ASSUME m.pc = "filtered" PROVE PageInv(s, m)'
    <2>1. m.next \in Nat /\ m.through \in Nat
      BY <1>5, SMTT(30) DEF ProcOK, Idle
    <2>2. m.next <= Len(changeLog) /\ m.batch \subseteq 1..m.next
      BY <1>1, <1>5, <2>1, SMTT(30) DEF MemoryInv, CurrentSeq
    <2>3. \A n \in 1..m.next : n \in 1..Len(changeLog)
      BY <1>1, <2>1, <2>2, SMTT(30)
    <2>4. PageInv(s, m)
      BY <1>5 DEF HonestMemory
    <2>5. \A n \in 1..m.next : n \in m.batch \/ HonestAt(s, n)'
      BY <2>3, <2>4, HonestAtGrows DEF PageInv
    <2>6. \A i \in m.batch : changeLog'[i] = changeLog[i]
      BY <2>2, <2>3 DEF Grows
    <2> QED BY <2>4, <2>5, <2>6 DEF PageInv, Queued, Ahead, HasHead, HeadEnv
  <1>6. m.pc \in {"pull", "fetched", "filtered"} => \A e \in s.outbox : ~Sent(e)'
    BY DEF HonestMemory
  <1> QED BY <1>2, <1>3, <1>4, <1>5, <1>6 DEF HonestMemory, Asked

\* Stores and memories do not depend on anything but the history.
LEMMA HonestKept ==
  ASSUME UNCHANGED <<relayVars, late>>, NEW s, HonestStore(s)
  PROVE  HonestStore(s)'
  BY DEF relayVars, HonestStore, HonestAt, Settled, Reaches, InLog, Queued, HasHead, HeadEnv

LEMMA HonestMemoryKept ==
  ASSUME UNCHANGED <<relayVars, late>>, NEW s, NEW m, HonestMemory(s, m)
  PROVE  HonestMemory(s, m)'
  <1>1. \A e, c : Settled(e, c)' <=> Settled(e, c)
    BY DEF Settled, Reaches, InLog, relayVars
  <1>2. \A e, c : Reaches(e, c)' <=> Reaches(e, c)
    BY DEF Reaches, relayVars
  <1>3. \A e : Sent(e)' <=> Sent(e)
    BY DEF Sent, relayVars
  <1>4. PageInv(s, m) => PageInv(s, m)'
    BY DEF PageInv, HonestAt, Queued, Ahead, HasHead, HeadEnv, relayVars
  <1> QED BY <1>1, <1>2, <1>3, <1>4 DEF HonestMemory, Asked

-----------------------------------------------------------------------------
(* A step replaces at most one store and one memory. *)

\* A device that takes no step stays honest.
LEMMA OthersStayHonest ==
  ASSUME SyncInv, CursorInv, Grows, NEW c \in Device, c \notin overlapped,
         store'[c] = store[c],
         \A e \in Own(c) : Sent(e)' => Sent(e)
  PROVE  /\ HonestStore(store[c])'
         /\ \A q \in Process : q[1] = c /\ proc'[q] = proc[q] =>
                                 HonestMemory(store[c], proc[q])'
  <1>1. PICK s : s = store[c]
    OBVIOUS
  <1>2. StoreOK(s) /\ StoreInv(c, s) /\ HonestStore(s)
    BY <1>1 DEF SyncInv, TypeOK, HeldInv, CursorInv
  <1>3. s.cursor <= CurrentSeq /\ \A e \in s.outbox : Sent(e)' => Sent(e)
    BY <1>2 DEF StoreInv
  <1>4. HonestStore(s)'
    BY <1>2, <1>3, HonestStoreGrows
  <1>5. ASSUME NEW q \in Process, q[1] = c, proc'[q] = proc[q]
        PROVE  HonestMemory(store[c], proc[q])'
    <2>1. PICK m : m = proc[q]
      OBVIOUS
    <2>2. ProcOK(m) /\ MemoryInv(q, m) /\ HonestMemory(s, m)
      BY <1>1, <1>5, <2>1 DEF SyncInv, TypeOK, CursorInv
    <2>3. m.pc = "preserved" => m.copy \in Own(c)
      BY <1>5, <2>2 DEF MemoryInv
    <2>4. HonestMemory(s, m)'
      BY <1>2, <1>3, <2>2, <2>3, HonestMemoryGrows
    <2> QED BY <1>1, <1>5, <2>1, <2>4
  <1> QED BY <1>1, <1>4, <1>5

\* The device d has an honest store t and honest syncs.
HonestDevice(d, t) ==
  HonestStore(t) /\ \A q \in Process : q[1] = d => HonestMemory(t, proc[q])

LEMMA DeviceCursorStep ==
  ASSUME SyncInv, CursorInv, Grows, NEW d \in Device, NEW t,
         store' = [store EXCEPT ![d] = t], overlapped \subseteq overlapped',
         \A q \in Process : q[1] # d => proc'[q] = proc[q],
         \A e \in sealed : Author(e) # d /\ Sent(e)' => Sent(e),
         d \notin overlapped' => HonestDevice(d, t)',
         AloneInv'
  PROVE  CursorInv'
  <1>1. /\ store'[d] = t
        /\ \A c \in Device : c # d => store'[c] = store[c]
    BY DEF SyncInv, TypeOK
  <1>2. ASSUME NEW c \in Device, c # d, c \notin overlapped'
        PROVE  /\ HonestStore(store[c])'
               /\ \A q \in Process : q[1] = c => HonestMemory(store[c], proc[q])'
    <2>1. \A e \in Own(c) : Sent(e)' => Sent(e)
      BY <1>2 DEF Own
    <2>2. \A q \in Process : q[1] = c => proc'[q] = proc[q]
      BY <1>2
    <2>3. c \notin overlapped
      BY <1>2
    <2> QED BY <1>1, <1>2, <2>1, <2>2, <2>3, OthersStayHonest
  <1>3. ASSUME NEW c \in Device, c \notin overlapped' PROVE HonestStore(store[c])'
    BY <1>1, <1>2, <1>3 DEF HonestDevice
  <1>4. ASSUME NEW q \in Process, q[1] \notin overlapped'
        PROVE  HonestMemory(store[q[1]], proc[q])'
    <2>1. q[1] \in Device
      BY DEF Process
    <2> QED BY <1>1, <1>2, <1>4, <2>1 DEF HonestDevice
  <1> QED BY <1>3, <1>4 DEF CursorInv, Process

\* A sync that begins or goes on alone leaves each device's sync alone.
LEMMA AloneStep ==
  ASSUME SyncInv, CursorInv, NEW p \in Process, NEW m, Become(p, m),
         overlapped \subseteq overlapped', p[1] \in overlapped' \/ Alone(p)
  PROVE  AloneInv'
  <1>1. \A q \in Process : q # p => proc'[q] = proc[q]
    BY DEF Become, SyncInv, TypeOK
  <1>2. ASSUME NEW q \in Process, q[1] \notin overlapped', proc'[q] # Idle
        PROVE  Alone(q)'
    <2>1. CASE q[1] = p[1]
      BY <1>1, <1>2, <2>1 DEF Alone
    <2>2. CASE q[1] # p[1]
      <3>1. Alone(q)
        BY <1>1, <1>2, <2>2 DEF CursorInv, AloneInv
      <3> QED BY <1>1, <2>2, <3>1 DEF Alone
    <2> QED BY <2>1, <2>2
  <1> QED BY <1>2 DEF AloneInv

\* A step of p, which runs alone on a device whose syncs have not overlapped.
Undisturbed(p) ==
  p[1] \notin overlapped' /\ overlapped \subseteq overlapped' /\ Alone(p)

\* The step changes the device's store and the only sync it runs.
LEMMA SyncCursorStep ==
  ASSUME SyncInv, CursorInv, Grows, NEW p \in Process, Undisturbed(p),
         NEW m, Become(p, m), NEW t, Commit(p, t),
         \A e \in sealed : Author(e) # p[1] /\ Sent(e)' => Sent(e),
         HonestStore(t)', HonestMemory(t, m)'
  PROVE  CursorInv'
  <1>1. PICK d \in Device : d = p[1]
    BY DEF Process
  <1>2. proc'[p] = m /\ \A q \in Process : q # p => proc'[q] = proc[q]
    BY DEF Become, SyncInv, TypeOK
  <1>3. \A q \in Process : q[1] # d => proc'[q] = proc[q]
    BY <1>1, <1>2
  <1>4. HonestMemory(t, Idle)'
    BY SMTT(30) DEF HonestMemory, Idle
  <1>5. ASSUME NEW q \in Process, q[1] = d PROVE HonestMemory(t, proc[q])'
    <2>1. q = p \/ proc'[q] = Idle
      BY <1>1, <1>2, <1>5 DEF Undisturbed, Alone
    <2> QED BY <1>2, <1>4, <2>1
  <1>6. HonestDevice(d, t)'
    BY <1>5 DEF HonestDevice
  <1>7. store' = [store EXCEPT ![d] = t] /\ \A e \in sealed : Author(e) # d /\ Sent(e)' => Sent(e)
    BY <1>1 DEF Commit
  <1>8. overlapped \subseteq overlapped' /\ AloneInv'
    BY AloneStep DEF Undisturbed
  <1> QED BY <1>3, <1>6, <1>7, <1>8, DeviceCursorStep

\* A step on a device whose syncs have overlapped.
LEMMA OverlappedCursorStep ==
  ASSUME SyncInv, CursorInv, Grows, NEW p \in Process, p[1] \in overlapped',
         overlapped \subseteq overlapped', NEW m, Become(p, m), NEW t, Commit(p, t),
         \A e \in sealed : Author(e) # p[1] /\ Sent(e)' => Sent(e)
  PROVE  CursorInv'
  <1>1. PICK d \in Device : d = p[1]
    BY DEF Process
  <1>2. \A q \in Process : q[1] # d => proc'[q] = proc[q]
    BY <1>1 DEF Become, SyncInv, TypeOK
  <1>3. /\ store' = [store EXCEPT ![d] = t] /\ d \in overlapped'
        /\ \A e \in sealed : Author(e) # d /\ Sent(e)' => Sent(e)
    BY <1>1 DEF Commit
  <1>4. AloneInv'
    BY AloneStep
  <1> QED BY <1>2, <1>3, <1>4, DeviceCursorStep

\* A step of a sync that leaves the relay and the network alone.
LEMMA LocalCursorStep ==
  ASSUME SyncInv, CursorInv, UNCHANGED <<relayVars, late>>, sealed \subseteq sealed',
         NEW p \in Process, Undisturbed(p), NEW m, Become(p, m), NEW t, Commit(p, t),
         HonestStore(t), HonestMemory(t, m)
  PROVE  CursorInv'
  <1>1. Grows
    BY LocalStepGrows DEF SyncInv, TypeOK
  <1>2. \A e \in sealed : Sent(e)' => Sent(e)
    BY DEF Sent, relayVars
  <1>3. HonestStore(t)' /\ HonestMemory(t, m)'
    BY HonestKept, HonestMemoryKept
  <1> QED BY <1>1, <1>2, <1>3, SyncCursorStep

\* One that leaves the store alone, too.
LEMMA QuietCursorStep ==
  ASSUME SyncInv, CursorInv, UNCHANGED <<relayVars, late, store>>,
         sealed \subseteq sealed',
         NEW p \in Process, Undisturbed(p), NEW m, Become(p, m), HonestMemory(store[p[1]], m)
  PROVE  CursorInv'
  <1>1. PICK s : s = store[p[1]]
    OBVIOUS
  <1>2. Commit(p, s) /\ HonestStore(s)
    BY <1>1 DEF Process, SyncInv, TypeOK, Commit, CursorInv, Undisturbed
  <1>3. HonestMemory(s, m)
    BY <1>1
  <1> QED BY <1>2, <1>3, LocalCursorStep

LEMMA IdleIsHonest ==
  ASSUME NEW s
  PROVE  HonestMemory(s, Idle)
  BY DEF HonestMemory, Idle

-----------------------------------------------------------------------------
(* The steps that leave the store alone. *)

LEMMA BeginSyncKeepsCursor ==
  ASSUME SyncInv, CursorInv, NEW p \in Process, Undisturbed(p), BeginSync(p)
  PROVE  CursorInv'
  <1>1. PICK s, q : s = store[p[1]] /\ q = s.outbox
    OBVIOUS
  <1>2. HonestStore(s)
    BY <1>1 DEF CursorInv, Undisturbed, Process
  <1>3. Asked(Pushing(q)) = q /\ Pushing(q).pc = "push"
    BY SMTT(30) DEF Asked, Pushing
  <1>4. HonestMemory(s, Pushing(q))
    BY <1>1, <1>2, <1>3, SMTT(30) DEF HonestMemory, HonestStore
  <1>5. /\ Become(p, Pushing(q)) /\ UNCHANGED <<relayVars, late, store>>
        /\ sealed \subseteq sealed'
    BY <1>1 DEF BeginSync
  <1> QED BY <1>1, <1>4, <1>5, QuietCursorStep

LEMMA BeginPullKeepsCursor ==
  ASSUME SyncInv, CursorInv, NEW p \in Process, Undisturbed(p), BeginPull(p)
  PROVE  CursorInv'
  <1>1. PICK s, m, c : s = store[p[1]] /\ m = proc[p] /\ c = s.cursor
    OBVIOUS
  <1>2. m.pc = "push" /\ m.queue = {} /\ HonestMemory(s, m)
    BY <1>1 DEF CursorInv, Undisturbed, BeginPull, At
  <1>3. \A e \in s.outbox : ~Sent(e)
    BY <1>2 DEF HonestMemory, Asked
  <1>4. Pulling(c, 0).pc = "pull" /\ Pulling(c, 0).since = c
    BY SMTT(30) DEF Pulling
  <1>5. HonestMemory(s, Pulling(c, 0))
    BY <1>1, <1>3, <1>4, SMTT(30) DEF HonestMemory
  <1>6. /\ Become(p, Pulling(c, 0)) /\ UNCHANGED <<relayVars, late, store>>
        /\ sealed \subseteq sealed'
    BY <1>1 DEF BeginPull
  <1> QED BY <1>1, <1>5, <1>6, QuietCursorStep

LEMMA FetchPageKeepsCursor ==
  ASSUME SyncInv, CursorInv, NEW p \in Process, Undisturbed(p), FetchPage(p)
  PROVE  CursorInv'
  <1>1. PICK s, m : s = store[p[1]] /\ m = proc[p]
    OBVIOUS
  <1>2. m.pc = "pull" /\ HonestMemory(s, m)
    BY <1>1 DEF CursorInv, Undisturbed, FetchPage, At
  <1>3. PICK through, next : Become(p, Fetched(m.since, through, next))
    BY <1>1 DEF FetchPage
  <1>4. PICK f : f = Fetched(m.since, through, next)
    OBVIOUS
  <1>5. f.pc = "fetched" /\ f.since = m.since
    BY <1>4, SMTT(30) DEF Fetched
  <1>6. HonestMemory(s, f)
    BY <1>2, <1>5, SMTT(30) DEF HonestMemory
  <1>7. UNCHANGED <<relayVars, late, store>> /\ sealed \subseteq sealed'
    BY DEF FetchPage
  <1> QED BY <1>1, <1>3, <1>4, <1>6, <1>7, QuietCursorStep

LEMMA StopKeepsCursor ==
  ASSUME SyncInv, CursorInv, NEW p \in Process, Undisturbed(p), Stop(p)
  PROVE  CursorInv'
  <1>1. /\ Become(p, Idle) /\ UNCHANGED <<relayVars, late, store>>
        /\ sealed \subseteq sealed'
    BY DEF Stop
  <1> QED BY <1>1, IdleIsHonest, QuietCursorStep

\* A page leaves out only what the device already holds.
LEMMA CheckPageKeepsCursor ==
  ASSUME SyncInv, CursorInv, NEW p \in Process, Undisturbed(p), CheckPage(p)
  PROVE  CursorInv'
  <1>1. PICK s, m : s = store[p[1]] /\ m = proc[p]
    OBVIOUS
  <1>2. /\ m.pc = "fetched" /\ ProcOK(m) /\ MemoryInv(p, m) /\ HonestMemory(s, m)
        /\ StoreOK(s) /\ HonestStore(s)
    BY <1>1 DEF CheckPage, At, SyncInv, TypeOK, CursorInv, Undisturbed, Process
  <1>3. m.since \in Nat /\ m.through \in Nat /\ m.next \in Nat /\ Len(changeLog) \in Nat
    BY <1>2, SMTT(30) DEF ProcOK, Idle, SyncInv, TypeOK, RelayTypeOK
  <1>4. m.next <= Len(changeLog)
    BY <1>2, <1>3, SMTT(30) DEF MemoryInv, CurrentSeq
  <1>5. PICK batch : batch = {i \in m.since + 1 .. m.next : Ahead(s, changeLog[i])}
    BY Zenon
  <1>6. PICK f : f = Filtered(m.through, m.next, batch)
    OBVIOUS
  <1>7. f.pc = "filtered" /\ f.next = m.next /\ f.batch = batch
    BY <1>6, SMTT(30) DEF Filtered
  <1>8. ASSUME NEW n \in 1..m.next, n \notin batch PROVE HonestAt(s, n)
    <2>1. CASE n <= m.since
      <3>1. n \in 1..s.cursor
        BY <1>2, <1>3, <2>1, SMTT(30) DEF HonestMemory
      <3> QED BY <1>2, <3>1 DEF HonestStore
    <2>2. CASE ~(n <= m.since)
      <3>1. n \in m.since + 1 .. m.next /\ n \in 1..Len(changeLog)
        BY <1>3, <1>4, <2>2, SMTT(30)
      <3>2. PICK e, h : e = changeLog[n] /\ h = HeadEnv(s, e.record)
        OBVIOUS
      <3>3. HasHead(s, e.record) /\ ~(e.rev > h.rev)
        BY <1>5, <1>8, <3>1, <3>2 DEF Ahead
      <3>4. ASSUME Queued(s, e.record) = {}
            PROVE  \E j \in n..Len(changeLog) : changeLog[j] = h
        <4>1. PICK k \in 1..Len(changeLog) : changeLog[k] = h
          BY <1>2, <3>2, <3>3, <3>4 DEF HonestStore, HasHead, InLog
        <4>2. h.record = e.record
          BY <1>2, <3>2, <3>3 DEF StoreOK, HasHead, HeadEnv
        <4>3. k < n => h.rev < e.rev
          BY <3>1, <3>2, <4>1, <4>2, RevisionsIncrease DEF SyncInv
        <4>4. h.rev \in Nat /\ e.rev \in Nat
          BY <3>1, <3>2, <4>1, LogRevisions DEF SyncInv
        <4>5. ~(k < n)
          BY <3>3, <4>3, <4>4, SMTT(30)
        <4>6. k \in n..Len(changeLog)
          BY <1>3, <3>1, <4>1, <4>5, SMTT(30)
        <4> QED BY <4>1, <4>6
      <3> QED BY <3>2, <3>3, <3>4 DEF HonestAt
    <2> QED BY <2>1, <2>2
  <1>9. PageInv(s, f)
    BY <1>5, <1>7, <1>8 DEF PageInv
  <1>10. HonestMemory(s, f)
    BY <1>2, <1>7, <1>9, SMTT(30) DEF HonestMemory
  <1>11. UNCHANGED <<relayVars, late, store>> /\ sealed \subseteq sealed'
    BY DEF CheckPage
  <1>12. Become(p, Idle) \/ Become(p, f)
    BY <1>1, <1>5, <1>6 DEF CheckPage
  <1> QED BY <1>1, <1>10, <1>11, <1>12, IdleIsHonest, QuietCursorStep

\* The copy is sealed under a mutation the relay has not seen.
LEMMA PreserveKeepsCursor ==
  ASSUME SyncInv, CursorInv, NEW p \in Process, Undisturbed(p), Preserve(p)
  PROVE  CursorInv'
  <1>1. PICK s, m : s = store[p[1]] /\ m = proc[p]
    OBVIOUS
  <1>2. m.pc = "answered" /\ HonestMemory(s, m)
    BY <1>1 DEF CursorInv, Undisturbed, Preserve, At
  <1>3. PICK copy, head :
          /\ copy.mutation = Fresh(p[1], 1) /\ head \in m.reply.head
          /\ Become(p, Preserved(m.queue, m.candidate, head, copy))
    <2>1. PICK c : c = ConflictID(m.candidate)
      OBVIOUS
    <2>2. PICK copy : copy = IF HasHead(s, c)
                             THEN Update(s, c, Fresh(p[1], 1), FALSE, m.candidate.deleted)
                             ELSE Create(c, Fresh(p[1], 1), m.candidate.deleted)
      OBVIOUS
    <2>3. copy.mutation = Fresh(p[1], 1)
      BY <2>2, SMTT(30) DEF Update, Create
    <2>4. \E head \in m.reply.head : Become(p, Preserved(m.queue, m.candidate, head, copy))
      BY <1>1, <2>1, <2>2 DEF Preserve
    <2> QED BY <2>3, <2>4
  <1>4. PICK f : f = Preserved(m.queue, m.candidate, head, copy)
    OBVIOUS
  <1>5. /\ f.pc = "preserved" /\ f.queue = m.queue /\ f.candidate = m.candidate
        /\ f.head = head /\ f.copy = copy
    BY <1>4, SMTT(30) DEF Preserved
  <1>6. ~Sent(copy)
    <2>1. PICK d \in Device : d = p[1]
      BY DEF Process
    <2>2. minted[d] + 1 <= MaxMutation
      <3>1. minted[d] \in Nat /\ MaxMutation \in Nat /\ minted[d] < MaxMutation
        BY <2>1, SyncConstants, SMTT(30) DEF Preserve, SyncInv, TypeOK
      <3> QED BY <3>1, SMTT(30)
    <2>3. /\ copy.mutation[1] = d /\ minted[d] < copy.mutation[2]
          /\ copy.mutation[2] \in Nat /\ minted[d] \in Nat
      BY <1>3, <2>1, <2>2, FreshMutation, SyncConstants, SMTT(30) DEF SyncInv, TypeOK
    <2>4. ~(copy.mutation[2] <= minted[copy.mutation[1]])
      BY <2>3, SMTT(30)
    <2> QED BY <2>4 DEF Sent, SyncInv, SealedInv, HeldInv, Author
  <1>7. Asked(f) = Asked(m)
    BY <1>2, <1>5, SMTT(30) DEF Asked
  <1>8. HonestMemory(s, f)
    BY <1>2, <1>3, <1>5, <1>6, <1>7, SMTT(30) DEF HonestMemory
  <1>9. UNCHANGED <<relayVars, late, store>> /\ sealed \subseteq sealed'
    BY DEF Preserve
  <1> QED BY <1>1, <1>3, <1>4, <1>8, <1>9, QuietCursorStep

-----------------------------------------------------------------------------
(* The relay and the network. *)

\* A write on its way counts as sent, and only its author queues it.
LEMMA GiveUpKeepsCursor ==
  ASSUME SyncInv, CursorInv, NEW p \in Process, Undisturbed(p), GiveUp(p)
  PROVE  CursorInv'
  <1>1. PICK s : s = store[p[1]]
    OBVIOUS
  <1>2. /\ Become(p, Idle) /\ UNCHANGED relayVars /\ UNCHANGED store /\ sealed \subseteq sealed'
    BY DEF GiveUp
  <1>3. PICK e \in proc[p].queue : late' = late \cup {e}
    BY DEF GiveUp, Foremost
  <1>4. Author(e) = p[1]
    BY DEF GiveUp, At, SyncInv, MemoryInv, Own
  <1>5. \A f \in sealed : Author(f) # p[1] /\ Sent(f)' => Sent(f)
    BY <1>2, <1>3, <1>4 DEF Sent, relayVars
  <1>6. Grows
    BY <1>2, LocalStepGrows DEF SyncInv, TypeOK
  <1>7. Commit(p, s) /\ HonestStore(s) /\ StoreOK(s) /\ s.cursor <= CurrentSeq
    BY <1>1, <1>2 DEF Process, SyncInv, TypeOK, HeldInv, StoreInv, Commit, CursorInv, Undisturbed
  <1>8. HonestStore(s)'
    BY <1>6, <1>7, HonestStoreGrows
  <1>9. HonestMemory(s, Idle)'
    BY IdleIsHonest DEF HonestMemory, Idle
  <1> QED BY <1>2, <1>5, <1>6, <1>7, <1>8, <1>9, SyncCursorStep

\* Only the envelope that arrives is newly sent.
LEMMA ArrivalSends ==
  ASSUME SyncInv, NEW e \in sealed, PutRecord(e), late' \subseteq late
  PROVE  \A f \in sealed : Sent(f)' => Sent(f) \/ f = e
  <1>1. \A x \in DOMAIN outcome' : x \in DOMAIN outcome \/ x = e.mutation
    <2>1. CASE UNCHANGED outcome
      BY <2>1
    <2>2. ASSUME NEW accepted, NEW seq, RecordOutcome(e, accepted, seq)
          PROVE  DOMAIN outcome' = DOMAIN outcome \cup {e.mutation}
      BY <2>2 DEF RecordOutcome, Upsert
    <2>3. UNCHANGED outcome \/ RecordOutcome(e, 0, 0) \/ RecordOutcome(e, 1, CurrentSeq + 1)
      BY DEF PutRecord, Replay, Reject, Accept, relayVars
    <2> QED BY <2>1, <2>2, <2>3
  <1> QED BY <1>1 DEF Sent, SyncInv, SealedInv

LEMMA LateArrivalKeepsCursor ==
  ASSUME SyncInv, CursorInv, LateArrival
  PROVE  CursorInv'
  <1>1. PICK e \in late : PutRecord(e) /\ late' = late \ {e}
    BY DEF LateArrival
  <1>2. e \in sealed /\ Sent(e) /\ UNCHANGED <<minted, sealed>>
    BY <1>1 DEF SyncInv, HeldInv, Sent, LateArrival
  <1>3. UNCHANGED store /\ UNCHANGED proc /\ UNCHANGED overlapped
    BY DEF LateArrival
  <1>4. Grows
    BY <1>1, <1>2, ArrivalKeepsHistory
  <1>5. \A f \in sealed : Sent(f)' => Sent(f)
    BY <1>1, <1>2, ArrivalSends
  <1>6. ASSUME NEW c \in Device, c \notin overlapped
        PROVE  /\ HonestStore(store[c])'
               /\ \A q \in Process : q[1] = c => HonestMemory(store[c], proc[q])'
    BY <1>3, <1>4, <1>5, <1>6, OthersStayHonest DEF Own
  <1>7. ASSUME NEW q \in Process, q[1] \notin overlapped
        PROVE  HonestMemory(store[q[1]], proc[q])'
    <2>1. q[1] \in Device
      BY DEF Process
    <2> QED BY <1>6, <1>7, <2>1
  <1>8. AloneInv'
    BY <1>3 DEF CursorInv, AloneInv, Alone
  <1> QED BY <1>3, <1>6, <1>7, <1>8 DEF CursorInv

\* A candidate that was just sent is the one the sync asks about.
LEMMA PushCandidateKeepsCursor ==
  ASSUME SyncInv, CursorInv, NEW p \in Process, Undisturbed(p), PushCandidate(p)
  PROVE  CursorInv'
  <1>1. PICK s, m : s = store[p[1]] /\ m = proc[p]
    OBVIOUS
  <1>2. /\ m.pc = "push" /\ MemoryInv(p, m) /\ HonestMemory(s, m)
        /\ StoreOK(s) /\ StoreInv(p[1], s) /\ HonestStore(s)
    BY <1>1 DEF PushCandidate, At, SyncInv, TypeOK, HeldInv, CursorInv, Undisturbed, Process
  <1>3. PICK e \in m.queue :
          /\ PutRecord(e)
          /\ \/ Become(p, Idle)
             \/ Become(p, Answered(m.queue \ {e}, e, PutReply(e)))
    BY <1>1 DEF PushCandidate, Foremost
  <1>4. e \in sealed /\ Author(e) = p[1]
    BY <1>2, <1>3 DEF MemoryInv, Own
  <1>5. UNCHANGED store /\ late' \subseteq late /\ UNCHANGED <<minted, sealed>>
    BY DEF PushCandidate
  <1>6. Grows
    BY <1>3, <1>4, <1>5, ArrivalKeepsHistory
  <1>7. \A f \in sealed : Sent(f)' => Sent(f) \/ f = e
    BY <1>3, <1>4, <1>5, ArrivalSends
  <1>8. Commit(p, s)
    BY <1>1, <1>5 DEF Process, SyncInv, TypeOK, Commit
  <1>9. s.cursor \in Nat /\ s.cursor <= Len(changeLog) /\ s.cursor <= CurrentSeq
    BY <1>2 DEF StoreOK, StoreInv, CurrentSeq
  <1>10. HonestStore(s)'
    BY <1>2, <1>6, <1>9, HonestStoreGrows
  <1>11. PICK f : f = Answered(m.queue \ {e}, e, PutReply(e))
    OBVIOUS
  <1>12. /\ f.pc = "answered" /\ f.queue = m.queue \ {e} /\ f.candidate = e
         /\ f.reply = PutReply(e)
    BY <1>11, SMTT(30) DEF Answered
  <1>13. Asked(f) = Asked(m)
    BY <1>2, <1>3, <1>12, SMTT(30) DEF Asked
  <1>14. /\ \A g \in s.outbox : Sent(g)' => g \in Asked(f)
         /\ \A g \in Asked(f) : Settled(g, s.cursor)'
    <2>1. ASSUME NEW g \in s.outbox, Sent(g)' PROVE g \in Asked(f)
      <3>1. g \in sealed
        BY <1>2 DEF StoreInv, Own
      <3>2. CASE Sent(g)
        BY <1>2, <1>13, <3>2 DEF HonestMemory
      <3>3. CASE g = e
        BY <1>12, <3>3 DEF Asked
      <3> QED BY <1>7, <2>1, <3>1, <3>2, <3>3
    <2>2. ASSUME NEW g \in Asked(f) PROVE Settled(g, s.cursor)'
      BY <1>2, <1>6, <1>9, <1>13, SettledGrows DEF HonestMemory
    <2> QED BY <2>1, <2>2
  <1>15. ASSUME NEW head \in f.reply.head PROVE Reaches(head.env, s.cursor)'
    <2>1. head \in HeadOf(e.record)
      <3>1. OtherContent(e) \/ Replayed(e) \/ ~Replayed(e)
        OBVIOUS
      <3>2. f.reply.head \subseteq HeadOf(e.record)
        <4>1. Refusal.head = {} /\ Rejection(e.record).head = HeadOf(e.record)
          BY SMTT(30) DEF Refusal, Rejection
        <4>2. \A n : Acceptance(n).head = {}
          BY SMTT(30) DEF Acceptance
        <4>3. \/ f.reply = Refusal \/ f.reply = Rejection(e.record)
              \/ \E n : f.reply = Acceptance(n)
          <5>1. Replayed(e) => outcome[e.mutation].accepted \in {0, 1}
            BY DEF Replayed, SyncInv, TypeOK, RelayTypeOK
          <5> QED BY <1>12, <5>1, SMTT(30) DEF PutReply
        <4> QED BY <4>1, <4>2, <4>3
      <3> QED BY <1>15, <3>2
    <2>2. e.record \in DOMAIN recordHead
      BY <2>1 DEF HeadOf
    <2>3. Reaches(head.env, s.cursor)
      BY <1>9, <2>1, <2>2, HeadReaches DEF SyncInv
    <2> QED BY <1>6, <1>9, <2>3, ReachesGrows
  <1>16. HonestMemory(s, f)'
    BY <1>12, <1>14, <1>15, SMTT(30) DEF HonestMemory, Asked
  <1>17. HonestMemory(s, Idle)'
    BY IdleIsHonest DEF HonestMemory, Idle
  <1>18. Become(p, Idle) \/ Become(p, f)
    BY <1>3, <1>11
  <1>19. \A g \in sealed : Author(g) # p[1] /\ Sent(g)' => Sent(g)
    BY <1>4, <1>7
  <1> QED BY <1>6, <1>8, <1>10, <1>16, <1>17, <1>18, <1>19, SyncCursorStep

-----------------------------------------------------------------------------
(* Which heads a transaction changes. *)

\* e is the head of its record and the other heads are as they were.
HeadSet(s, t, e) ==
  /\ DOMAIN t.heads = DOMAIN s.heads \cup {e.record}
  /\ HeadEnv(t, e.record) = e
  /\ \A r \in DOMAIN s.heads : r # e.record => t.heads[r] = s.heads[r]

LEMMA ReplaceHeadSets ==
  ASSUME NEW s, NEW e, NEW seq
  PROVE  HeadSet(s, ReplaceHead(s, e, seq), e)
  <1> DEFINE h == [r \in DOMAIN s.heads \cup {e.record} |->
                     IF r = e.record THEN [env |-> e, seq |-> seq] ELSE s.heads[r]]
             t == ReplaceHead(s, e, seq)
  <1>1. t.heads = h
    BY StoreFields, SMTT(30) DEF ReplaceHead, Upsert
  <1> HIDE DEF t
  <1>2. HeadSet(s, t, e)
    BY <1>1, SMTT(30) DEF HeadSet, HeadEnv
  <1> QED BY <1>2 DEF t

LEMMA AcceptOutboxSets ==
  ASSUME NEW s, NEW e, NEW seq
  PROVE  HeadSet(s, AcceptOutbox(s, e, seq), e)
  <1>1. PICK u, t : u = ReplaceHead(s, e, seq) /\ t = AcceptOutbox(s, e, seq)
    OBVIOUS
  <1>2. t.heads = u.heads
    BY <1>1, StoreFields, SMTT(30) DEF AcceptOutbox, Dequeue
  <1>3. HeadSet(s, u, e)
    BY <1>1, ReplaceHeadSets
  <1>4. HeadSet(s, t, e)
    BY <1>2, <1>3 DEF HeadSet, HeadEnv
  <1> QED BY <1>1, <1>4

LEMMA SupersedeSets ==
  ASSUME NEW s, NEW head
  PROVE  HeadSet(s, Supersede(s, head), head.env)
  <1>1. PICK u : u = StoreOf(s.heads, s.outbox \ Queued(s, head.env.record), s.cursor, s.ancestors)
    OBVIOUS
  <1>2. u.heads = s.heads
    BY <1>1, StoreFields, SMTT(30)
  <1>3. HeadSet(u, ReplaceHead(u, head.env, head.seq), head.env)
    BY ReplaceHeadSets
  <1> QED BY <1>1, <1>2, <1>3 DEF HeadSet, Supersede

\* Only the head of record r may differ.
OthersKept(s, t, r) ==
  /\ DOMAIN t.heads = DOMAIN s.heads \cup {r}
  /\ \A x \in DOMAIN s.heads : x # r => t.heads[x] = s.heads[x]

LEMMA ApplyLocalKeepsOthers ==
  ASSUME NEW s, StoreOK(s), NEW e \in Envelope
  PROVE  OthersKept(s, ApplyLocal(s, e), e.record)
  <1>1. PICK t : t = ApplyLocal(s, e)
    OBVIOUS
  <1>2. HeadsOrKept(s, t, e) /\ StoreOK(t)
    BY <1>1, ApplyLocalStore
  <1>3. OthersKept(s, t, e.record)
    BY <1>2 DEF OthersKept, HeadsOrKept, StoreOK, HeadEnv
  <1> QED BY <1>1, <1>3

\* What ResolveConflict does to the store.
Resolved(s, t, candidate, copy, head) ==
  /\ t.cursor = s.cursor
  /\ t.outbox \subseteq s.outbox \cup {copy}
  /\ {f \in s.outbox : f.mutation # candidate.mutation} \subseteq t.outbox
  /\ copy.mutation # candidate.mutation => \E f \in t.outbox : f.mutation = copy.mutation
  /\ \A f \in t.outbox : f.mutation # candidate.mutation
  /\ DOMAIN t.heads = DOMAIN s.heads \cup {copy.record, head.env.record}
  /\ HeadEnv(t, head.env.record) = head.env
  /\ \A r \in DOMAIN s.heads :
       r # copy.record /\ r # head.env.record => t.heads[r] = s.heads[r]

LEMMA ResolveConflictSets ==
  ASSUME NEW s, StoreOK(s), NEW candidate, NEW copy \in Envelope, NEW head \in Row,
         copy.record # head.env.record
  PROVE  Resolved(s, ResolveConflict(s, candidate, copy, head), candidate, copy, head)
  <1>0. PICK t : t = ResolveConflict(s, candidate, copy, head)
    OBVIOUS
  <1>1. PICK u, v : u = ApplyLocal(s, copy) /\ v = ReplaceHead(u, head.env, head.seq)
    OBVIOUS
  <1>2. OthersKept(s, u, copy.record)
    BY <1>1, ApplyLocalKeepsOthers
  <1>3. HeadSet(u, v, head.env)
    BY <1>1, ReplaceHeadSets
  <1>4. t.heads = v.heads /\ t.outbox = {f \in v.outbox : f.mutation # candidate.mutation}
    BY <1>0, <1>1, StoreFields, SMTT(30) DEF ResolveConflict, Dequeue
  <1>5. /\ DOMAIN t.heads = DOMAIN s.heads \cup {copy.record, head.env.record}
        /\ HeadEnv(t, head.env.record) = head.env
        /\ \A r \in DOMAIN s.heads :
             r # copy.record /\ r # head.env.record => t.heads[r] = s.heads[r]
        /\ \A f \in t.outbox : f.mutation # candidate.mutation
    BY <1>2, <1>3, <1>4 DEF OthersKept, HeadSet, HeadEnv
  <1>6. /\ t.cursor = s.cursor
        /\ t.outbox \subseteq s.outbox \cup {copy}
        /\ {f \in s.outbox : f.mutation # candidate.mutation} \subseteq t.outbox
        /\ copy.mutation # candidate.mutation =>
             \E f \in t.outbox : f.mutation = copy.mutation
    <2>1. /\ u.cursor = s.cursor /\ StoreOK(u)
          /\ u.outbox \subseteq s.outbox \cup {copy} /\ s.outbox \subseteq u.outbox
          /\ \E f \in u.outbox : f.mutation = copy.mutation
      BY <1>1, ApplyLocalStore
    <2>2. head.env \in Envelope /\ head.seq \in Nat
      BY DEF Row
    <2>3. v.outbox = u.outbox /\ v.cursor = u.cursor
      BY <1>1, <2>1, <2>2, ReplaceHeadStore
    <2>4. t.cursor = v.cursor
      BY <1>0, <1>1, StoreFields, SMTT(30) DEF ResolveConflict, Dequeue
    <2> QED BY <1>4, <2>1, <2>3, <2>4
  <1> QED BY <1>0, <1>5, <1>6 DEF Resolved

-----------------------------------------------------------------------------
(* Settling a candidate. *)

\* Installing a head that reaches the cursor keeps the store honest.
LEMMA InstallIsHonest ==
  ASSUME NEW s, StoreOK(s), HonestStore(s), NEW t, t.cursor = s.cursor,
         Len(changeLog) \in Nat,
         NEW e, Reaches(e, s.cursor), e.record \in DOMAIN t.heads,
         HeadEnv(t, e.record) = e, DOMAIN s.heads \subseteq DOMAIN t.heads,
         \A r \in DOMAIN s.heads :
           r # e.record /\ Queued(t, r) = {} => t.heads[r] = s.heads[r],
         \A r \in DOMAIN t.heads :
           r # e.record /\ Queued(t, r) = {} => r \in DOMAIN s.heads,
         \A r : r # e.record /\ Queued(t, r) = {} => Queued(s, r) = {},
         \A f \in t.outbox : Settled(f, s.cursor)
  PROVE  HonestStore(t)
  <1>1. PICK k \in 1..Len(changeLog) :
          /\ changeLog[k] = e
          /\ \A n \in 1..s.cursor : changeLog[n].record = e.record => n <= k
    BY DEF Reaches
  <1>2. ASSUME NEW n \in 1..t.cursor PROVE HonestAt(t, n)
    <2>1. PICK r : r = changeLog[n].record
      OBVIOUS
    <2>2. HonestAt(s, n)
      BY DEF HonestStore
    <2>3. CASE r = e.record
      <3>1. n <= k
        BY <1>1, <2>1, <2>3
      <3>2. k \in n..Len(changeLog)
        BY <1>1, <3>1, SMTT(30) DEF StoreOK
      <3> QED BY <1>1, <2>1, <2>3, <3>2 DEF HonestAt, HasHead
    <2>4. CASE r # e.record
      BY <2>1, <2>2, <2>4 DEF HonestAt, HasHead, HeadEnv
    <2> QED BY <2>3, <2>4
  <1>3. ASSUME NEW r \in DOMAIN t.heads, Queued(t, r) = {} PROVE InLog(HeadEnv(t, r))
    <2>1. CASE r = e.record
      BY <1>1, <2>1 DEF InLog
    <2>2. CASE r # e.record
      BY <1>3, <2>2 DEF HonestStore, HeadEnv
    <2> QED BY <2>1, <2>2
  <1> QED BY <1>2, <1>3 DEF HonestStore

\* What settling leaves to ask about.
LEMMA PushingIsHonest ==
  ASSUME NEW s, NEW m, m.pc = "answered" \/ m.pc = "preserved", HonestMemory(s, m),
         NEW t, t.cursor = s.cursor,
         \A f \in t.outbox : Sent(f) => f \in s.outbox /\ f # m.candidate
  PROVE  HonestMemory(t, Pushing(m.queue))
  <1>1. PICK n : n = Pushing(m.queue)
    OBVIOUS
  <1>2. n.pc = "push" /\ n.queue = m.queue
    BY <1>1, SMTT(30) DEF Pushing
  <1>3. Asked(n) = m.queue /\ Asked(m) = m.queue \cup {m.candidate}
    BY <1>2, SMTT(30) DEF Asked
  <1>4. /\ \A e \in s.outbox : Sent(e) => e \in Asked(m)
        /\ \A e \in Asked(m) : Settled(e, s.cursor)
    BY DEF HonestMemory
  <1>5. HonestMemory(t, n)
    BY <1>2, <1>3, <1>4, SMTT(30) DEF HonestMemory
  <1> QED BY <1>1, <1>5

LEMMA SettleAcceptedKeepsCursor ==
  ASSUME SyncInv, CursorInv, NEW p \in Process, Undisturbed(p), SettleAccepted(p)
  PROVE  CursorInv'
  <1>1. PICK m, s : m = proc[p] /\ s = store[p[1]]
    OBVIOUS
  <1>2. m.pc = "answered" /\ m.reply.kind = "accepted" /\ HonestMemory(s, m) /\ HonestStore(s)
    BY <1>1 DEF SettleAccepted, At, CursorInv, Undisturbed, Process
  <1>3. /\ ProcOK(m) /\ MemoryInv(p, m) /\ StoreOK(s)
        /\ m.candidate \in Envelope
        /\ \A f \in s.outbox : f.mutation = m.candidate.mutation => f = m.candidate
    BY <1>1, <1>2, SettlingState
  <1>4. PICK e \in Envelope, n \in Nat : e = m.candidate /\ n = m.reply.seq /\ InLog(e)
    BY <1>2, <1>3, AnsweredMemory DEF ReplyOK, AnswerInv
  <1>5. PICK t : t = AcceptOutbox(s, e, n)
    OBVIOUS
  <1>6. /\ t.cursor = s.cursor
        /\ t.outbox = {f \in s.outbox : f.mutation # e.mutation}
    <2>1. /\ AcceptOutbox(s, e, n).cursor = s.cursor
          /\ AcceptOutbox(s, e, n).outbox = {f \in s.outbox : f.mutation # e.mutation}
      BY <1>3, AcceptOutboxStore
    <2> QED BY <1>5, <2>1
  <1>7. HeadSet(s, t, e)
    BY <1>5, AcceptOutboxSets
  <1>8. Reaches(e, s.cursor)
    BY <1>2, <1>4 DEF HonestMemory, Asked, Settled
  <1>9. \A r : r # e.record /\ Queued(t, r) = {} => Queued(s, r) = {}
    BY <1>3, <1>4, <1>6 DEF Queued
  <1>10. \A f \in t.outbox : Settled(f, s.cursor) /\ f \in s.outbox /\ f # e
    BY <1>2, <1>6 DEF HonestStore
  <1>11. Len(changeLog) \in Nat
    BY SMTT(30) DEF SyncInv, TypeOK, RelayTypeOK
  <1>12. HonestStore(t)
    BY <1>2, <1>3, <1>6, <1>7, <1>8, <1>9, <1>10, <1>11, InstallIsHonest DEF HeadSet
  <1>13. HonestMemory(t, Pushing(m.queue))
    <2>1. m.pc = "answered" \/ m.pc = "preserved"
      BY <1>2
    <2>2. \A f \in t.outbox : Sent(f) => f \in s.outbox /\ f # m.candidate
      BY <1>4, <1>10
    <2>3. HonestMemory(s, m) /\ t.cursor = s.cursor
      BY <1>2, <1>6
    <2> QED BY <2>1, <2>2, <2>3, PushingIsHonest
  <1>14. /\ Commit(p, t) /\ Become(p, Pushing(m.queue))
         /\ UNCHANGED <<relayVars, late>> /\ sealed \subseteq sealed'
    BY <1>1, <1>4, <1>5 DEF SettleAccepted
  <1> QED BY <1>12, <1>13, <1>14, LocalCursorStep

LEMMA SettleSupersededKeepsCursor ==
  ASSUME SyncInv, CursorInv, NEW p \in Process, Undisturbed(p), SettleSuperseded(p)
  PROVE  CursorInv'
  <1>1. PICK m, s : m = proc[p] /\ s = store[p[1]]
    OBVIOUS
  <1>2. m.pc = "answered" /\ HonestMemory(s, m) /\ HonestStore(s)
    BY <1>1 DEF SettleSuperseded, At, CursorInv, Undisturbed, Process
  <1>3. ProcOK(m) /\ MemoryInv(p, m) /\ StoreOK(s)
    BY <1>1, <1>2, SettlingState
  <1>4. PICK head \in m.reply.head : Commit(p, Supersede(s, head))
    BY <1>1 DEF SettleSuperseded
  <1>5. head \in Row /\ head.env.record = m.candidate.record
    BY <1>2, <1>3, AnsweredMemory DEF ReplyOK, AnswerInv
  <1>6. PICK t, e : t = Supersede(s, head) /\ e = head.env
    OBVIOUS
  <1>7. t.cursor = s.cursor /\ t.outbox = {f \in s.outbox : f.record # e.record}
    <2>1. /\ Supersede(s, head).cursor = s.cursor
          /\ Supersede(s, head).outbox = {f \in s.outbox : f.record # head.env.record}
      BY <1>3, <1>5, SupersedeStore
    <2> QED BY <1>6, <2>1
  <1>8. HeadSet(s, t, e)
    BY <1>6, SupersedeSets
  <1>9. Reaches(e, s.cursor)
    BY <1>2, <1>4, <1>6 DEF HonestMemory
  <1>10. \A r : r # e.record /\ Queued(t, r) = {} => Queued(s, r) = {}
    BY <1>7 DEF Queued
  <1>11. \A f \in t.outbox : Settled(f, s.cursor) /\ f \in s.outbox /\ f # m.candidate
    BY <1>2, <1>5, <1>6, <1>7 DEF HonestStore
  <1>12. Len(changeLog) \in Nat
    BY SMTT(30) DEF SyncInv, TypeOK, RelayTypeOK
  <1>13. HonestStore(t)
    BY <1>2, <1>3, <1>7, <1>8, <1>9, <1>10, <1>11, <1>12, InstallIsHonest DEF HeadSet
  <1>14. HonestMemory(t, Pushing(m.queue))
    <2>1. m.pc = "answered" \/ m.pc = "preserved"
      BY <1>2
    <2>2. \A f \in t.outbox : Sent(f) => f \in s.outbox /\ f # m.candidate
      BY <1>11
    <2>3. HonestMemory(s, m) /\ t.cursor = s.cursor
      BY <1>2, <1>7
    <2> QED BY <2>1, <2>2, <2>3, PushingIsHonest
  <1>15. /\ Commit(p, t) /\ Become(p, Pushing(m.queue))
         /\ UNCHANGED <<relayVars, late>> /\ sealed \subseteq sealed'
    BY <1>1, <1>4, <1>6 DEF SettleSuperseded
  <1> QED BY <1>13, <1>14, <1>15, LocalCursorStep

\* The preserved copy is queued, so its record owes the cursor nothing.
LEMMA SettlePreservedKeepsCursor ==
  ASSUME SyncInv, CursorInv, NEW p \in Process, Undisturbed(p), SettlePreserved(p)
  PROVE  CursorInv'
  <1>1. PICK m, s : m = proc[p] /\ s = store[p[1]]
    OBVIOUS
  <1>2. m.pc = "preserved" /\ HonestMemory(s, m) /\ HonestStore(s)
    BY <1>1 DEF SettlePreserved, At, CursorInv, Undisturbed, Process
  <1>3. /\ ProcOK(m) /\ MemoryInv(p, m) /\ StoreOK(s)
        /\ m.candidate \in sealed /\ m.candidate \in Envelope
        /\ \A f \in s.outbox : f \in sealed /\ (f.mutation = m.candidate.mutation => f = m.candidate)
    BY <1>1, <1>2, SettlingState
  <1>4. PICK e, copy, head : e = m.candidate /\ copy = m.copy /\ head = m.head
    OBVIOUS
  <1>5. /\ copy \in Envelope /\ head \in Row /\ copy \in sealed
        /\ ~IsConflictRecord(e) /\ copy.record = ConflictID(e)
        /\ head.env.record = e.record
    BY <1>2, <1>3, <1>4, PreservedMemory DEF Own
  <1>6. e.record \in Base /\ copy.record \notin Base /\ copy.mutation # e.mutation
    <2>1. e \in Envelope /\ e \in sealed
      BY <1>3, <1>4
    <2>2. e.record \in Base /\ copy.record \notin Base
      BY <1>5, <2>1, ConflictIDType
    <2> QED BY <1>5, <2>1, <2>2 DEF SyncInv, SealedInv
  <1>7. Reaches(head.env, s.cursor) /\ ~Sent(copy)
    BY <1>2, <1>4 DEF HonestMemory
  <1>8. UNCHANGED <<relayVars, late>> /\ sealed \subseteq sealed'
    BY DEF SettlePreserved
  <1>9. CASE Become(p, Idle) /\ UNCHANGED store
    BY <1>8, <1>9, IdleIsHonest, QuietCursorStep
  <1>10. CASE /\ Commit(p, ResolveConflict(s, e, copy, head))
              /\ Become(p, Pushing(m.queue))
    <2>1. PICK t : t = ResolveConflict(s, e, copy, head)
      OBVIOUS
    <2>h. PICK h : h = head.env
      OBVIOUS
    <2>2. Resolved(s, t, e, copy, head)
      <3>1. copy.record # head.env.record
        BY <1>5, <1>6
      <3>2. Resolved(s, ResolveConflict(s, e, copy, head), e, copy, head)
        BY <1>3, <1>5, <3>1, ResolveConflictSets
      <3> QED BY <2>1, <3>2
    <2>3. /\ DOMAIN t.heads = DOMAIN s.heads \cup {copy.record, h.record}
          /\ HeadEnv(t, h.record) = h
          /\ \A r \in DOMAIN s.heads :
               r # copy.record /\ r # h.record => t.heads[r] = s.heads[r]
          /\ \A f \in t.outbox : f.mutation # e.mutation
      BY <2>h, <2>2 DEF Resolved
    <2>4. copy \in t.outbox
      <3>1. PICK f \in t.outbox : f.mutation = copy.mutation
        BY <1>6, <2>2 DEF Resolved
      <3>2. f \in sealed
        BY <1>3, <1>5, <2>2 DEF Resolved
      <3> QED BY <1>5, <3>1, <3>2 DEF SyncInv, SealedInv
    <2>5. Queued(t, copy.record) # {}
      BY <2>4 DEF Queued
    <2>6. \A r : r # h.record /\ Queued(t, r) = {} => Queued(s, r) = {}
      BY <1>3, <1>4, <1>5, <2>h, <2>2 DEF Queued, Resolved
    <2>7. ASSUME NEW f \in t.outbox
          PROVE  Settled(f, s.cursor) /\ (Sent(f) => f \in s.outbox /\ f # m.candidate)
      <3>1. CASE f \in s.outbox
        BY <1>2, <1>4, <2>3, <3>1 DEF HonestStore
      <3>2. CASE f = copy
        BY <1>7, <3>2, InLogIsSent DEF Settled, SyncInv
      <3> QED BY <2>2, <3>1, <3>2 DEF Resolved
    <2>8. Len(changeLog) \in Nat
      BY SMTT(30) DEF SyncInv, TypeOK, RelayTypeOK
    <2>9. /\ \A r \in DOMAIN s.heads :
               r # h.record /\ Queued(t, r) = {} => t.heads[r] = s.heads[r]
          /\ \A r \in DOMAIN t.heads :
               r # h.record /\ Queued(t, r) = {} => r \in DOMAIN s.heads
          /\ h.record \in DOMAIN t.heads /\ DOMAIN s.heads \subseteq DOMAIN t.heads
      BY <2>3, <2>5
    <2>10. HonestStore(t)
      <3>1. t.cursor = s.cursor /\ Reaches(h, s.cursor)
        BY <1>7, <2>h, <2>2 DEF Resolved
      <3> QED BY <1>2, <1>3, <2>3, <2>6, <2>7, <2>8, <2>9, <3>1, InstallIsHonest
    <2>11. HonestMemory(t, Pushing(m.queue))
      <3>1. m.pc = "answered" \/ m.pc = "preserved"
        BY <1>2
      <3>2. HonestMemory(s, m) /\ t.cursor = s.cursor
        BY <1>2, <2>2 DEF Resolved
      <3> QED BY <2>7, <3>1, <3>2, PushingIsHonest
    <2>12. Commit(p, t) /\ Become(p, Pushing(m.queue))
      BY <1>10, <2>1
    <2> QED BY <1>8, <2>10, <2>11, <2>12, LocalCursorStep
  <1> QED BY <1>1, <1>4, <1>9, <1>10 DEF SettlePreserved

-----------------------------------------------------------------------------
(* Applying a page. *)

\* The head of record r after a batch: the batch's last entry of r, unless
\* that is the head already.
BatchHead(s, t, log, batch, r) ==
  IF \E i \in batch : log[i].record = r
  THEN \E i \in batch :
         /\ log[i].record = r /\ \A j \in batch : log[j].record = r => i >= j
         /\ HasHead(t, r)
         /\ \/ HeadEnv(t, r) = log[i]
            \/ HasHead(s, r) /\ Same(log[i], HeadEnv(s, r))
  ELSE /\ HasHead(t, r) => HasHead(s, r)
       /\ HasHead(s, r) => HasHead(t, r) /\ HeadEnv(t, r) = HeadEnv(s, r)

LEMMA ApplyRemoteBatchHeads ==
  ASSUME NEW s, NEW log, NEW batch, PositionsOf(log, batch), NEW cursor, NEW r,
         NEW t, t = ApplyRemoteBatch(s, log, batch, cursor)
  PROVE  BatchHead(s, t, log, batch, r)
  <1> DEFINE last(x) == Max(OfRecord(log, batch, x))
             touched == {log[i].record : i \in batch}
             kept(x) == HasHead(s, x) /\ Same(log[last(x)], HeadEnv(s, x))
             h == [x \in DOMAIN s.heads \cup touched |->
                     IF x \in touched /\ ~kept(x)
                     THEN [env |-> log[last(x)], seq |-> last(x)]
                     ELSE s.heads[x]]
  <1>1. t.heads = h
    BY StoreFields, SMTT(30) DEF ApplyRemoteBatch
  <1>2. CASE r \in touched
    <2>1. PICK n \in Nat : batch \subseteq 1..n
      BY DEF PositionsOf
    <2>2. OfRecord(log, batch, r) \subseteq 1..n /\ OfRecord(log, batch, r) # {}
      BY <1>2, <2>1 DEF OfRecord
    <2>3. PICK i : i = last(r)
      OBVIOUS
    <2>4. i \in OfRecord(log, batch, r) /\ \A j \in OfRecord(log, batch, r) : i >= j
      BY <2>1, <2>2, <2>3, LastPosition
    <2>5. i \in batch /\ log[i].record = r /\ \A j \in batch : log[j].record = r => i >= j
      BY <2>4 DEF OfRecord
    <2>6. HasHead(t, r)
      BY <1>1, <1>2 DEF HasHead
    <2>7. kept(r) \/ HeadEnv(t, r) = log[i]
      <3>1. ASSUME ~kept(r) PROVE t.heads[r] = [env |-> log[i], seq |-> i]
        BY <1>1, <1>2, <2>3, <3>1
      <3>2. [env |-> log[i], seq |-> i].env = log[i]
        BY SMTT(30)
      <3> QED BY <3>1, <3>2 DEF HeadEnv
    <2>8. kept(r) => HasHead(s, r) /\ Same(log[i], HeadEnv(s, r))
      BY <2>3
    <2> QED BY <2>5, <2>6, <2>7, <2>8 DEF BatchHead
  <1>3. CASE r \notin touched
    <2>1. r \in DOMAIN h <=> r \in DOMAIN s.heads
      BY <1>3
    <2>2. r \in DOMAIN s.heads => h[r] = s.heads[r]
      BY <1>3
    <2>3. ~\E i \in batch : log[i].record = r
      BY <1>3
    <2> HIDE DEF h
    <2> QED BY <1>1, <2>1, <2>2, <2>3 DEF BatchHead, HasHead, HeadEnv
  <1> QED BY <1>2, <1>3

LEMMA PageIsHonest ==
  ASSUME SyncInv, NEW s, StoreOK(s), HonestStore(s), NEW m, PageInv(s, m),
         m.next \in Nat, m.next <= Len(changeLog), m.batch \subseteq 1..m.next,
         \A e \in s.outbox : ~Sent(e),
         NEW t, t.outbox = s.outbox, t.cursor = m.next,
         \A r : BatchHead(s, t, changeLog, m.batch, r)
  PROVE  HonestStore(t)
  <1>1. Len(changeLog) \in Nat /\ RelayInv
    BY SMTT(30) DEF SyncInv, TypeOK, RelayTypeOK
  <1>2. \A r : Queued(t, r) = Queued(s, r)
    BY DEF Queued
  <1>3. ASSUME NEW r, Queued(s, r) = {}, NEW i \in m.batch, changeLog[i].record = r,
               HasHead(s, r) /\ Same(changeLog[i], HeadEnv(s, r))
        PROVE  FALSE
    <2>1. changeLog[i].rev > HeadEnv(s, r).rev /\ changeLog[i].rev = HeadEnv(s, r).rev
      BY <1>3 DEF PageInv, Ahead, Same
    <2>2. changeLog[i].rev \in Nat
      <3>1. i \in 1..Len(changeLog)
        BY <1>1, SMTT(30)
      <3> QED BY <1>1, <3>1, LogRevisions
    <2> QED BY <2>1, <2>2, SMTT(30)
  <1>4. ASSUME NEW n \in 1..m.next PROVE HonestAt(t, n)
    <2>1. PICK r : r = changeLog[n].record
      OBVIOUS
    <2>2. SUFFICES ASSUME Queued(s, r) = {}
                   PROVE  HasHead(t, r) /\ \E j \in n..Len(changeLog) : changeLog[j] = HeadEnv(t, r)
      BY <1>2, <2>1 DEF HonestAt
    <2>3. n \in m.batch \/ HonestAt(s, n)
      BY DEF PageInv
    <2>4. CASE ~\E i \in m.batch : changeLog[i].record = r
      <3>1. HonestAt(s, n)
        BY <2>1, <2>3, <2>4
      <3> QED BY <2>1, <2>2, <2>4, <3>1 DEF HonestAt, BatchHead
    <2>5. CASE \E i \in m.batch : changeLog[i].record = r
      <3>1. PICK i \in m.batch :
              /\ changeLog[i].record = r /\ \A j \in m.batch : changeLog[j].record = r => i >= j
              /\ HasHead(t, r)
              /\ HeadEnv(t, r) = changeLog[i] \/ (HasHead(s, r) /\ Same(changeLog[i], HeadEnv(s, r)))
        BY <2>5 DEF BatchHead
      <3>2. HeadEnv(t, r) = changeLog[i]
        BY <1>3, <2>2, <3>1
      <3>3. i \in 1..Len(changeLog) /\ n \in 1..Len(changeLog)
        BY <1>1, SMTT(30)
      <3>4. i >= n
        <4>1. CASE n \in m.batch
          BY <2>1, <3>1, <4>1
        <4>2. CASE n \notin m.batch
          <5>1. HonestAt(s, n)
            BY <2>3, <4>2
          <5>2. HasHead(s, r) /\ \E j \in n..Len(changeLog) : changeLog[j] = HeadEnv(s, r)
            BY <2>1, <2>2, <5>1 DEF HonestAt
          <5>3. PICK j \in n..Len(changeLog) : changeLog[j] = HeadEnv(s, r)
            BY <5>2
          <5>4. j \in 1..Len(changeLog)
            BY <1>1, <3>3, <5>3, SMTT(30)
          <5>5. changeLog[j].record = r
            BY <5>2, <5>3 DEF StoreOK, HasHead, HeadEnv
          <5>6. changeLog[i].rev > changeLog[j].rev
            BY <2>2, <3>1, <5>2, <5>3 DEF PageInv, Ahead
          <5>7. changeLog[i].rev \in Nat /\ changeLog[j].rev \in Nat
            BY <1>1, <3>3, <5>4, LogRevisions
          <5>8. i < j => changeLog[i].rev < changeLog[j].rev
            BY <1>1, <3>1, <3>3, <5>4, <5>5, RevisionsIncrease
          <5> QED BY <3>3, <5>3, <5>4, <5>6, <5>7, <5>8, SMTT(30)
        <4> QED BY <4>1, <4>2
      <3>5. i \in n..Len(changeLog)
        BY <1>1, <3>3, <3>4, SMTT(30)
      <3> QED BY <3>1, <3>2, <3>5
    <2> QED BY <2>4, <2>5
  <1>5. ASSUME NEW r \in DOMAIN t.heads, Queued(t, r) = {} PROVE InLog(HeadEnv(t, r))
    <2>0. BatchHead(s, t, changeLog, m.batch, r) /\ Queued(s, r) = {} /\ HasHead(t, r)
      BY <1>2, <1>5 DEF HasHead
    <2>1. CASE ~\E i \in m.batch : changeLog[i].record = r
      BY <2>0, <2>1 DEF BatchHead, HonestStore, HasHead
    <2>2. CASE \E i \in m.batch : changeLog[i].record = r
      <3>1. PICK i \in m.batch :
              /\ changeLog[i].record = r
              /\ HeadEnv(t, r) = changeLog[i] \/ (HasHead(s, r) /\ Same(changeLog[i], HeadEnv(s, r)))
        BY <2>0, <2>2 DEF BatchHead
      <3>2. HeadEnv(t, r) = changeLog[i]
        BY <1>3, <2>0, <3>1
      <3>3. i \in 1..Len(changeLog)
        BY <1>1, SMTT(30)
      <3> QED BY <3>2, <3>3 DEF InLog
    <2> QED BY <2>1, <2>2
  <1>6. \A e \in t.outbox : Settled(e, t.cursor)
    BY <1>1, InLogIsSent DEF Settled
  <1> QED BY <1>4, <1>5, <1>6 DEF HonestStore

LEMMA ApplyPageKeepsCursor ==
  ASSUME SyncInv, CursorInv, NEW p \in Process, Undisturbed(p), ApplyPage(p)
  PROVE  CursorInv'
  <1>1. PICK m, s : m = proc[p] /\ s = store[p[1]]
    OBVIOUS
  <1>2. /\ m.pc = "filtered" /\ ProcOK(m) /\ MemoryInv(p, m) /\ HonestMemory(s, m)
        /\ StoreOK(s) /\ HonestStore(s)
    BY <1>1 DEF ApplyPage, At, SyncInv, TypeOK, CursorInv, Undisturbed, Process
  <1>3. m.through \in Nat /\ m.next \in Nat /\ Len(changeLog) \in Nat
    BY <1>2, SMTT(30) DEF ProcOK, Idle, SyncInv, TypeOK, RelayTypeOK
  <1>4. m.next <= Len(changeLog) /\ m.batch \subseteq 1..m.next
    BY <1>2, <1>3, SMTT(30) DEF MemoryInv, CurrentSeq
  <1>5. PageInv(s, m) /\ \A e \in s.outbox : ~Sent(e)
    BY <1>2 DEF HonestMemory
  <1>6. UNCHANGED <<relayVars, late>> /\ sealed \subseteq sealed'
    BY DEF ApplyPage
  <1>7. CASE Become(p, Idle) /\ UNCHANGED store
    BY <1>6, <1>7, IdleIsHonest, QuietCursorStep
  <1>8. CASE /\ Commit(p, ApplyRemoteBatch(s, changeLog, m.batch, m.next))
             /\ Become(p, IF m.next < m.through
                          THEN Pulling(m.next, m.through) ELSE Idle)
    <2>1. PICK t : t = ApplyRemoteBatch(s, changeLog, m.batch, m.next)
      OBVIOUS
    <2>2. PositionsOf(changeLog, m.batch)
      <3>1. changeLog \in Seq(Envelope) /\ m.batch \subseteq 1..Len(changeLog)
        BY <1>3, <1>4, SMTT(30) DEF SyncInv, TypeOK, RelayTypeOK
      <3> QED BY <1>3, <3>1, SMTT(30) DEF PositionsOf
    <2>3. t.outbox = s.outbox /\ t.cursor = m.next
      BY <2>1, StoreFields, SMTT(30) DEF ApplyRemoteBatch
    <2>4. \A r : BatchHead(s, t, changeLog, m.batch, r)
      BY <2>1, <2>2, ApplyRemoteBatchHeads
    <2>5. HonestStore(t)
      BY <1>2, <1>3, <1>4, <1>5, <2>3, <2>4, PageIsHonest
    <2>6. PICK f : f = Pulling(m.next, m.through)
      OBVIOUS
    <2>7. f.pc = "pull" /\ f.since = m.next
      BY <2>6, SMTT(30) DEF Pulling
    <2>8. HonestMemory(t, f)
      BY <1>5, <2>3, <2>7, SMTT(30) DEF HonestMemory
    <2>9. Commit(p, t) /\ (Become(p, Idle) \/ Become(p, f))
      BY <1>8, <2>1, <2>6
    <2> QED BY <1>6, <2>5, <2>8, <2>9, IdleIsHonest, LocalCursorStep
  <1> QED BY <1>1, <1>7, <1>8 DEF ApplyPage

-----------------------------------------------------------------------------
(* A user's writes. *)

\* A new write is queued, and the other records are as they were.
LEMMA LocalWriteIsHonest ==
  ASSUME RelayInv, NEW s, StoreOK(s), HonestStore(s), NEW e \in Envelope, ~Sent(e),
         \A f \in s.outbox : f.mutation # e.mutation,
         NEW t, t = ApplyLocal(s, e)
  PROVE  /\ StoreOK(t) /\ HonestStore(t) /\ t.outbox = s.outbox \cup {e}
         /\ \A m : HonestMemory(s, m) => HonestMemory(t, m)
  <1>1. /\ StoreOK(t) /\ t.cursor = s.cursor
        /\ t.outbox \subseteq s.outbox \cup {e} /\ s.outbox \subseteq t.outbox
        /\ \E f \in t.outbox : f.mutation = e.mutation
    BY ApplyLocalStore
  <1>2. t.outbox = s.outbox \cup {e}
    BY <1>1
  <1>3. /\ DOMAIN t.heads = DOMAIN s.heads \cup {e.record}
        /\ \A r \in DOMAIN s.heads : r # e.record => t.heads[r] = s.heads[r]
    <2>1. OthersKept(s, t, e.record)
      BY ApplyLocalKeepsOthers
    <2> QED BY <2>1 DEF OthersKept
  <1>4. \A r : Queued(t, r) = {} => r # e.record /\ Queued(s, r) = {}
    BY <1>2 DEF Queued
  <1>5. Settled(e, s.cursor)
    BY InLogIsSent DEF Settled
  <1>6. \A n : HonestAt(s, n) => HonestAt(t, n)
    BY <1>3, <1>4 DEF HonestAt, HasHead, HeadEnv
  <1>7. HonestStore(t)
    <2>1. \A n \in 1..t.cursor : HonestAt(t, n)
      BY <1>1, <1>6 DEF HonestStore
    <2>2. \A r \in DOMAIN t.heads : Queued(t, r) = {} => InLog(HeadEnv(t, r))
      BY <1>3, <1>4 DEF HonestStore, HeadEnv
    <2>3. \A f \in t.outbox : Settled(f, t.cursor)
      BY <1>1, <1>2, <1>5 DEF HonestStore
    <2> QED BY <2>1, <2>2, <2>3 DEF HonestStore
  <1>8. ASSUME NEW m, HonestMemory(s, m) PROVE HonestMemory(t, m)
    <2>1. PageInv(s, m) => PageInv(t, m)
      <3>1. \A r : Queued(t, r) = {} => /\ HasHead(t, r) <=> HasHead(s, r)
                                        /\ HasHead(s, r) => HeadEnv(t, r) = HeadEnv(s, r)
        BY <1>3, <1>4 DEF HasHead, HeadEnv
      <3> QED BY <1>4, <1>6, <3>1 DEF PageInv, Ahead
    <2>2. \A f \in t.outbox : Sent(f) => f \in s.outbox
      BY <1>2
    <2> QED BY <1>1, <1>8, <2>1, <2>2 DEF HonestMemory
  <1> QED BY <1>1, <1>2, <1>7, <1>8

\* A mutation not minted yet is in no outbox and was never sent.
LEMMA SealableIsUnsent ==
  ASSUME SyncInv, NEW d \in Device, NEW e, Sealable(d, e)
  PROVE  ~Sent(e) /\ \A f \in sealed : f.mutation # e.mutation
  <1>1. minted[d] \in Nat
    BY SyncConstants, SMTT(30) DEF SyncInv, TypeOK
  <1>2. ~(e.mutation[2] <= minted[e.mutation[1]])
    BY <1>1, SMTT(30) DEF Sealable
  <1> QED BY <1>2 DEF Sent, SyncInv, SealedInv, HeldInv, Author

\* The other devices, and the syncs of this one, see no difference.
LEMMA UserCursorStep ==
  ASSUME SyncInv, CursorInv, NEW d \in Device, NEW t, store' = [store EXCEPT ![d] = t],
         UNCHANGED <<relayVars, late>>, UNCHANGED proc, UNCHANGED overlapped,
         sealed \subseteq sealed',
         HonestStore(store[d]) => HonestStore(t),
         HonestStore(store[d]) => \A m : HonestMemory(store[d], m) => HonestMemory(t, m)
  PROVE  CursorInv'
  <1>1. Grows
    BY LocalStepGrows DEF SyncInv, TypeOK
  <1>2. \A e \in sealed : Sent(e)' => Sent(e)
    BY DEF Sent, relayVars
  <1>3. ASSUME d \notin overlapped PROVE HonestDevice(d, t)'
    <2>1. HonestStore(store[d])
      BY <1>3 DEF CursorInv
    <2>2. HonestStore(t)'
      BY <2>1, HonestKept
    <2>3. ASSUME NEW q \in Process, q[1] = d PROVE HonestMemory(t, proc[q])'
      <3>1. PICK m : m = proc[q]
        OBVIOUS
      <3>2. HonestMemory(t, m)
        BY <1>3, <2>1, <2>3, <3>1 DEF CursorInv
      <3>3. HonestMemory(t, m)'
        BY <3>2, HonestMemoryKept
      <3> QED BY <3>1, <3>3
    <2> QED BY <2>2, <2>3 DEF HonestDevice
  <1>4. AloneInv'
    BY DEF CursorInv, AloneInv, Alone
  <1> QED BY <1>1, <1>2, <1>3, <1>4, DeviceCursorStep

LEMMA WriteKeepsCursor ==
  ASSUME SyncInv, CursorInv, NEW d \in Device, NEW e, Sealable(d, e), Write(d, e)
  PROVE  CursorInv'
  <1>1. PICK s, t : s = store[d] /\ t = ApplyLocal(s, e)
    OBVIOUS
  <1>2. StoreOK(s) /\ StoreInv(d, s) /\ RelayInv
    BY <1>1 DEF SyncInv, TypeOK, HeldInv
  <1>3. e \in Envelope /\ ~Sent(e) /\ \A f \in s.outbox : f.mutation # e.mutation
    <2>1. ~Sent(e) /\ \A f \in sealed : f.mutation # e.mutation
      BY SealableIsUnsent
    <2> QED BY <1>2, <2>1 DEF Sealable, StoreInv, Own
  <1>4. HonestStore(s) => HonestStore(t) /\ \A m : HonestMemory(s, m) => HonestMemory(t, m)
    BY <1>1, <1>2, <1>3, LocalWriteIsHonest
  <1>5. /\ store' = [store EXCEPT ![d] = t] /\ sealed \subseteq sealed'
        /\ UNCHANGED <<relayVars, late>> /\ UNCHANGED proc /\ UNCHANGED overlapped
    BY <1>1 DEF Write
  <1> QED BY <1>1, <1>4, <1>5, UserCursorStep

\* Both writes of a resolved conflict are new.
LEMMA ResolveKeptKeepsCursor ==
  ASSUME SyncInv, CursorInv, NEW d \in Device, NEW c \in ConflictsOf(d), NEW resurrect \in BOOLEAN,
         ResolveKept(d, c, resurrect)
  PROVE  CursorInv'
  <1>1. minted[d] \in Nat /\ minted[d] + 1 <= MaxMutation /\ minted[d] + 2 <= MaxMutation
    <2>1. minted[d] \in Nat
      BY SyncConstants, SMTT(30) DEF SyncInv, TypeOK
    <2> QED BY <2>1, SyncConstants, SMTT(30) DEF ResolveKept, UserMayWrite
  <1>2. PICK s, removal : s = store[d] /\ removal = HeadEnv(store[d], c).payload
    OBVIOUS
  <1>3. /\ StoreOK(s) /\ StoreInv(d, s) /\ RelayInv
        /\ c \in DOMAIN s.heads /\ CanGrow(store[d], c) /\ CanGrow(store[d], c[1])
    BY <1>2 DEF SyncInv, TypeOK, HeldInv, ConflictsOf, ResolveKept
  <1>4. removal \in BOOLEAN
    <2>1. HeadEnv(s, c) \in Envelope
      BY <1>3 DEF StoreOK, Row, HeadEnv
    <2> QED BY <1>2, <2>1, SyncConstants DEF Envelope
  <1>5. PICK again, retire :
          /\ again = Update(store[d], c[1], Fresh(d, 1), removal, FALSE)
          /\ retire = Update(store[d], c, Fresh(d, 2), TRUE, FALSE)
    OBVIOUS
  <1>6. Sealable(d, again) /\ again.mutation = Fresh(d, 1)
    <2>1. 1 \in Nat \ {0}
      BY SMTT(30)
    <2>2. Updating(d, again, 1, c[1])
      BY <1>1, <1>3, <1>4, <1>5, <2>1 DEF Updating
    <2> QED BY <2>2, UpdateIsSealable
  <1>7. Sealable(d, retire) /\ retire.mutation = Fresh(d, 2)
    <2>1. 2 \in Nat \ {0}
      BY SMTT(30)
    <2>2. Updating(d, retire, 2, c)
      BY <1>1, <1>3, <1>5, <2>1 DEF Updating
    <2> QED BY <2>2, UpdateIsSealable
  <1>8. again.mutation # retire.mutation
    BY <1>1, <1>6, <1>7, SMTT(30) DEF Fresh
  <1>9. /\ ~Sent(again) /\ \A f \in s.outbox : f.mutation # again.mutation
        /\ ~Sent(retire) /\ \A f \in s.outbox : f.mutation # retire.mutation
    <2>1. /\ ~Sent(again) /\ \A f \in sealed : f.mutation # again.mutation
          /\ ~Sent(retire) /\ \A f \in sealed : f.mutation # retire.mutation
      BY <1>6, <1>7, SealableIsUnsent
    <2> QED BY <1>3, <2>1 DEF StoreInv, Own
  <1>10. PICK u, t : u = ApplyLocal(s, again) /\ t = ApplyLocal(u, retire)
    OBVIOUS
  <1>11. again \in Envelope /\ retire \in Envelope
    BY <1>6, <1>7 DEF Sealable
  <1>12. ASSUME HonestStore(s)
         PROVE  /\ StoreOK(u) /\ HonestStore(u) /\ u.outbox = s.outbox \cup {again}
                /\ \A m : HonestMemory(s, m) => HonestMemory(u, m)
    BY <1>3, <1>9, <1>10, <1>11, <1>12, LocalWriteIsHonest
  <1>13. HonestStore(s) => \A f \in u.outbox : f.mutation # retire.mutation
    BY <1>8, <1>9, <1>12
  <1>14. ASSUME HonestStore(s)
         PROVE  HonestStore(t) /\ \A m : HonestMemory(u, m) => HonestMemory(t, m)
    BY <1>3, <1>9, <1>10, <1>11, <1>12, <1>13, <1>14, LocalWriteIsHonest
  <1>15. /\ store' = [store EXCEPT ![d] = t] /\ sealed \subseteq sealed'
         /\ UNCHANGED <<relayVars, late>> /\ UNCHANGED proc /\ UNCHANGED overlapped
    BY <1>2, <1>5, <1>10 DEF ResolveKept, Retirement
  <1> QED BY <1>2, <1>12, <1>14, <1>15, UserCursorStep

LEMMA WriteAfterHeadKeepsCursor ==
  ASSUME SyncInv, CursorInv, NEW d \in Device, UserMayWrite(d, 1), NEW r, CanGrow(store[d], r),
         NEW deleted \in BOOLEAN, Write(d, Update(store[d], r, Fresh(d, 1), deleted, FALSE))
  PROVE  CursorInv'
  <1>1. minted[d] + 1 <= MaxMutation
    <2>1. minted[d] \in Nat
      BY SyncConstants, SMTT(30) DEF SyncInv, TypeOK
    <2> QED BY <2>1, SyncConstants, SMTT(30) DEF UserMayWrite
  <1>2. PICK e : e = Update(store[d], r, Fresh(d, 1), deleted, FALSE)
    OBVIOUS
  <1>3. Sealable(d, e)
    <2>1. 1 \in Nat \ {0}
      BY SMTT(30)
    <2>2. Updating(d, e, 1, r)
      BY <1>1, <1>2, <2>1 DEF Updating
    <2> QED BY <2>2, UpdateIsSealable
  <1>4. Write(d, e)
    BY <1>2
  <1> QED BY <1>3, <1>4, WriteKeepsCursor

LEMMA UserStepKeepsCursor ==
  ASSUME SyncInv, CursorInv, NEW d \in Device, UserStep(d)
  PROVE  CursorInv'
  <1>1. ASSUME NEW r \in Base, Add(d, r) PROVE CursorInv'
    <2>1. minted[d] + 1 <= MaxMutation /\ r \in Record
      <3>1. minted[d] \in Nat
        BY SyncConstants, SMTT(30) DEF SyncInv, TypeOK
      <3> QED BY <1>1, <3>1, SyncConstants, SMTT(30) DEF Add, UserMayWrite
    <2>n. PICK no \in BOOLEAN : no = FALSE
      BY Zenon
    <2>2. PICK e : e = Create(r, Fresh(d, 1), no)
      OBVIOUS
    <2>3. Sealable(d, e)
      <3>1. 1 \in Nat \ {0}
        BY SMTT(30)
      <3>2. Creating(d, e, 1, r)
        BY <2>1, <2>2, <3>1 DEF Creating
      <3> QED BY <3>2, CreateIsSealable
    <2>4. Write(d, e)
      BY <1>1, <2>n, <2>2 DEF Add
    <2> QED BY <2>3, <2>4, WriteKeepsCursor
  <1>3. CASE \E r \in Base : Edit(d, r)
    BY <1>3, WriteAfterHeadKeepsCursor DEF Edit
  <1>4. CASE \E r \in Base : Remove(d, r)
    BY <1>4, WriteAfterHeadKeepsCursor DEF Remove
  <1>5. CASE \E c \in ConflictsOf(d) : DiscardConflict(d, c)
    BY <1>5, WriteAfterHeadKeepsCursor DEF DiscardConflict, Retirement
  <1>6. CASE \E c \in ConflictsOf(d) : ResolveMoot(d, c)
    BY <1>6, WriteAfterHeadKeepsCursor DEF ResolveMoot, Retirement
  <1>7. CASE \E c \in ConflictsOf(d) : \E resurrect \in BOOLEAN : ResolveKept(d, c, resurrect)
    BY <1>7, ResolveKeptKeepsCursor
  <1> QED BY <1>1, <1>3, <1>4, <1>5, <1>6, <1>7 DEF UserStep

-----------------------------------------------------------------------------
(* The theorem. *)

LEMMA CursorInvInit == Init => CursorInv
  <1> SUFFICES ASSUME Init PROVE CursorInv
    OBVIOUS
  <1>1. ASSUME NEW d \in Device PROVE HonestStore(store[d])
    <2>1. PICK s : s = store[d]
      OBVIOUS
    <2>2. DOMAIN s.heads = {} /\ s.outbox = {} /\ s.cursor = 0
      BY <2>1, StoreFields, SMTT(30) DEF Init, EmptyStore, EmptyTable
    <2> QED BY <2>1, <2>2, SMTT(30) DEF HonestStore
  <1>2. \A p \in Process : proc[p] = Idle
    BY DEF Init
  <1>3. \A p \in Process : HonestMemory(store[p[1]], proc[p])
    BY <1>2, IdleIsHonest
  <1> QED BY <1>1, <1>2, <1>3 DEF CursorInv, AloneInv

LEMMA CursorInvStutters ==
  ASSUME SyncInv, CursorInv, UNCHANGED vars
  PROVE  CursorInv'
  <1>1. /\ UNCHANGED <<relayVars, late>> /\ UNCHANGED store /\ UNCHANGED proc
        /\ UNCHANGED overlapped
    BY DEF vars, deviceVars
  <1>2. ASSUME NEW d \in Device, d \notin overlapped PROVE HonestStore(store[d])'
    <2>1. PICK s : s = store[d]
      OBVIOUS
    <2>2. HonestStore(s)'
      BY <1>1, <1>2, <2>1, HonestKept DEF CursorInv
    <2> QED BY <1>1, <2>1, <2>2
  <1>3. ASSUME NEW p \in Process, p[1] \notin overlapped
        PROVE  HonestMemory(store[p[1]], proc[p])'
    <2>1. PICK s, m : s = store[p[1]] /\ m = proc[p]
      OBVIOUS
    <2>2. HonestMemory(s, m)'
      BY <1>1, <1>3, <2>1, HonestMemoryKept DEF CursorInv
    <2> QED BY <1>1, <2>1, <2>2
  <1>4. AloneInv'
    BY <1>1 DEF CursorInv, AloneInv, Alone
  <1> QED BY <1>1, <1>2, <1>3, <1>4 DEF CursorInv

StepOf(p) == SyncStep(p) \/ Stop(p) \/ GiveUp(p)

LEMMA OverlapsStay ==
  ASSUME NEW p \in Process, StepOf(p)
  PROVE  overlapped \subseteq overlapped'
  BY DEF StepOf, SyncStep, Stop, GiveUp, BeginSync, NoteOverlap, PushCandidate, SettleAccepted,
     SettleSuperseded, Preserve, SettlePreserved, BeginPull, FetchPage, CheckPage, ApplyPage

\* A sync begins alone, or its device's syncs have now overlapped.
LEMMA StepUndisturbed ==
  ASSUME SyncInv, CursorInv, NEW p \in Process, StepOf(p), p[1] \notin overlapped'
  PROVE  Undisturbed(p)
  <1>1. overlapped \subseteq overlapped'
    BY OverlapsStay
  <1>2. CASE BeginSync(p)
    <2>1. \A q \in Process : At(q, "idle") => proc[q] = Idle
      BY SMTT(30) DEF SyncInv, TypeOK, ProcOK, At
    <2> QED BY <1>1, <1>2, <2>1 DEF BeginSync, NoteOverlap, Undisturbed, Alone
  <1>3. CASE ~BeginSync(p)
    <2>1. \/ At(p, "push") \/ At(p, "answered") \/ At(p, "preserved")
          \/ At(p, "pull") \/ At(p, "fetched") \/ At(p, "filtered") \/ ~At(p, "idle")
      BY <1>3 DEF StepOf, SyncStep, Stop, GiveUp, PushCandidate, SettleAccepted,
         SettleSuperseded, Preserve, SettlePreserved, BeginPull, FetchPage, CheckPage,
         ApplyPage
    <2>2. proc[p] # Idle
      BY <2>1, SMTT(30) DEF At, Idle
    <2> QED BY <1>1, <2>2 DEF CursorInv, AloneInv, Undisturbed
  <1> QED BY <1>2, <1>3

LEMMA StepKeepsOverlapped ==
  ASSUME SyncInv, CursorInv, NEW p \in Process, StepOf(p), p[1] \in overlapped'
  PROVE  CursorInv'
  <1>1. \E m : Become(p, m)
    BY DEF StepOf, SyncStep, Stop, GiveUp, BeginSync, PushCandidate, SettleAccepted,
       SettleSuperseded, Preserve, SettlePreserved, BeginPull, FetchPage, CheckPage, ApplyPage
  <1>2. \E t : Commit(p, t)
    <2>1. CASE UNCHANGED store
      <3>1. Commit(p, store[p[1]])
        BY <2>1 DEF Process, SyncInv, TypeOK, Commit
      <3> QED BY <3>1
    <2>2. CASE ~UNCHANGED store
      BY <2>2 DEF StepOf, SyncStep, Stop, GiveUp, BeginSync, PushCandidate, SettleAccepted,
         SettleSuperseded, Preserve, SettlePreserved, BeginPull, FetchPage, CheckPage, ApplyPage
    <2> QED BY <2>1, <2>2
  <1>3. Grows /\ \A e \in sealed : Author(e) # p[1] /\ Sent(e)' => Sent(e)
    <2>1. CASE PushCandidate(p)
      <3>1. PICK e \in proc[p].queue : PutRecord(e)
        BY <2>1 DEF PushCandidate, Foremost
      <3>2. e \in sealed /\ Author(e) = p[1]
        BY <2>1, <3>1 DEF PushCandidate, At, SyncInv, MemoryInv, Own
      <3>3. late' \subseteq late /\ UNCHANGED <<minted, sealed>>
        BY <2>1 DEF PushCandidate
      <3>4. Grows
        BY <3>1, <3>2, <3>3, ArrivalKeepsHistory
      <3> QED BY <3>1, <3>2, <3>3, <3>4, ArrivalSends
    <2>2. CASE GiveUp(p)
      <3>1. PICK e \in proc[p].queue : late' = late \cup {e}
        BY <2>2 DEF GiveUp, Foremost
      <3>2. Author(e) = p[1] /\ UNCHANGED relayVars /\ sealed \subseteq sealed'
        BY <2>2, <3>1 DEF GiveUp, At, SyncInv, MemoryInv, Own
      <3>3. Grows
        BY <3>2, LocalStepGrows DEF SyncInv, TypeOK
      <3> QED BY <3>1, <3>2, <3>3 DEF Sent, relayVars
    <2>3. CASE UNCHANGED relayVars /\ UNCHANGED late /\ sealed \subseteq sealed'
      <3>1. Grows
        BY <2>3, LocalStepGrows DEF SyncInv, TypeOK
      <3> QED BY <2>3, <3>1 DEF Sent, relayVars
    <2> QED BY <2>1, <2>2, <2>3 DEF StepOf, SyncStep, Stop, BeginSync, SettleAccepted,
         SettleSuperseded, Preserve, SettlePreserved, BeginPull, FetchPage, CheckPage, ApplyPage
  <1> QED BY <1>1, <1>2, <1>3, OverlapsStay, OverlappedCursorStep

LEMMA StepKeepsCursor ==
  ASSUME SyncInv, CursorInv, NEW p \in Process, StepOf(p)
  PROVE  CursorInv'
  <1>1. CASE p[1] \in overlapped'
    BY <1>1, StepKeepsOverlapped
  <1>2. CASE p[1] \notin overlapped'
    <2>1. Undisturbed(p)
      BY <1>2, StepUndisturbed
    <2> QED BY <2>1, BeginSyncKeepsCursor, PushCandidateKeepsCursor, SettleAcceptedKeepsCursor,
         SettleSupersededKeepsCursor, PreserveKeepsCursor, SettlePreservedKeepsCursor,
         BeginPullKeepsCursor, FetchPageKeepsCursor, CheckPageKeepsCursor,
         ApplyPageKeepsCursor, StopKeepsCursor, GiveUpKeepsCursor DEF StepOf, SyncStep
  <1> QED BY <1>1, <1>2

(***************************************************************************)
(* A device that has not run two syncs at once, whatever others do, never  *)
(* moved its cursor past a version it lacks: what pull skips as not ahead, *)
(* what AcceptOutbox and ResolveConflict install and what a user writes    *)
(* meanwhile all leave it at or after the last accepted version of every   *)
(* record up to the cursor.                                                *)
(***************************************************************************)
THEOREM SyncCursorIsHonest == Spec => []CursorIsHonest
  <1>1. SyncInv /\ CursorInv /\ [Next]_vars => CursorInv'
    <2> SUFFICES ASSUME SyncInv, CursorInv, [Next]_vars PROVE CursorInv'
      OBVIOUS
    <2>1. CASE UNCHANGED vars
      BY <2>1, CursorInvStutters
    <2>2. CASE \E d \in Device : UserStep(d)
      BY <2>2, UserStepKeepsCursor
    <2>3. CASE \E p \in Process : StepOf(p)
      BY <2>3, StepKeepsCursor
    <2>4. CASE LateArrival
      BY <2>4, LateArrivalKeepsCursor
    <2> QED BY <2>1, <2>2, <2>3, <2>4 DEF Next, StepOf
  <1>2. CursorInv => CursorIsHonest
    BY DEF CursorInv, HonestStore, HonestAt, CursorIsHonest
  <1> QED BY CursorInvInit, SyncIsCorrect, <1>1, <1>2, PTL DEF Spec
=============================================================================
