------------------------ MODULE MembershipProofs ------------------------
(***************************************************************************)
(* Proofs about Membership, for any number of devices, requests at once,   *)
(* relay handlers, crashes and lost answers.                               *)
(*                                                                         *)
(* ChainIsValid, LocalIsPrefix and WritersAreKnown are not inductive: what *)
(* a request, or a relay handler whose client is gone, has read is used    *)
(* later, when chain and log have moved on. MemberInv adds what each of    *)
(* them still knows: the chain in its hands is a prefix of the relay's, an *)
(* event the relay checked applies to the prefix it was checked against    *)
(* (so it extends the chain if its place is free), a writer that passed    *)
(* the check stays enrolled, the rows of the chain's devices are stored    *)
(* before records are pulled, and a recovering machine's identifier is     *)
(* used by nothing else.                                                   *)
(***************************************************************************)
EXTENDS Membership, TLAPS

\* Leaves that reason about numbers, sequences or records use the SMT solver.
USE ZenonT(60)

Action == {"enroll", "revoke"}
Signer == Device \cup {Kit}
Digest == Seq(Action \X Device \X Signer)
Event == [seq : Nat, parent : Digest, action : Action, device : Device, by : Signer]
Chains == Seq(Event)

-----------------------------------------------------------------------------
(* Prefixes. *)

\* A prefix, element by element.
LEMMA PrefixElements ==
  ASSUME NEW c \in Chains, NEW d \in Chains
  PROVE  IsPrefixOf(c, d) <=> Len(c) <= Len(d) /\ \A i \in 1..Len(c) : c[i] = d[i]
  BY DEF IsPrefixOf

\* Prefixes compose.
LEMMA PrefixTransitive ==
  ASSUME NEW b \in Chains, NEW c \in Chains, NEW d \in Chains,
         IsPrefixOf(b, c), IsPrefixOf(c, d)
  PROVE  IsPrefixOf(b, d)
  BY PrefixElements, SMTT(30) DEF Chains

\* A chain begins with itself.
LEMMA PrefixReflexive ==
  ASSUME NEW c \in Chains
  PROVE  IsPrefixOf(c, c)
  BY PrefixElements, SMTT(30) DEF Chains

\* A chain is a prefix of what an event makes of it.
LEMMA PrefixOfAppend ==
  ASSUME NEW c \in Chains, NEW ev \in Event
  PROVE  Append(c, ev) \in Chains /\ IsPrefixOf(c, Append(c, ev))
  <1>1. /\ Append(c, ev) \in Chains /\ Len(c) <= Len(Append(c, ev))
        /\ \A i \in 1..Len(c) : Append(c, ev)[i] = c[i]
    BY SMTT(30) DEF Chains
  <1> QED BY <1>1, PrefixElements

\* A prefix that is as long as the chain is the chain.
LEMMA WholePrefix ==
  ASSUME NEW c \in Chains, NEW d \in Chains, IsPrefixOf(c, d), Len(c) = Len(d)
  PROVE  c = d
  BY PrefixElements, SMTT(30) DEF Chains

\* The first n events of a chain are a prefix of it.
LEMMA PrefixIsPrefix ==
  ASSUME NEW c \in Chains, NEW n \in 0..Len(c)
  PROVE  /\ Prefix(c, n) \in Chains /\ Len(Prefix(c, n)) = n
         /\ IsPrefixOf(Prefix(c, n), c)
  <1>1. Prefix(c, n) \in Chains /\ Len(Prefix(c, n)) = n
    BY SMTT(30) DEF Prefix, Chains
  <1>2. \A i \in 1..n : Prefix(c, n)[i] = c[i]
    BY SMTT(30) DEF Prefix, Chains
  <1> QED BY <1>1, <1>2, PrefixElements, SMTT(30) DEF Chains

\* The first events of a chain are those of every chain it is a prefix of.
LEMMA SamePrefix ==
  ASSUME NEW c \in Chains, NEW d \in Chains, IsPrefixOf(c, d), NEW n \in 0..Len(c)
  PROVE  Prefix(c, n) = Prefix(d, n)
  <1>1. Len(c) <= Len(d) /\ \A i \in 1..Len(c) : c[i] = d[i]
    BY PrefixElements
  <1> QED BY <1>1, SMTT(30) DEF Prefix, Chains

\* All events of a chain are the chain.
LEMMA FullPrefix ==
  ASSUME NEW c \in Chains
  PROVE  Prefix(c, Len(c)) = c
  BY SMTT(30) DEF Prefix, Chains

-----------------------------------------------------------------------------
(* Who a chain enrols and revokes. *)

\* A longer chain enrols and revokes at least whom a shorter one does.
LEMMA NamedGrows ==
  ASSUME NEW c \in Chains, NEW d \in Chains, IsPrefixOf(c, d)
  PROVE  Enrolled(c) \subseteq Enrolled(d) /\ Revoked(c) \subseteq Revoked(d)
  <1>1. Len(c) <= Len(d) /\ \A i \in 1..Len(c) : c[i] = d[i]
    BY PrefixElements
  <1>2. DOMAIN c = 1..Len(c) /\ DOMAIN d = 1..Len(d) /\ Len(c) \in Nat /\ Len(d) \in Nat
    BY SMTT(30) DEF Chains
  <1> QED BY <1>1, <1>2, SMTT(30) DEF Enrolled, Revoked, Named

\* One more event names one more device.
LEMMA NamedAppend ==
  ASSUME NEW c \in Chains, NEW ev \in Event
  PROVE  /\ Enrolled(Append(c, ev)) =
              Enrolled(c) \cup (IF ev.action = "enroll" THEN {ev.device} ELSE {})
         /\ Revoked(Append(c, ev)) =
              Revoked(c) \cup (IF ev.action = "revoke" THEN {ev.device} ELSE {})
  <1>1. /\ DOMAIN Append(c, ev) = 1..(Len(c) + 1) /\ DOMAIN c = 1..Len(c) /\ Len(c) \in Nat
        /\ \A i \in 1..Len(c) : Append(c, ev)[i] = c[i]
        /\ Append(c, ev)[Len(c) + 1] = ev
    BY SMTT(30) DEF Chains
  <1> QED BY <1>1, SMTT(30) DEF Named, Enrolled, Revoked

\* Chains name devices.
LEMMA NamedAreDevices ==
  ASSUME NEW c \in Chains
  PROVE  Enrolled(c) \subseteq Device /\ Revoked(c) \subseteq Device
  <1>1. \A i \in DOMAIN c : c[i] \in Event
    BY SMTT(30) DEF Chains
  <1> QED BY <1>1 DEF Enrolled, Revoked, Named, Event

-----------------------------------------------------------------------------
(* Events. *)

\* The digest of a head.
LEMMA HeadDigestType ==
  ASSUME NEW c \in Chains
  PROVE  HeadDigest(c) \in Digest
  <1>1. CASE c = <<>>
    BY <1>1, SMTT(30) DEF HeadDigest, Digest
  <1>2. CASE c # <<>>
    <2>1. c[Len(c)] \in Event
      BY <1>2, SMTT(30) DEF Chains
    <2> QED BY <1>2, <2>1, SMTT(30) DEF HeadDigest, EventDigest, Core, Event, Digest
  <1> QED BY <1>1, <1>2

\* The event a device builds comes next.
LEMMA NextEventType ==
  ASSUME NEW c \in Chains, NEW action \in Action, NEW x \in Device, NEW by \in Signer
  PROVE  /\ NextEvent(c, action, x, by) \in Event
         /\ NextEvent(c, action, x, by).seq = Len(c) + 1
         /\ NextEvent(c, action, x, by).device = x
  <1>1. HeadDigest(c) \in Digest /\ Len(c) + 1 \in Nat
    BY HeadDigestType, SMTT(30) DEF Chains
  <1> QED BY <1>1 DEF NextEvent, Event

\* The root is an event.
LEMMA RootType == Root \in Event /\ <<Root>> \in Chains
  <1>1. <<>> \in Chains
    BY SMTT(30) DEF Chains
  <1>2. Root \in Event
    BY <1>1, NextEventType, ChainConstants DEF Root, Action, Signer
  <1> QED BY <1>2, SMTT(30) DEF Chains

-----------------------------------------------------------------------------
(* Validity. *)

\* A new vault's chain is valid.
LEMMA RootValid == Valid(<<Root>>) /\ Enrolled(<<Root>>) = {Founder} /\ Revoked(<<Root>>) = {}
  <1>1. <<>> \in Chains /\ <<Root>> = Append(<<>>, Root)
    BY RootType, SMTT(30) DEF Chains
  <1>2. Root.action = "enroll" /\ Root.device = Founder /\ Root.by = Founder
        /\ Root.seq = 1 /\ Root.parent = HeadDigest(<<>>)
    BY SMTT(30) DEF Root, NextEvent
  <1>3. Named(<<>>, "enroll") = {} /\ Named(<<>>, "revoke") = {}
    BY SMTT(30) DEF Named
  <1>4. Enrolled(<<Root>>) = {Founder} /\ Revoked(<<Root>>) = {}
    BY <1>1, <1>2, <1>3, NamedAppend, RootType DEF Enrolled, Revoked
  <1>5. Applies(<<>>, Root)
    BY <1>2, <1>3, SMTT(30) DEF Applies, IsRoot, ActionAllowed, Enrolled
  <1>6. Valid(<<Root>>)
    <2>1. Prefix(<<Root>>, 0) = <<>>
      BY SMTT(30) DEF Prefix
    <2>2. DOMAIN <<Root>> = {1} /\ <<Root>>[1] = Root /\ <<Root>> # <<>>
      BY SMTT(30)
    <2> QED BY <1>5, <2>1, <2>2, SMTT(30) DEF Valid
  <1> QED BY <1>4, <1>6

\* Validate accepts what apply accepted, event by event.
LEMMA ValidAppend ==
  ASSUME NEW c \in Chains, NEW ev \in Event, Valid(c), Applies(c, ev)
  PROVE  Valid(Append(c, ev))
  <1> DEFINE d == Append(c, ev)
  <1>1. d \in Chains /\ IsPrefixOf(c, d)
    BY PrefixOfAppend
  <1>2. /\ DOMAIN d = 1..(Len(c) + 1) /\ DOMAIN c = 1..Len(c) /\ Len(c) \in Nat
        /\ \A i \in 1..Len(c) : d[i] = c[i]
        /\ d[Len(c) + 1] = ev
    BY SMTT(30) DEF Chains
  <1>3. ASSUME NEW n \in DOMAIN d PROVE Applies(Prefix(d, n - 1), d[n])
    <2>1. n - 1 \in 0..Len(c)
      BY <1>2, SMTT(30)
    <2>2. Prefix(d, n - 1) = Prefix(c, n - 1)
      BY <1>1, <2>1, SamePrefix
    <2>3. CASE n = Len(c) + 1
      BY <1>2, <2>2, <2>3, FullPrefix, SMTT(30)
    <2>4. CASE n # Len(c) + 1
      BY <1>2, <2>2, <2>4, SMTT(30) DEF Valid
    <2> QED BY <2>3, <2>4
  <1>4. d # <<>>
    BY <1>2, SMTT(30)
  <1> QED BY <1>3, <1>4 DEF Valid

-----------------------------------------------------------------------------
Goal == {"sync"} \cup Device

\* What a request may hold, by where it is.
ProcOK(m) ==
  \/ m = Idle
  \/ m \in [pc : {"fetched", "compared", "stored"}, chain : Chains, goal : Goal]
  \/ m \in [pc : {"push", "writing"}, chain : Chains, goal : Goal, newly : SUBSET Device]
  \/ m \in [pc : {"pulled", "noting"}, chain : Chains, goal : Goal,
            newly : SUBSET Device, since : Nat, through : Nat]
  \/ m \in [pc : {"deliver"}, goal : Device]
  \/ m \in [pc : {"append", "inserting", "appended", "keep"}, chain : Chains,
            ev : Event, goal : {"sync", "self"}]
  \/ m \in [pc : {"append", "inserting", "keep"}, chain : Chains,
            ev : Event, goal : {"install"}, seq : Nat]

LateOK(h) ==
  \/ h \in [kind : {"write"}, by : Device]
  \/ h \in [kind : {"insert"}, ev : Event]

TypeOK ==
  /\ membership \in Chains
  /\ log \in Seq(Device)
  /\ local \in [Device -> Chains]
  /\ known \in [Device -> SUBSET Device]
  /\ cursor \in [Device -> Nat]
  /\ noted \in [Device -> [Device -> Int]]
  /\ invited \in [Device -> Int]
  /\ proc = [p \in Process |-> proc[p]]
  /\ \A p \in Process : ProcOK(proc[p])
  /\ \A h \in late : LateOK(h)

\* The relay checked the event against a chain its own begins with.
Admitted(ev) ==
  /\ ev.seq - 1 \in 0..Len(membership)
  /\ Applies(Prefix(membership, ev.seq - 1), ev)

\* A machine that recovers, and has not committed.
Recovering(m) == m.pc \in {"append", "inserting", "keep"} /\ m.goal = "install"

MemoryInv(p, m) ==
  LET d == p[1] IN
  /\ m.pc \notin {"idle", "deliver"} => IsPrefixOf(m.chain, membership)
  /\ m # Idle /\ ~Recovering(m) => Installed(d)
  /\ m.pc \in {"fetched", "compared", "stored"} => m.chain # <<>>
  /\ m.pc \in {"push", "writing", "pulled", "noting"} => Enrolled(m.chain) \subseteq known[d]
  /\ m.pc = "writing" => d \in Enrolled(membership)
  /\ m.pc = "pulled" => /\ m.since <= Len(log) /\ m.through <= Len(log)
                        /\ \A i \in 1..m.since : log[i] \in known[d]
  /\ m.pc \in {"append", "inserting", "appended", "keep"} => m.ev.seq = Len(m.chain) + 1
  /\ m.pc = "inserting" => Admitted(m.ev)
  /\ m.pc = "keep" => IsPrefixOf(Append(m.chain, m.ev), membership)
  /\ Recovering(m) => /\ m.seq <= Len(log)
                      /\ \A i \in 1..m.seq : log[i] \in Enrolled(m.chain)

\* A recovering machine's identifier is nobody else's business.
RecoveryInv ==
  \A p, q \in Process :
    Recovering(proc[p]) =>
      /\ ~Installed(p[1]) /\ invited[p[1]] = Absent
      /\ q # p /\ proc[q] # Idle => q[1] # p[1] /\ proc[q].goal # p[1]

LateInv ==
  \A h \in late : /\ h.kind = "write" => h.by \in Enrolled(membership)
                  /\ h.kind = "insert" => Admitted(h.ev)

LogInv ==
  /\ \A i \in 1..Len(log) : log[i] \in Enrolled(membership)
  /\ \A d \in Device : cursor[d] <= Len(log) /\ Absent <= invited[d] /\ invited[d] <= Len(log)

MemberInv ==
  /\ TypeOK
  /\ ChainIsValid /\ LocalIsPrefix /\ WritersAreKnown
  /\ \A p \in Process : MemoryInv(p, proc[p])
  /\ RecoveryInv /\ LateInv /\ LogInv

-----------------------------------------------------------------------------
(* For devices that serve one request at a time. *)

NotedMemory(p, m) ==
  LET d == p[1] IN
  /\ m.pc = "compared" => IsPrefixOf(local[d], m.chain)
  /\ m.pc \in {"stored", "push", "writing", "pulled", "noting"} => m.chain = local[d]
  /\ m.pc \in {"append", "inserting", "keep"} /\ m.goal = "self" => m.chain = local[d]
  /\ m.pc = "keep" => m.goal # "sync"
  /\ m.pc \in {"push", "writing", "pulled", "noting"} => m.newly \subseteq Revoked(m.chain)
  /\ m.pc = "pulled" => m.since = cursor[d]
  /\ m.pc = "noting" => m.through = cursor[d]

\* What NotedInv says of a device's tables.
NotedAt(d) ==
  /\ ~Installed(d) => \A x \in Device : noted[d][x] = Absent
  /\ \A x \in Device :
       noted[d][x] # Absent =>
         /\ x \in Revoked(local[d])
         /\ \A i \in 1..cursor[d] : log[i] = x => i <= noted[d][x]

\* No other request of p's device is under way.
Alone(p) == \A q \in Process : q # p /\ q[1] = p[1] => proc[q] = Idle

NotedInv ==
  /\ \A d \in Device : d \notin overlapped => NotedAt(d)
  /\ \A p \in Process : p[1] \notin overlapped => NotedMemory(p, proc[p])
  /\ \A p \in Process : p[1] \notin overlapped /\ proc[p] # Idle => Alone(p)

-----------------------------------------------------------------------------
(* Chain and log only grow, and what a request has read of them stays true. *)

Grows ==
  /\ membership \in Chains /\ membership' \in Chains /\ IsPrefixOf(membership, membership')
  /\ log \in Seq(Device) /\ log' \in Seq(Device) /\ Len(log) <= Len(log')
  /\ \A i \in 1..Len(log) : log'[i] = log[i]

Keeps(d) == Installed(d)' /\ known[d] \subseteq known'[d]

\* A step that leaves the relay alone.
LEMMA QuietGrows ==
  ASSUME TypeOK, UNCHANGED relayVars
  PROVE  Grows
  BY PrefixReflexive, SMTT(30) DEF Grows, TypeOK, relayVars

\* An event stays admitted, though it may come too late.
LEMMA AdmittedGrows ==
  ASSUME Grows, NEW ev \in Event, Admitted(ev)
  PROVE  Admitted(ev)'
  <1>1. ev.seq - 1 \in 0..Len(membership) /\ Len(membership) <= Len(membership')
        /\ Len(membership) \in Nat /\ Len(membership') \in Nat
    BY PrefixElements, SMTT(30) DEF Grows, Admitted, Chains
  <1>2. Prefix(membership, ev.seq - 1) = Prefix(membership', ev.seq - 1)
    BY <1>1, SamePrefix DEF Grows
  <1> QED BY <1>1, <1>2, SMTT(30) DEF Admitted

\* Who is enrolled stays enrolled.
LEMMA EnrolledGrows ==
  ASSUME Grows
  PROVE  Enrolled(membership) \subseteq Enrolled(membership')
  BY NamedGrows DEF Grows

\* A chain that was a prefix of the relay's stays one.
LEMMA PrefixGrows ==
  ASSUME Grows, NEW c \in Chains, IsPrefixOf(c, membership)
  PROVE  IsPrefixOf(c, membership')
  BY PrefixTransitive DEF Grows

\* What ProcOK says of a request's fields.
LEMMA ProcFields ==
  ASSUME NEW m, ProcOK(m)
  PROVE  /\ m.pc \notin {"idle", "deliver"} => m # Idle /\ m.chain \in Chains
         /\ m.pc \in {"append", "inserting", "appended", "keep"} => m.ev \in Event
         /\ m.pc \in {"pulled", "noting"} => m.since \in Nat /\ m.through \in Nat
         /\ Recovering(m) => m.seq \in Nat /\ m.chain \in Chains
         /\ m.pc = "idle" <=> m = Idle
  BY SMTT(30) DEF ProcOK, Idle, Recovering

\* What a request knows stays true while chain and log grow.
LEMMA MemoryGrows ==
  ASSUME Grows, NEW p \in Process, NEW m, ProcOK(m), MemoryInv(p, m),
         m # Idle /\ ~Recovering(m) => Keeps(p[1])
  PROVE  MemoryInv(p, m)'
  <1>1. /\ m.pc \notin {"idle", "deliver"} => m # Idle /\ m.chain \in Chains
        /\ m.pc \in {"append", "inserting", "appended", "keep"} => m.ev \in Event
        /\ m.pc \in {"pulled", "noting"} => m.since \in Nat /\ m.through \in Nat
        /\ Recovering(m) => m.seq \in Nat /\ m.chain \in Chains
        /\ m.pc = "idle" <=> m = Idle
    BY ProcFields
  <1>2. m.pc \notin {"idle", "deliver"} => IsPrefixOf(m.chain, membership')
    BY <1>1, PrefixGrows DEF MemoryInv
  <1>3. m # Idle /\ ~Recovering(m) => Installed(p[1])'
    BY DEF Keeps
  <1>4. m.pc \in {"push", "writing", "pulled", "noting"} => Enrolled(m.chain) \subseteq known'[p[1]]
    BY <1>1 DEF MemoryInv, Keeps, Recovering
  <1>5. m.pc = "writing" => p[1] \in Enrolled(membership')
    BY EnrolledGrows DEF MemoryInv
  <1>6. m.pc = "pulled" => /\ m.since <= Len(log') /\ m.through <= Len(log')
                           /\ \A i \in 1..m.since : log'[i] \in known'[p[1]]
    BY <1>1, SMTT(30) DEF MemoryInv, Keeps, Recovering, Grows
  <1>7. m.pc = "inserting" => Admitted(m.ev)'
    BY <1>1, AdmittedGrows DEF MemoryInv
  <1>8. m.pc = "keep" => IsPrefixOf(Append(m.chain, m.ev), membership')
    BY <1>1, PrefixGrows, PrefixOfAppend DEF MemoryInv
  <1>9. Recovering(m) => /\ m.seq <= Len(log')
                         /\ \A i \in 1..m.seq : log'[i] \in Enrolled(m.chain)
    BY <1>1, SMTT(30) DEF MemoryInv, Grows
  <1> QED BY <1>2, <1>3, <1>4, <1>5, <1>6, <1>7, <1>8, <1>9 DEF MemoryInv, Recovering

-----------------------------------------------------------------------------
(* A step of one request. *)

\* One request changes, the others are what they were.
LEMMA ProcUpdate ==
  ASSUME proc = [q \in Process |-> proc[q]], NEW p \in Process, NEW m,
         proc' = [proc EXCEPT ![p] = m]
  PROVE  /\ proc' = [q \in Process |-> proc'[q]]
         /\ proc'[p] = m
         /\ \A q \in Process : q # p => proc'[q] = proc[q]
  <1>1. proc' = [q \in Process |-> IF q = p THEN m ELSE proc[q]]
    OBVIOUS
  <1> QED BY <1>1, Zenon

\* The requests that do not step keep what they hold.
LEMMA StepKeepsMemory ==
  ASSUME MemberInv, Grows, NEW p \in Process, NEW m, ProcOK(m), MemoryInv(p, m)',
         proc' = [proc EXCEPT ![p] = m],
         \A q \in Process : q # p /\ proc[q] # Idle /\ ~Recovering(proc[q]) => Keeps(q[1])
  PROVE  /\ proc' = [q \in Process |-> proc'[q]]
         /\ \A q \in Process : ProcOK(proc'[q]) /\ MemoryInv(q, proc[q])'
  <1>1. /\ proc' = [q \in Process |-> proc'[q]]
        /\ proc'[p] = m
        /\ \A q \in Process : q # p => proc'[q] = proc[q]
    BY ProcUpdate DEF MemberInv, TypeOK
  <1>2. ASSUME NEW q \in Process, q # p PROVE ProcOK(proc'[q]) /\ MemoryInv(q, proc[q])'
    <2>1. PICK n : n = proc[q]
      OBVIOUS
    <2>2. ProcOK(n) /\ MemoryInv(q, n)
      BY <2>1 DEF MemberInv, TypeOK
    <2>3. MemoryInv(q, n)'
      BY <1>2, <2>1, <2>2, MemoryGrows
    <2> QED BY <1>1, <1>2, <2>1, <2>2, <2>3
  <1>3. ProcOK(proc'[p]) /\ MemoryInv(p, proc[p])'
    BY <1>1
  <1> QED BY <1>1, <1>2, <1>3

\* Late requests too.
LEMMA LateGrows ==
  ASSUME MemberInv, Grows
  PROVE  \A h \in late : /\ LateOK(h)
                         /\ h.kind = "write" => h.by \in Enrolled(membership')
                         /\ h.kind = "insert" => Admitted(h.ev)'
  <1> SUFFICES ASSUME NEW h \in late
               PROVE  /\ LateOK(h)
                      /\ h.kind = "write" => h.by \in Enrolled(membership')
                      /\ h.kind = "insert" => Admitted(h.ev)'
    OBVIOUS
  <1>1. LateOK(h) /\ (h.kind = "write" => h.by \in Enrolled(membership))
        /\ (h.kind = "insert" => Admitted(h.ev))
    BY DEF MemberInv, TypeOK, LateInv
  <1>2. h.kind = "insert" => h.ev \in Event
    BY <1>1 DEF LateOK
  <1>3. PICK ev : ev = h.ev
    OBVIOUS
  <1>4. h.kind = "insert" => Admitted(ev)'
    BY <1>1, <1>2, <1>3, AdmittedGrows
  <1> QED BY <1>1, <1>3, <1>4, EnrolledGrows

\* A request that goes on says nothing new about who recovers.
LEMMA ContinueKeepsRecovery ==
  ASSUME MemberInv, NEW p \in Process, NEW m, proc' = [proc EXCEPT ![p] = m],
         proc[p] # Idle,
         m = Idle \/ m.goal = proc[p].goal \/ m.goal \in Purpose,
         Recovering(m) => Recovering(proc[p]),
         \A q \in Process : Recovering(proc[q]) /\ (q # p \/ Recovering(m)) =>
           local'[q[1]] = local[q[1]] /\ invited'[q[1]] = invited[q[1]]
  PROVE  RecoveryInv'
  <1>1. /\ proc'[p] = m
        /\ \A q \in Process : q # p => proc'[q] = proc[q]
    BY ProcUpdate DEF MemberInv, TypeOK
  <1> SUFFICES ASSUME NEW r \in Process, NEW q \in Process, Recovering(proc'[r])
               PROVE  /\ ~Installed(r[1])' /\ invited'[r[1]] = Absent
                      /\ q # r /\ proc'[q] # Idle => q[1] # r[1] /\ proc'[q].goal # r[1]
    BY DEF RecoveryInv, Recovering
  <1>2. Recovering(proc[r]) /\ r[1] \in Device
    BY <1>1 DEF Process
  <1>3. ~Installed(r[1])' /\ invited'[r[1]] = Absent
    BY <1>1, <1>2, SMTT(30) DEF MemberInv, RecoveryInv, Installed
  <1>4. ASSUME q # r, proc'[q] # Idle PROVE q[1] # r[1] /\ proc'[q].goal # r[1]
    <2>1. q[1] # r[1] /\ proc[q] # Idle /\ proc[q].goal # r[1]
      BY <1>1, <1>2, <1>4, SMTT(30) DEF MemberInv, RecoveryInv
    <2>2. CASE q # p
      BY <1>1, <2>1, <2>2
    <2>3. CASE q = p /\ m.goal \in Purpose
      BY <1>1, <1>2, <2>1, <2>3, MembershipConstants
    <2> QED BY <1>1, <1>4, <2>1, <2>2, <2>3
  <1> QED BY <1>3, <1>4

\* A step that only changes a request.
LEMMA QuietStep ==
  ASSUME MemberInv, NEW p \in Process, NEW m, proc' = [proc EXCEPT ![p] = m],
         ProcOK(m), MemoryInv(p, m), RecoveryInv',
         UNCHANGED <<membership, log, local, known, cursor, noted, invited, late>>
  PROVE  MemberInv'
  <1>1. Grows
    BY QuietGrows DEF relayVars, MemberInv
  <1>2. MemoryInv(p, m)'
    BY DEF MemoryInv, Installed, Admitted, Recovering
  <1>3. \A q \in Process : proc[q] # Idle /\ ~Recovering(proc[q]) => Keeps(q[1])
    BY DEF MemberInv, MemoryInv, Keeps, Installed
  <1>4. /\ proc' = [q \in Process |-> proc'[q]]
        /\ \A q \in Process : ProcOK(proc'[q]) /\ MemoryInv(q, proc[q])'
    BY <1>1, <1>2, <1>3, StepKeepsMemory
  <1>5. TypeOK'
    BY <1>4 DEF MemberInv, TypeOK
  <1>6. ChainIsValid' /\ LocalIsPrefix' /\ WritersAreKnown' /\ LateInv' /\ LogInv'
    BY DEF MemberInv, ChainIsValid, LocalIsPrefix, WritersAreKnown, LateInv, LogInv, Admitted
  <1> QED BY <1>4, <1>5, <1>6 DEF MemberInv

\* A request that goes on, or ends, and changes nothing else.
LEMMA QuietContinue ==
  ASSUME MemberInv, NEW p \in Process, NEW m, proc' = [proc EXCEPT ![p] = m], proc[p] # Idle,
         UNCHANGED <<membership, log, local, known, cursor, noted, invited, late>>,
         \/ m = Idle
         \/ /\ ProcOK(m) /\ MemoryInv(p, m)
            /\ m.goal = proc[p].goal \/ m.goal \in Purpose
            /\ Recovering(m) => Recovering(proc[p])
  PROVE  MemberInv'
  <1>1. ProcOK(m) /\ MemoryInv(p, m)
    BY SMTT(30) DEF ProcOK, MemoryInv, Idle, Recovering
  <1>2. Recovering(m) => Recovering(proc[p])
    BY SMTT(30) DEF Idle, Recovering
  <1>3. RecoveryInv'
    BY <1>2, ContinueKeepsRecovery
  <1> QED BY <1>1, <1>3, QuietStep

\* A request's step that changes more.
LEMMA RequestStep ==
  ASSUME MemberInv, Grows, NEW p \in Process, NEW m, proc' = [proc EXCEPT ![p] = m],
         ProcOK(m), MemoryInv(p, m)', RecoveryInv',
         \A q \in Process : q # p /\ proc[q] # Idle /\ ~Recovering(proc[q]) => Keeps(q[1]),
         local' \in [Device -> Chains], known' \in [Device -> SUBSET Device],
         cursor' \in [Device -> Nat], noted' \in [Device -> [Device -> Int]],
         invited' \in [Device -> Int], late' = late,
         ChainIsValid', LocalIsPrefix', WritersAreKnown', LogInv'
  PROVE  MemberInv'
  <1>1. /\ proc' = [q \in Process |-> proc'[q]]
        /\ \A q \in Process : ProcOK(proc'[q]) /\ MemoryInv(q, proc[q])'
    BY StepKeepsMemory
  <1>2. TypeOK'
    BY <1>1 DEF TypeOK, MemberInv, Grows
  <1>3. LateInv'
    BY LateGrows DEF LateInv
  <1> QED BY <1>1, <1>2, <1>3 DEF MemberInv

\* The copy a device does not touch stays a prefix.
LEMMA LocalGrows ==
  ASSUME MemberInv, Grows, NEW d \in Device, local'[d] = local[d]
  PROVE  IsPrefixOf(local'[d], membership')
  BY PrefixGrows DEF MemberInv, TypeOK, LocalIsPrefix

\* The rows a device holds stay enough for what it has taken in.
LEMMA KnownGrows ==
  ASSUME MemberInv, Grows, NEW d \in Device, cursor'[d] = cursor[d], known[d] \subseteq known'[d]
  PROVE  \A i \in 1..cursor'[d] : log'[i] \in known'[d]
  <1>1. cursor[d] \in Nat /\ cursor[d] <= Len(log) /\ \A i \in 1..cursor[d] : log[i] \in known[d]
    BY DEF MemberInv, TypeOK, LogInv, WritersAreKnown
  <1> QED BY <1>1, SMTT(30) DEF Grows

\* A device that has a vault begins a request.
LEMMA BeginKeepsRecovery ==
  ASSUME MemberInv, NEW p \in Process, NEW m, proc' = [proc EXCEPT ![p] = m],
         Installed(p[1]), ~Recovering(m), UNCHANGED <<local, invited>>,
         \A q \in Process : Recovering(proc[q]) => m.goal # q[1]
  PROVE  RecoveryInv'
  <1>1. /\ proc'[p] = m
        /\ \A q \in Process : q # p => proc'[q] = proc[q]
    BY ProcUpdate DEF MemberInv, TypeOK
  <1> QED BY <1>1, SMTT(30) DEF MemberInv, RecoveryInv, Installed

\* The types of the tables, as the steps need them.
LEMMA DataTypes ==
  ASSUME MemberInv
  PROVE  /\ local \in [Device -> Chains] /\ known \in [Device -> SUBSET Device]
         /\ cursor \in [Device -> Nat] /\ noted \in [Device -> [Device -> Int]]
         /\ invited \in [Device -> Int]
  BY DEF MemberInv, TypeOK

\* The requests when none of them steps.
LEMMA StillMemory ==
  ASSUME MemberInv, Grows, proc' = proc,
         \A q \in Process : proc[q] # Idle /\ ~Recovering(proc[q]) => Keeps(q[1])
  PROVE  \A q \in Process : MemoryInv(q, proc[q])'
  <1> SUFFICES ASSUME NEW q \in Process PROVE MemoryInv(q, proc[q])'
    OBVIOUS
  <1>1. PICK n : n = proc[q]
    OBVIOUS
  <1>2. ProcOK(n) /\ MemoryInv(q, n)
    BY <1>1 DEF MemberInv, TypeOK
  <1>3. MemoryInv(q, n)'
    BY <1>1, <1>2, MemoryGrows
  <1> QED BY <1>1, <1>3

\* What the INSERT adds, checked earlier, still applies when its place is free.
LEMMA AppendGrows ==
  ASSUME MemberInv, NEW ev \in Event, Admitted(ev), ~(ev.seq <= Len(membership)),
         membership' = Append(membership, ev), log' = log
  PROVE  Grows /\ Applies(membership, ev) /\ ev.seq = Len(membership) + 1
  <1>1. membership \in Chains /\ log \in Seq(Device) /\ Len(membership) \in Nat
    BY SMTT(30) DEF MemberInv, TypeOK, Chains
  <1>2. ev.seq = Len(membership) + 1
    BY <1>1, SMTT(30) DEF Admitted, Event
  <1>3. Applies(membership, ev)
    <2>1. ev.seq - 1 = Len(membership)
      BY <1>1, <1>2, SMTT(30)
    <2> QED BY <1>1, <2>1, FullPrefix DEF Admitted
  <1>4. membership' \in Chains /\ IsPrefixOf(membership, membership')
    BY <1>1, PrefixOfAppend
  <1> QED BY <1>1, <1>2, <1>3, <1>4, SMTT(30) DEF Grows

-----------------------------------------------------------------------------
(* Revocation positions. *)

\* A step of p, whose device has one request under way and had no more before.
Undisturbed(p) ==
  p[1] \notin overlapped' /\ overlapped \subseteq overlapped' /\ Alone(p)

LEMMA NotedOwn ==
  ASSUME NotedInv, NEW p \in Process, Undisturbed(p)
  PROVE  p[1] \in Device /\ NotedAt(p[1]) /\ NotedMemory(p, proc[p])
  BY DEF NotedInv, Undisturbed, Process

\* A device whose own tables a step leaves alone.
LEMMA NotedStays ==
  ASSUME MemberInv, Grows, NEW d \in Device, NotedAt(d),
         local'[d] = local[d], cursor'[d] = cursor[d], noted'[d] = noted[d]
  PROVE  NotedAt(d)'
  <1>1. cursor[d] \in Nat /\ cursor[d] <= Len(log)
    BY DEF MemberInv, TypeOK, LogInv
  <1>2. \A i \in 1..cursor[d] : log'[i] = log[i]
    BY <1>1, SMTT(30) DEF Grows
  <1> QED BY <1>2 DEF NotedAt, Installed

\* A step of p leaves the tables and requests of other devices alone.
ActsAt(p, m) ==
  /\ proc' = [proc EXCEPT ![p] = m]
  /\ overlapped \subseteq overlapped'
  /\ \A d \in Device : d # p[1] =>
       local'[d] = local[d] /\ cursor'[d] = cursor[d] /\ noted'[d] = noted[d]

\* What it leaves of NotedInv: all but what is said of its device.
LEMMA NotedElsewhere ==
  ASSUME MemberInv, NotedInv, Grows, NEW p \in Process, NEW m, ActsAt(p, m)
  PROVE  /\ proc'[p] = m /\ \A q \in Process : q # p => proc'[q] = proc[q]
         /\ \A d \in Device : d # p[1] /\ d \notin overlapped' => NotedAt(d)'
         /\ \A q \in Process : q[1] # p[1] /\ q[1] \notin overlapped' =>
              NotedMemory(q, proc[q])' /\ (proc'[q] # Idle => Alone(q)')
  <1>1. /\ proc'[p] = m
        /\ \A q \in Process : q # p => proc'[q] = proc[q]
    BY ProcUpdate DEF MemberInv, TypeOK, ActsAt
  <1>2. ASSUME NEW d \in Device, d # p[1], d \notin overlapped' PROVE NotedAt(d)'
    <2>1. NotedAt(d)
      BY <1>2 DEF NotedInv, ActsAt
    <2> QED BY <1>2, <2>1, NotedStays DEF ActsAt
  <1>3. ASSUME NEW q \in Process, q[1] # p[1], q[1] \notin overlapped'
        PROVE  NotedMemory(q, proc[q])' /\ (proc'[q] # Idle => Alone(q)')
    <2>1. q # p /\ q[1] \in Device /\ q[1] \notin overlapped
      BY <1>3 DEF Process, ActsAt
    <2>2. PICK n : n = proc[q]
      OBVIOUS
    <2>3. NotedMemory(q, n)
      BY <2>1, <2>2 DEF NotedInv
    <2>4. NotedMemory(q, n)'
      BY <1>3, <2>1, <2>3 DEF NotedMemory, ActsAt
    <2>5. NotedMemory(q, proc[q])'
      BY <1>1, <2>1, <2>2, <2>4
    <2>6. ASSUME proc'[q] # Idle PROVE Alone(q)'
      <3>1. Alone(q)
        BY <1>1, <2>1, <2>6 DEF NotedInv
      <3>2. \A r \in Process : r[1] = q[1] => proc'[r] = proc[r]
        BY <1>1, <1>3
      <3> QED BY <3>1, <3>2 DEF Alone
    <2> QED BY <2>5, <2>6
  <1> QED BY <1>1, <1>2, <1>3

\* A device whose requests have overlapped is left out.
LEMMA NotedOverlapped ==
  ASSUME MemberInv, NotedInv, Grows, NEW p \in Process, NEW m, ActsAt(p, m),
         p[1] \in overlapped'
  PROVE  NotedInv'
  <1>1. \A d \in Device : d \notin overlapped' => NotedAt(d)'
    BY NotedElsewhere
  <1>2. \A q \in Process : q[1] \notin overlapped' =>
          NotedMemory(q, proc[q])' /\ (proc'[q] # Idle => Alone(q)')
    BY NotedElsewhere
  <1> QED BY <1>1, <1>2 DEF NotedInv

\* A request has its device to itself.
LEMMA NotedStep ==
  ASSUME MemberInv, NotedInv, Grows, NEW p \in Process, Undisturbed(p), NEW m,
         proc' = [proc EXCEPT ![p] = m], NotedMemory(p, m)', NotedAt(p[1])',
         \A d \in Device : d # p[1] =>
           local'[d] = local[d] /\ cursor'[d] = cursor[d] /\ noted'[d] = noted[d]
  PROVE  NotedInv'
  <1>1. ActsAt(p, m)
    BY DEF ActsAt, Undisturbed
  <1>2. proc'[p] = m /\ \A q \in Process : q # p => proc'[q] = proc[q]
    BY <1>1, NotedElsewhere
  <1>3. \A d \in Device : d \notin overlapped' => NotedAt(d)'
    BY <1>1, NotedElsewhere
  <1>4. Alone(p)'
    BY <1>2 DEF Undisturbed, Alone
  <1>5. ASSUME NEW q \in Process, q[1] \notin overlapped'
        PROVE  NotedMemory(q, proc[q])' /\ (proc'[q] # Idle => Alone(q)')
    <2>1. CASE q[1] # p[1]
      BY <1>1, <1>5, <2>1, NotedElsewhere
    <2>2. CASE q = p
      BY <1>2, <1>4, <2>2
    <2>3. CASE q # p /\ q[1] = p[1]
      <3>1. proc'[q] = Idle
        BY <1>2, <2>3 DEF Undisturbed, Alone
      <3>2. NotedMemory(q, Idle)'
        BY DEF NotedMemory, Idle
      <3> QED BY <3>1, <3>2
    <2> QED BY <2>1, <2>2, <2>3
  <1> QED BY <1>3, <1>5 DEF NotedInv

\* A step that leaves every device's tables alone.
LEMMA NotedQuiet ==
  ASSUME MemberInv, NotedInv, Grows, NEW p \in Process, Undisturbed(p), NEW m,
         proc' = [proc EXCEPT ![p] = m], NotedMemory(p, m), UNCHANGED <<local, cursor, noted>>
  PROVE  NotedInv'
  <1>1. NotedMemory(p, m)' /\ p[1] \in Device
    BY DEF NotedMemory, Process
  <1>2. NotedAt(p[1])'
    BY <1>1, NotedStays, NotedOwn
  <1> QED BY <1>1, <1>2, NotedStep

\* A request that has ended knows nothing.
LEMMA NotedIdle ==
  ASSUME NEW p \in Process PROVE NotedMemory(p, Idle)
  BY DEF NotedMemory, Idle

\* A step that leaves chain and log alone.
LEMMA QuietRelay ==
  ASSUME MemberInv, UNCHANGED <<membership, log>>
  PROVE  Grows
  BY QuietGrows DEF relayVars, MemberInv

\* The fields of a request in a sync, by where it is.
LEMMA SyncShape ==
  ASSUME MemberInv, NEW p \in Process
  PROVE  /\ At(p, "fetched") \/ At(p, "compared") \/ At(p, "stored") =>
              proc[p] \in [pc : {"fetched", "compared", "stored"}, chain : Chains, goal : Goal]
         /\ At(p, "push") \/ At(p, "writing") =>
              proc[p] \in [pc : {"push", "writing"}, chain : Chains, goal : Goal,
                           newly : SUBSET Device]
         /\ At(p, "pulled") \/ At(p, "noting") =>
              proc[p] \in [pc : {"pulled", "noting"}, chain : Chains, goal : Goal,
                           newly : SUBSET Device, since : Nat, through : Nat]
  <1>1. ProcOK(proc[p])
    BY DEF MemberInv, TypeOK
  <1> QED BY <1>1, SMTT(30) DEF ProcOK, At, Idle


-----------------------------------------------------------------------------
(* Sync. *)

\* A sync holds the chain the relay answered with.
LEMMA StartSyncKeeps ==
  ASSUME MemberInv, NEW p \in Process, NEW goal \in Goal, StartSync(p, goal)
  PROVE  MemberInv'
  <1>1. PICK m : /\ proc' = [proc EXCEPT ![p] = m]
                 /\ m = Idle \/ m = [pc |-> "fetched", chain |-> membership, goal |-> goal]
    BY DEF StartSync, Fetch, Become
  <1>2. Installed(p[1]) /\ UNCHANGED <<membership, log, local, known, cursor, noted, invited, late>>
    BY DEF StartSync, Fetch, relayVars
  <1>3. ProcOK(m)
    BY <1>1, SMTT(30) DEF ProcOK, MemberInv, TypeOK
  <1>4. MemoryInv(p, m)
    <2>1. membership \in Chains /\ membership # <<>> /\ IsPrefixOf(membership, membership)
      BY PrefixReflexive DEF MemberInv, TypeOK, ChainIsValid, Valid
    <2> QED BY <1>1, <1>2, <2>1, SMTT(30) DEF MemoryInv, Idle, Recovering
  <1>5. RecoveryInv'
    <2>1. /\ proc'[p] = m
          /\ \A q \in Process : q # p => proc'[q] = proc[q]
      BY <1>1, ProcUpdate DEF MemberInv, TypeOK
    <2>2. ~Recovering(m)
      BY <1>1, SMTT(30) DEF Recovering, Idle
    <2>3. \A q \in Process : Recovering(proc[q]) => ~At(q, "idle")
      BY DEF Recovering, At
    <2>4. \A q \in Process : Recovering(proc[q]) => goal # q[1] /\ p[1] # q[1]
      BY <1>2, <2>3, MembershipConstants DEF StartSync, Fresh, Purpose, Process, Goal, MemberInv, RecoveryInv
    <2>5. m # Idle => m.goal = goal
      BY <1>1, SMTT(30)
    <2> QED BY <1>2, <2>1, <2>2, <2>4, <2>5, SMTT(30) DEF MemberInv, RecoveryInv, Installed
  <1> QED BY <1>1, <1>2, <1>3, <1>4, <1>5, QuietStep, Zenon

\* So does the sync that ends a revocation or a delivery.
LEMMA SyncAgainKeeps ==
  ASSUME MemberInv, NEW p \in Process, SyncAgain(p)
  PROVE  MemberInv'
  <1>1. PICK m : /\ proc' = [proc EXCEPT ![p] = m]
                 /\ m = Idle \/ m = [pc |-> "fetched", chain |-> membership, goal |-> "sync"]
    BY DEF SyncAgain, Fetch, Become
  <1>2. Installed(p[1]) /\ UNCHANGED <<membership, log, local, known, cursor, noted, invited, late>>
    BY DEF SyncAgain, Fetch, relayVars
  <1>3. ProcOK(m)
    BY <1>1, SMTT(30) DEF ProcOK, MemberInv, TypeOK, Goal
  <1>4. MemoryInv(p, m)
    <2>1. membership \in Chains /\ membership # <<>> /\ IsPrefixOf(membership, membership)
      BY PrefixReflexive DEF MemberInv, TypeOK, ChainIsValid, Valid
    <2> QED BY <1>1, <1>2, <2>1, SMTT(30) DEF MemoryInv, Idle, Recovering
  <1>5. proc[p] # Idle /\ ~Recovering(m) /\ (m = Idle \/ m.goal \in Purpose)
    BY <1>1, SMTT(30) DEF SyncAgain, At, Idle, Recovering, Purpose
  <1> QED BY <1>1, <1>2, <1>3, <1>4, <1>5, QuietContinue, Zenon

\* A comparison only lets the request go on or end.
LEMMA CompareKeeps ==
  ASSUME MemberInv, NEW p \in Process, Compare(p)
  PROVE  MemberInv'
  <1>1. PICK m : /\ proc' = [proc EXCEPT ![p] = m]
                 /\ m = Idle \/ m = [proc[p] EXCEPT !.pc = "compared"]
    BY DEF Compare, Goto, Become
  <1>2. At(p, "fetched") /\ UNCHANGED <<membership, log, local, known, cursor, noted, invited, late>>
    BY DEF Compare, relayVars, deviceVars
  <1>3. ProcOK(proc[p]) /\ MemoryInv(p, proc[p])
    BY DEF MemberInv, TypeOK
  <1>4. proc[p] \in [pc : {"fetched", "compared", "stored"}, chain : Chains, goal : Goal]
    BY <1>2, <1>3, SMTT(30) DEF ProcOK, At, Idle
  <1>5. ProcOK(m)
    BY <1>1, <1>4 DEF ProcOK
  <1>6. MemoryInv(p, m)
    BY <1>1, <1>2, <1>3, <1>4, SMTT(30) DEF MemoryInv, Idle, Recovering, At
  <1>7. proc[p] # Idle /\ ~Recovering(m) /\ (m = Idle \/ m.goal = proc[p].goal)
    BY <1>1, <1>2, <1>4, SMTT(30) DEF At, Idle, Recovering
  <1> QED BY <1>1, <1>2, <1>5, <1>6, <1>7, QuietContinue, Zenon

\* PutMembershipEvents stores a prefix of the relay's chain.
LEMMA StoreChainKeeps ==
  ASSUME MemberInv, NEW p \in Process, StoreChain(p)
  PROVE  MemberInv'
  <1> DEFINE d == p[1]
             m == [proc[p] EXCEPT !.pc = "stored"]
  <1>1. /\ At(p, "compared") /\ proc' = [proc EXCEPT ![p] = m]
        /\ local' = [local EXCEPT ![d] = proc[p].chain]
        /\ UNCHANGED <<membership, log, known, cursor, noted, invited, late>>
    BY DEF StoreChain, Goto, Become, relayVars
  <1>2. d \in Device /\ ProcOK(proc[p]) /\ MemoryInv(p, proc[p])
    BY DEF MemberInv, TypeOK, Process
  <1>3. proc[p] \in [pc : {"fetched", "compared", "stored"}, chain : Chains, goal : Goal]
    BY <1>1, <1>2, SMTT(30) DEF ProcOK, At, Idle
  <1>4. PICK n : n = m
    BY Zenon
  <1>5. n \in [pc : {"stored"}, chain : Chains, goal : Goal] /\ n.chain = proc[p].chain
        /\ n.goal = proc[p].goal
    BY <1>3, <1>4
  <1>6. n.chain # <<>> /\ IsPrefixOf(n.chain, membership)
    BY <1>1, <1>2, <1>5 DEF MemoryInv, At
  <1>7. /\ local' \in [Device -> Chains] /\ local'[d] = n.chain
        /\ \A c \in Device : c # d => local'[c] = local[c]
    BY <1>1, <1>2, <1>5 DEF MemberInv, TypeOK
  <1>8. Grows
    BY <1>1, QuietGrows DEF relayVars, MemberInv
  <1>9. MemoryInv(p, n)' /\ ProcOK(n) /\ ~Recovering(n)
    BY <1>1, <1>5, <1>6, <1>7 DEF MemoryInv, Recovering, Installed, ProcOK, Idle
  <1>10. \A q \in Process : q # p /\ proc[q] # Idle /\ ~Recovering(proc[q]) => Keeps(q[1])
    BY <1>1, <1>6, <1>7 DEF MemberInv, MemoryInv, Keeps, Installed, Process
  <1>11. LocalIsPrefix'
    BY <1>1, <1>6, <1>7, <1>8, LocalGrows DEF LocalIsPrefix
  <1>12. ChainIsValid' /\ WritersAreKnown' /\ LogInv'
    BY <1>1 DEF MemberInv, ChainIsValid, WritersAreKnown, LogInv
  <1>13. RecoveryInv'
    <2>1. proc[p] # Idle /\ Installed(d)
      BY <1>1, <1>2, SMTT(30) DEF At, Idle, MemoryInv, Recovering
    <2>2. \A q \in Process : Recovering(proc[q]) => local'[q[1]] = local[q[1]] /\ invited'[q[1]] = invited[q[1]]
      BY <1>1, <1>7, <2>1 DEF MemberInv, RecoveryInv, Process
    <2>3. proc' = [proc EXCEPT ![p] = n]
      BY <1>1, <1>4
    <2> QED BY <1>5, <1>9, <2>1, <2>2, <2>3, ContinueKeepsRecovery, Zenon
  <1>14. /\ known' \in [Device -> SUBSET Device] /\ cursor' \in [Device -> Nat]
         /\ noted' \in [Device -> [Device -> Int]] /\ invited' \in [Device -> Int]
    BY <1>1 DEF MemberInv, TypeOK
  <1>15. proc' = [proc EXCEPT ![p] = n] /\ late' = late
    BY <1>1, <1>4
  <1> HIDE DEF m
  <1> QED BY <1>7, <1>8, <1>9, <1>10, <1>11, <1>12, <1>13, <1>14, <1>15, RequestStep, Zenon

\* Every device of the chain gets its row before records are pulled.
LEMMA RecordDevicesKeeps ==
  ASSUME MemberInv, NEW p \in Process, RecordDevices(p)
  PROVE  MemberInv'
  <1> DEFINE d == p[1]
             c == proc[p].chain
  <1>1. PICK m : /\ proc' = [proc EXCEPT ![p] = m]
                 /\ m = [pc |-> "push", chain |-> c, goal |-> proc[p].goal,
                         newly |-> {x \in Revoked(c) : noted[d][x] = Absent}]
    BY Zenon DEF RecordDevices, Become
  <1>2. /\ At(p, "stored") /\ known' = [known EXCEPT ![d] = @ \cup Enrolled(c)]
        /\ UNCHANGED <<membership, log, local, cursor, noted, invited, late>>
    BY DEF RecordDevices, relayVars
  <1>3. d \in Device /\ ProcOK(proc[p]) /\ MemoryInv(p, proc[p])
    BY DEF MemberInv, TypeOK, Process
  <1>4. proc[p] \in [pc : {"fetched", "compared", "stored"}, chain : Chains, goal : Goal]
    BY <1>2, <1>3, SMTT(30) DEF ProcOK, At, Idle
  <1>5. Enrolled(c) \subseteq Device /\ Revoked(c) \subseteq Device
    BY <1>4, NamedAreDevices
  <1>6. IsPrefixOf(c, membership) /\ Installed(d) /\ proc[p] # Idle
    BY <1>2, <1>3, SMTT(30) DEF MemoryInv, At, Recovering, Idle
  <1>7. /\ known' \in [Device -> SUBSET Device] /\ Enrolled(c) \subseteq known'[d]
        /\ \A x \in Device : known[x] \subseteq known'[x]
    BY <1>2, <1>3, <1>5 DEF MemberInv, TypeOK
  <1>8. Grows
    BY <1>2, QuietGrows DEF relayVars, MemberInv
  <1>9. MemoryInv(p, m)' /\ ProcOK(m) /\ ~Recovering(m)
    BY <1>1, <1>2, <1>4, <1>5, <1>6, <1>7 DEF MemoryInv, Recovering, Installed, ProcOK, Idle
  <1>10. \A q \in Process : q # p /\ proc[q] # Idle /\ ~Recovering(proc[q]) => Keeps(q[1])
    BY <1>2, <1>7 DEF MemberInv, MemoryInv, Keeps, Installed, Process
  <1>11. WritersAreKnown'
    BY <1>2, <1>7, <1>8, KnownGrows DEF WritersAreKnown
  <1>12. ChainIsValid' /\ LocalIsPrefix' /\ LogInv'
    BY <1>2 DEF MemberInv, ChainIsValid, LocalIsPrefix, LogInv
  <1>13. RecoveryInv'
    <2>1. m.goal = proc[p].goal
      BY <1>1
    <2> QED BY <1>1, <1>2, <1>6, <1>9, <2>1, ContinueKeepsRecovery, Zenon
  <1>14. /\ local' \in [Device -> Chains] /\ cursor' \in [Device -> Nat]
         /\ noted' \in [Device -> [Device -> Int]] /\ invited' \in [Device -> Int] /\ late' = late
    BY <1>2 DEF MemberInv, TypeOK
  <1> QED BY <1>1, <1>7, <1>8, <1>9, <1>10, <1>11, <1>12, <1>13, <1>14, RequestStep, Zenon

\* The relay writes only for a device its chain enrols.
LEMMA CheckWriterKeeps ==
  ASSUME MemberInv, NEW p \in Process, CheckWriter(p)
  PROVE  MemberInv'
  <1>1. PICK m : /\ proc' = [proc EXCEPT ![p] = m]
                 /\ \/ m = Idle
                    \/ m = [proc[p] EXCEPT !.pc = "writing"] /\ p[1] \in Authorized(membership)
    BY DEF CheckWriter, Goto, Become
  <1>2. At(p, "push") /\ UNCHANGED <<membership, log, local, known, cursor, noted, invited, late>>
    BY DEF CheckWriter, relayVars, deviceVars
  <1>3. ProcOK(proc[p]) /\ MemoryInv(p, proc[p])
    BY DEF MemberInv, TypeOK
  <1>4. proc[p] \in [pc : {"push", "writing"}, chain : Chains, goal : Goal, newly : SUBSET Device]
    BY <1>2, <1>3, SMTT(30) DEF ProcOK, At, Idle
  <1>5. ProcOK(m)
    BY <1>1, <1>4 DEF ProcOK
  <1>6. MemoryInv(p, m)
    BY <1>1, <1>2, <1>3, <1>4, SMTT(30) DEF MemoryInv, Idle, Recovering, At, Authorized
  <1>7. proc[p] # Idle /\ ~Recovering(m) /\ (m = Idle \/ m.goal = proc[p].goal)
    BY <1>1, <1>2, <1>4, SMTT(30) DEF At, Idle, Recovering
  <1> QED BY <1>1, <1>2, <1>5, <1>6, <1>7, QuietContinue, Zenon

\* What a pull starts from, its device has the writers of.
LEMMA FetchRecordsKeeps ==
  ASSUME MemberInv, NEW p \in Process, FetchRecords(p)
  PROVE  MemberInv'
  <1>1. PICK m : /\ proc' = [proc EXCEPT ![p] = m]
                 /\ \/ m = Idle
                    \/ m = [pc |-> "pulled", chain |-> proc[p].chain, goal |-> proc[p].goal,
                            newly |-> proc[p].newly, since |-> cursor[p[1]], through |-> Len(log)]
    BY DEF FetchRecords, Become
  <1>2. At(p, "push") /\ UNCHANGED <<membership, log, local, known, cursor, noted, invited, late>>
    BY DEF FetchRecords, relayVars, deviceVars
  <1>3. ProcOK(proc[p]) /\ MemoryInv(p, proc[p])
    BY DEF MemberInv, TypeOK
  <1>4. proc[p] \in [pc : {"push", "writing"}, chain : Chains, goal : Goal, newly : SUBSET Device]
    BY <1>2, <1>3, SMTT(30) DEF ProcOK, At, Idle
  <1>5. /\ cursor[p[1]] \in Nat /\ Len(log) \in Nat /\ cursor[p[1]] <= Len(log)
        /\ \A i \in 1..cursor[p[1]] : log[i] \in known[p[1]]
    BY SMTT(30) DEF MemberInv, TypeOK, LogInv, WritersAreKnown, Process
  <1>6. ProcOK(m)
    BY <1>1, <1>4, <1>5, SMTT(30) DEF ProcOK
  <1>7. MemoryInv(p, m)
    BY <1>1, <1>2, <1>3, <1>4, <1>5, SMTT(30) DEF MemoryInv, Idle, Recovering, At
  <1>8. proc[p] # Idle /\ ~Recovering(m) /\ (m = Idle \/ m.goal = proc[p].goal)
    BY <1>1, <1>2, <1>4, SMTT(30) DEF At, Idle, Recovering
  <1> QED BY <1>1, <1>2, <1>6, <1>7, <1>8, QuietContinue, Zenon

\* The record's writer is enrolled when the transaction commits, if revoked by then.
LEMMA CommitWriteKeeps ==
  ASSUME MemberInv, NEW p \in Process, CommitWrite(p)
  PROVE  MemberInv'
  <1> DEFINE d == p[1]
  <1>1. PICK m : proc' = [proc EXCEPT ![p] = m] /\ m = [proc[p] EXCEPT !.pc = "push"]
    BY Zenon DEF CommitWrite, Goto, Become
  <1>2. /\ At(p, "writing") /\ log' = Append(log, d)
        /\ UNCHANGED <<membership, local, known, cursor, noted, invited, late>>
    BY DEF CommitWrite, deviceVars
  <1>3. d \in Device /\ ProcOK(proc[p]) /\ MemoryInv(p, proc[p])
    BY DEF MemberInv, TypeOK, Process
  <1>4. proc[p] \in [pc : {"push", "writing"}, chain : Chains, goal : Goal, newly : SUBSET Device]
    BY <1>2, <1>3, SMTT(30) DEF ProcOK, At, Idle
  <1>5. /\ log \in Seq(Device) /\ log' \in Seq(Device) /\ Len(log') = Len(log) + 1
        /\ \A i \in 1..Len(log) : log'[i] = log[i]
        /\ log'[Len(log) + 1] = d
    BY <1>2, <1>3, SMTT(30) DEF MemberInv, TypeOK
  <1>6. Grows
    BY <1>2, <1>5, PrefixReflexive, SMTT(30) DEF Grows, MemberInv, TypeOK
  <1>7. MemoryInv(p, m)' /\ ProcOK(m) /\ ~Recovering(m) /\ m.goal = proc[p].goal /\ proc[p] # Idle
    BY <1>1, <1>2, <1>3, <1>4, SMTT(30) DEF MemoryInv, Recovering, Installed, ProcOK, Idle, At
  <1>8. \A q \in Process : q # p /\ proc[q] # Idle /\ ~Recovering(proc[q]) => Keeps(q[1])
    BY <1>2 DEF MemberInv, MemoryInv, Keeps, Installed
  <1>9. WritersAreKnown'
    BY <1>2, <1>6, KnownGrows, Zenon DEF WritersAreKnown
  <1>10. ChainIsValid' /\ LocalIsPrefix'
    BY <1>2 DEF MemberInv, ChainIsValid, LocalIsPrefix
  <1>11. LogInv'
    <2>1. d \in Enrolled(membership)
      BY <1>2, <1>3 DEF MemoryInv, At
    <2>2. /\ \A i \in 1..Len(log) : log[i] \in Enrolled(membership)
          /\ \A x \in Device : /\ cursor[x] <= Len(log) /\ Absent <= invited[x] /\ invited[x] <= Len(log)
                               /\ cursor[x] \in Nat /\ invited[x] \in Int
      BY DEF MemberInv, LogInv, TypeOK
    <2> QED BY <1>2, <1>5, <2>1, <2>2, SMTT(30) DEF LogInv
  <1>12. RecoveryInv'
    BY <1>1, <1>2, <1>7, ContinueKeepsRecovery, Zenon
  <1>13. /\ local' \in [Device -> Chains] /\ cursor' \in [Device -> Nat] /\ late' = late
         /\ noted' \in [Device -> [Device -> Int]] /\ invited' \in [Device -> Int]
         /\ known' \in [Device -> SUBSET Device]
    BY <1>2 DEF MemberInv, TypeOK
  <1> QED BY <1>1, <1>6, <1>7, <1>8, <1>9, <1>10, <1>11, <1>12, <1>13, RequestStep, Zenon

\* A page is taken in when the request's chain enrols every writer in it.
LEMMA ApplyPageKeeps ==
  ASSUME MemberInv, NEW p \in Process, ApplyPage(p)
  PROVE  MemberInv'
  <1> DEFINE d == p[1]
             q == proc[p]
  <1>1. /\ At(p, "pulled")
        /\ UNCHANGED <<membership, log, local, known, noted, invited, late>>
    BY DEF ApplyPage, relayVars
  <1>2. d \in Device /\ ProcOK(q) /\ MemoryInv(p, q)
    BY DEF MemberInv, TypeOK, Process
  <1>3. q \in [pc : {"pulled", "noting"}, chain : Chains, goal : Goal,
               newly : SUBSET Device, since : Nat, through : Nat]
    BY <1>1, <1>2, SMTT(30) DEF ProcOK, At, Idle
  <1>4. CASE cursor' = cursor /\ proc' = [proc EXCEPT ![p] = Idle]
    <2>1. q # Idle
      BY <1>1, SMTT(30) DEF At, Idle
    <2> QED BY <1>1, <1>4, <2>1, QuietContinue, Zenon
  <1>5. CASE /\ \A i \in (q.since + 1)..q.through : Verifies(d, q.chain, i)
             /\ cursor' = [cursor EXCEPT ![d] = q.through]
             /\ proc' = [proc EXCEPT ![p] = [q EXCEPT !.pc = "noting"]]
    <2>1. PICK m : m = [q EXCEPT !.pc = "noting"]
      BY Zenon
    <2>2. proc' = [proc EXCEPT ![p] = m]
      BY <1>5, <2>1
    <2>3. /\ m \in [pc : {"noting"}, chain : Chains, goal : Goal,
                    newly : SUBSET Device, since : Nat, through : Nat]
          /\ m.chain = q.chain /\ m.goal = q.goal
      BY <1>3, <2>1
    <2>4. Grows
      BY <1>1, QuietGrows DEF relayVars, MemberInv
    <2>5. /\ Installed(d) /\ q # Idle /\ IsPrefixOf(q.chain, membership)
          /\ Enrolled(q.chain) \subseteq known[d]
          /\ q.since <= Len(log) /\ q.through <= Len(log)
          /\ \A i \in 1..q.since : log[i] \in known[d]
      BY <1>1, <1>2, SMTT(30) DEF MemoryInv, At, Recovering, Idle
    <2>6. MemoryInv(p, m)' /\ ProcOK(m) /\ ~Recovering(m)
      BY <1>1, <2>3, <2>5 DEF MemoryInv, Recovering, Installed, ProcOK, Idle
    <2>7. /\ cursor' \in [Device -> Nat] /\ cursor'[d] = q.through
          /\ \A x \in Device : x # d => cursor'[x] = cursor[x]
      BY <1>2, <1>3, <1>5 DEF MemberInv, TypeOK
    <2>8. \A i \in 1..q.through : log[i] \in known[d]
      BY <1>3, <1>5, <2>5, SMTT(30) DEF Verifies
    <2>9. WritersAreKnown'
      <3> SUFFICES ASSUME NEW x \in Device PROVE \A i \in 1..cursor'[x] : log'[i] \in known'[x]
        BY DEF WritersAreKnown
      <3>1. CASE x = d
        BY <1>1, <2>7, <2>8, <3>1
      <3>2. CASE x # d
        BY <1>1, <2>4, <2>7, <3>2, KnownGrows
      <3> QED BY <3>1, <3>2
    <2>10. ChainIsValid' /\ LocalIsPrefix' /\ LogInv'
      BY <1>1, <2>5, <2>7 DEF MemberInv, ChainIsValid, LocalIsPrefix, LogInv
    <2>11. RecoveryInv'
      BY <1>1, <2>2, <2>3, <2>5, <2>6, ContinueKeepsRecovery, Zenon
    <2>12. \A r \in Process : r # p /\ proc[r] # Idle /\ ~Recovering(proc[r]) => Keeps(r[1])
      BY <1>1 DEF MemberInv, MemoryInv, Keeps, Installed
    <2>13. /\ local' \in [Device -> Chains] /\ late' = late
           /\ noted' \in [Device -> [Device -> Int]] /\ invited' \in [Device -> Int]
           /\ known' \in [Device -> SUBSET Device]
      BY <1>1 DEF MemberInv, TypeOK
    <2> QED BY <2>2, <2>4, <2>6, <2>7, <2>9, <2>10, <2>11, <2>12, <2>13, RequestStep, Zenon
  <1> QED BY <1>4, <1>5 DEF ApplyPage, Goto, Become

\* Positions are no part of the invariant but their type.
LEMMA NoteRevocationsKeeps ==
  ASSUME MemberInv, NEW p \in Process, NoteRevocations(p)
  PROVE  MemberInv'
  <1> DEFINE d == p[1]
             q == proc[p]
  <1>1. PICK m : /\ proc' = [proc EXCEPT ![p] = m]
                 /\ m = IF q.goal = "sync" THEN Idle ELSE [pc |-> "deliver", goal |-> q.goal]
    BY Zenon DEF NoteRevocations, Become
  <1>2. /\ At(p, "noting")
        /\ noted' = [noted EXCEPT ![d] =
             [x \in Device |-> IF x \in q.newly /\ @[x] = Absent THEN q.through ELSE @[x]]]
        /\ UNCHANGED <<membership, log, local, known, cursor, invited, late>>
    BY DEF NoteRevocations, relayVars
  <1>3. d \in Device /\ ProcOK(q) /\ MemoryInv(p, q)
    BY DEF MemberInv, TypeOK, Process
  <1>4. q \in [pc : {"pulled", "noting"}, chain : Chains, goal : Goal,
               newly : SUBSET Device, since : Nat, through : Nat]
    BY <1>2, <1>3, SMTT(30) DEF ProcOK, At, Idle
  <1>5. noted' \in [Device -> [Device -> Int]]
    BY <1>2, <1>3, <1>4, SMTT(30) DEF MemberInv, TypeOK
  <1>6. Grows
    BY <1>2, QuietGrows DEF relayVars, MemberInv
  <1>7. Installed(d) /\ q # Idle
    BY <1>2, <1>3, SMTT(30) DEF MemoryInv, At, Recovering, Idle
  <1>8. ProcOK(m) /\ ~Recovering(m) /\ (m = Idle \/ m.goal = q.goal)
    BY <1>1, <1>4 DEF ProcOK, Goal, Recovering, Idle
  <1>9. MemoryInv(p, m)'
    BY <1>1, <1>2, <1>7 DEF MemoryInv, Installed, Idle, Recovering
  <1>10. ChainIsValid' /\ LocalIsPrefix' /\ LogInv' /\ WritersAreKnown'
    BY <1>2 DEF MemberInv, ChainIsValid, LocalIsPrefix, LogInv, WritersAreKnown
  <1>11. RecoveryInv'
    BY <1>1, <1>2, <1>7, <1>8, ContinueKeepsRecovery, Zenon
  <1>12. \A r \in Process : r # p /\ proc[r] # Idle /\ ~Recovering(proc[r]) => Keeps(r[1])
    BY <1>2 DEF MemberInv, MemoryInv, Keeps, Installed
  <1>13. /\ local' \in [Device -> Chains] /\ late' = late /\ cursor' \in [Device -> Nat]
         /\ invited' \in [Device -> Int] /\ known' \in [Device -> SUBSET Device]
    BY <1>2 DEF MemberInv, TypeOK
  <1> QED BY <1>1, <1>5, <1>6, <1>8, <1>9, <1>10, <1>11, <1>12, <1>13, RequestStep, Zenon

-----------------------------------------------------------------------------
(* Revocation positions. *)

\* A sync begins: nothing is stored yet.
LEMMA NotedFetch ==
  ASSUME MemberInv, NotedInv, NEW p \in Process, Undisturbed(p), NEW goal, Fetch(p, goal)
  PROVE  NotedInv'
  <1>1. Grows /\ UNCHANGED <<local, cursor, noted>>
    BY QuietRelay DEF Fetch, relayVars
  <1>2. PICK m : m = [pc |-> "fetched", chain |-> membership, goal |-> goal]
    BY Zenon
  <1>3. NotedMemory(p, m)
    BY <1>2 DEF NotedMemory
  <1>4. proc' = [proc EXCEPT ![p] = m] \/ proc' = [proc EXCEPT ![p] = Idle]
    BY <1>2 DEF Fetch, Become
  <1> QED BY <1>1, <1>3, <1>4, NotedIdle, NotedQuiet

\* The fetched chain passes the comparison with the stored one.
LEMMA NotedCompare ==
  ASSUME MemberInv, NotedInv, NEW p \in Process, Undisturbed(p), Compare(p)
  PROVE  NotedInv'
  <1>1. Grows /\ UNCHANGED <<local, cursor, noted>> /\ At(p, "fetched")
    BY QuietRelay DEF Compare, relayVars, deviceVars
  <1>2. PICK m : m = [proc[p] EXCEPT !.pc = "compared"]
    BY Zenon
  <1>3. proc[p] \in [pc : {"fetched", "compared", "stored"}, chain : Chains, goal : Goal]
    BY <1>1, SyncShape
  <1>4. IsPrefixOf(local[p[1]], proc[p].chain) => NotedMemory(p, m)
    BY <1>2, <1>3 DEF NotedMemory
  <1>5. \/ proc' = [proc EXCEPT ![p] = m] /\ IsPrefixOf(local[p[1]], proc[p].chain)
        \/ proc' = [proc EXCEPT ![p] = Idle]
    BY <1>2 DEF Compare, Become, Goto
  <1> QED BY <1>1, <1>4, <1>5, NotedIdle, NotedQuiet

\* The stored chain grows, so what it revokes stays revoked.
LEMMA NotedStoreChain ==
  ASSUME MemberInv, NotedInv, NEW p \in Process, Undisturbed(p), StoreChain(p)
  PROVE  NotedInv'
  <1> DEFINE d == p[1]
             c == proc[p].chain
  <1>1. /\ At(p, "compared") /\ UNCHANGED <<membership, log, cursor, noted>>
        /\ local' = [local EXCEPT ![d] = c]
    BY DEF StoreChain, relayVars
  <1>2. Grows
    BY <1>1, QuietRelay
  <1>3. PICK m : m = [proc[p] EXCEPT !.pc = "stored"]
    BY Zenon
  <1>4. proc' = [proc EXCEPT ![p] = m]
    BY <1>3 DEF StoreChain, Goto, Become
  <1>5. /\ d \in Device /\ local \in [Device -> Chains] /\ MemoryInv(p, proc[p])
        /\ NotedMemory(p, proc[p]) /\ NotedAt(d)
    BY NotedOwn DEF MemberInv, TypeOK, Process
  <1>6. proc[p] \in [pc : {"fetched", "compared", "stored"}, chain : Chains, goal : Goal]
    BY <1>1, SyncShape
  <1>7. /\ c \in Chains /\ c # <<>> /\ local[d] \in Chains /\ IsPrefixOf(local[d], c)
        /\ local'[d] = c /\ \A x \in Device : x # d => local'[x] = local[x]
    BY <1>1, <1>5, <1>6 DEF MemoryInv, NotedMemory, At
  <1>8. Revoked(local[d]) \subseteq Revoked(c)
    BY <1>7, NamedGrows
  <1>9. NotedAt(d)'
    BY <1>1, <1>5, <1>7, <1>8 DEF NotedAt, Installed
  <1>10. NotedMemory(p, m)'
    BY <1>3, <1>6, <1>7 DEF NotedMemory
  <1> QED BY <1>1, <1>2, <1>4, <1>7, <1>9, <1>10, NotedStep, Zenon

\* The news are revocations of the stored chain.
LEMMA NotedRecordDevices ==
  ASSUME MemberInv, NotedInv, NEW p \in Process, Undisturbed(p), RecordDevices(p)
  PROVE  NotedInv'
  <1>1. Grows /\ UNCHANGED <<local, cursor, noted>> /\ At(p, "stored")
    BY QuietRelay DEF RecordDevices, relayVars
  <1>2. PICK m : m = [pc |-> "push", chain |-> proc[p].chain, goal |-> proc[p].goal,
                      newly |-> {x \in Revoked(proc[p].chain) : noted[p[1]][x] = Absent}]
    BY Zenon
  <1>3. proc' = [proc EXCEPT ![p] = m]
    BY <1>2 DEF RecordDevices, Become
  <1>4. NotedMemory(p, proc[p])
    BY NotedOwn
  <1>5. NotedMemory(p, m)
    BY <1>1, <1>2, <1>4 DEF NotedMemory, At
  <1> QED BY <1>1, <1>3, <1>5, NotedQuiet, Zenon

\* Pushing: the relay's side of it.
LEMMA NotedPush ==
  ASSUME MemberInv, NotedInv, Grows, NEW p \in Process, Undisturbed(p), NEW m,
         At(p, "push") \/ At(p, "writing"),
         m = [proc[p] EXCEPT !.pc = "push"] \/ m = [proc[p] EXCEPT !.pc = "writing"] \/ m = Idle,
         proc' = [proc EXCEPT ![p] = m], UNCHANGED <<local, cursor, noted>>
  PROVE  NotedInv'
  <1>1. proc[p] \in [pc : {"push", "writing"}, chain : Chains, goal : Goal, newly : SUBSET Device]
    BY SyncShape
  <1>2. NotedMemory(p, proc[p])
    BY NotedOwn
  <1>3. NotedMemory(p, m)
    BY <1>1, <1>2, NotedIdle DEF NotedMemory
  <1> QED BY <1>3, NotedQuiet, Zenon

\* A pull starts at the cursor.
LEMMA NotedFetchRecords ==
  ASSUME MemberInv, NotedInv, NEW p \in Process, Undisturbed(p), FetchRecords(p)
  PROVE  NotedInv'
  <1>1. Grows /\ UNCHANGED <<local, cursor, noted>> /\ At(p, "push")
    BY QuietRelay DEF FetchRecords, relayVars, deviceVars
  <1>2. PICK m : m = [pc |-> "pulled", chain |-> proc[p].chain, goal |-> proc[p].goal,
                      newly |-> proc[p].newly, since |-> cursor[p[1]], through |-> Len(log)]
    BY Zenon
  <1>3. proc' = [proc EXCEPT ![p] = m] \/ proc' = [proc EXCEPT ![p] = Idle]
    BY <1>2 DEF FetchRecords, Become
  <1>4. NotedMemory(p, proc[p])
    BY NotedOwn
  <1>5. NotedMemory(p, m)
    BY <1>1, <1>2, <1>4 DEF NotedMemory, At
  <1> QED BY <1>1, <1>3, <1>5, NotedIdle, NotedQuiet

\* A page with a record beyond its writer's position is refused.
LEMMA NotedApplyPage ==
  ASSUME MemberInv, NotedInv, NEW p \in Process, Undisturbed(p), ApplyPage(p)
  PROVE  NotedInv'
  <1> DEFINE d == p[1]
             q == proc[p]
  <1>1. At(p, "pulled") /\ UNCHANGED <<membership, log, local, noted>>
    BY DEF ApplyPage, relayVars
  <1>2. Grows
    BY <1>1, QuietRelay
  <1>3. /\ d \in Device /\ cursor \in [Device -> Nat] /\ noted \in [Device -> [Device -> Int]]
        /\ NotedMemory(p, q) /\ NotedAt(d)
    BY NotedOwn DEF MemberInv, TypeOK, Process
  <1>4. q \in [pc : {"pulled", "noting"}, chain : Chains, goal : Goal,
               newly : SUBSET Device, since : Nat, through : Nat]
    BY <1>1, SyncShape
  <1>5. CASE proc' = [proc EXCEPT ![p] = Idle] /\ cursor' = cursor
    BY <1>1, <1>2, <1>5, NotedIdle, NotedQuiet, Zenon
  <1>6. CASE /\ \A i \in (q.since + 1)..q.through : Verifies(d, q.chain, i)
             /\ cursor' = [cursor EXCEPT ![d] = q.through]
             /\ proc' = [proc EXCEPT ![p] = [q EXCEPT !.pc = "noting"]]
    <2>1. PICK m : m = [q EXCEPT !.pc = "noting"]
      BY Zenon
    <2>2. proc' = [proc EXCEPT ![p] = m]
      BY <1>6, <2>1
    <2>3. cursor'[d] = q.through /\ \A x \in Device : x # d => cursor'[x] = cursor[x]
      BY <1>3, <1>6
    <2>4. q.chain = local[d] /\ q.since = cursor[d] /\ q.newly \subseteq Revoked(q.chain)
      BY <1>1, <1>3 DEF NotedMemory, At
    <2>5. NotedMemory(p, m)'
      BY <1>1, <1>4, <2>1, <2>3, <2>4 DEF NotedMemory
    <2>6. ASSUME NEW x \in Device, noted[d][x] # Absent
          PROVE  /\ x \in Revoked(local[d])
                 /\ \A i \in 1..q.through : log[i] = x => i <= noted[d][x]
      <3>1. x \in Revoked(local[d]) /\ \A i \in 1..cursor[d] : log[i] = x => i <= noted[d][x]
        BY <1>3, <2>6 DEF NotedAt
      <3>2. ASSUME NEW i \in 1..q.through, log[i] = x PROVE i <= noted[d][x]
        <4>1. CASE i \in 1..cursor[d]
          BY <3>1, <3>2, <4>1
        <4>2. CASE i \in (q.since + 1)..q.through
          BY <1>6, <2>4, <2>6, <3>1, <3>2, <4>2 DEF Verifies
        <4> QED BY <1>3, <1>4, <2>4, <4>1, <4>2, SMTT(30)
      <3> QED BY <3>1, <3>2
    <2>7. NotedAt(d)'
      BY <1>1, <1>3, <2>3, <2>6 DEF NotedAt, Installed
    <2> QED BY <1>1, <1>2, <2>2, <2>3, <2>5, <2>7, NotedStep, Zenon
  <1> QED BY <1>5, <1>6 DEF ApplyPage, Goto, Become

\* A position is the cursor at the end of a complete pull.
LEMMA NotedNoteRevocations ==
  ASSUME MemberInv, NotedInv, NEW p \in Process, Undisturbed(p), NoteRevocations(p)
  PROVE  NotedInv'
  <1> DEFINE d == p[1]
             q == proc[p]
  <1>1. /\ At(p, "noting") /\ UNCHANGED <<membership, log, local, cursor>>
        /\ noted' = [noted EXCEPT ![d] =
             [x \in Device |-> IF x \in q.newly /\ noted[d][x] = Absent THEN q.through ELSE noted[d][x]]]
    BY DEF NoteRevocations, relayVars
  <1>2. Grows
    BY <1>1, QuietRelay
  <1>3. /\ d \in Device /\ cursor \in [Device -> Nat] /\ noted \in [Device -> [Device -> Int]]
        /\ NotedMemory(p, q) /\ NotedAt(d) /\ MemoryInv(p, q)
    BY NotedOwn DEF MemberInv, TypeOK, Process
  <1>4. q \in [pc : {"pulled", "noting"}, chain : Chains, goal : Goal,
               newly : SUBSET Device, since : Nat, through : Nat]
    BY <1>1, SyncShape
  <1>5. PICK m : m = IF q.goal = "sync" THEN Idle ELSE [pc |-> "deliver", goal |-> q.goal]
    BY ZenonT(30)
  <1>6. proc' = [proc EXCEPT ![p] = m]
    BY <1>5 DEF NoteRevocations, Become
  <1>7. NotedMemory(p, m)'
    BY <1>5 DEF NotedMemory, Idle
  <1>8. Installed(d) /\ q.chain = local[d] /\ q.newly \subseteq Revoked(q.chain) /\ q.through = cursor[d]
    BY <1>1, <1>3, SMTT(30) DEF MemoryInv, NotedMemory, At, Idle, Recovering
  <1>9. /\ \A x \in Device : noted'[d][x] =
             IF x \in q.newly /\ noted[d][x] = Absent THEN q.through ELSE noted[d][x]
        /\ \A y \in Device : y # d => noted'[y] = noted[y]
    BY <1>1, <1>3
  <1>10. ASSUME NEW x \in Device, noted'[d][x] # Absent
         PROVE  /\ x \in Revoked(local[d])
                /\ \A i \in 1..cursor[d] : log[i] = x => i <= noted'[d][x]
    <2>1. CASE noted[d][x] # Absent
      BY <1>3, <1>9, <2>1 DEF NotedAt
    <2>2. CASE noted[d][x] = Absent
      <3>1. x \in q.newly /\ noted'[d][x] = cursor[d]
        BY <1>8, <1>9, <1>10, <2>2
      <3> QED BY <1>3, <1>8, <3>1, SMTT(30)
    <2> QED BY <2>1, <2>2
  <1>11. NotedAt(d)'
    BY <1>1, <1>8, <1>10 DEF NotedAt, Installed
  <1> QED BY <1>1, <1>2, <1>6, <1>7, <1>9, <1>11, NotedStep, Zenon

-----------------------------------------------------------------------------
\* A device that revokes itself holds the chain it will extend.
LEMMA NotedRequestRevoke ==
  ASSUME MemberInv, NotedInv, NEW p \in Process, Undisturbed(p), NEW x \in Device, RequestRevoke(p, x)
  PROVE  NotedInv'
  <1> DEFINE c == local[p[1]]
  <1>1. Grows /\ UNCHANGED <<local, cursor, noted>>
    BY QuietRelay DEF RequestRevoke, relayVars, deviceVars
  <1>2. PICK m : m = [pc |-> "append", chain |-> c, ev |-> Revoke(c, p[1], x),
                      goal |-> IF x = p[1] THEN "self" ELSE "sync"]
    BY Zenon
  <1>3. proc' = [proc EXCEPT ![p] = m]
    BY <1>2 DEF RequestRevoke, Ask, Become
  <1>4. NotedMemory(p, m)
    BY <1>2 DEF NotedMemory
  <1> QED BY <1>1, <1>3, <1>4, NotedQuiet, Zenon

\* A delivery stores nothing at the device.
LEMMA NotedDeliver ==
  ASSUME MemberInv, NotedInv, NEW p \in Process, Undisturbed(p), Deliver(p)
  PROVE  NotedInv'
  <1> DEFINE c == local[p[1]]
             x == proc[p].goal
  <1>1. Grows /\ UNCHANGED <<local, cursor, noted>>
    BY QuietRelay DEF Deliver, relayVars, deviceVars
  <1>2. PICK m : m = [pc |-> "append", chain |-> c, ev |-> Enroll(c, p[1], x), goal |-> "sync"]
    BY Zenon
  <1>3. proc' = [proc EXCEPT ![p] = m] \/ proc' = [proc EXCEPT ![p] = Idle]
    BY <1>2 DEF Deliver, Ask, Become
  <1>4. NotedMemory(p, m)
    BY <1>2 DEF NotedMemory
  <1> QED BY <1>1, <1>3, <1>4, NotedIdle, NotedQuiet

\* A recovering machine has no positions.
LEMMA NotedStartRecovery ==
  ASSUME MemberInv, NotedInv, NEW p \in Process, Undisturbed(p), NEW n, NEW seq, StartRecovery(p, n, seq)
  PROVE  NotedInv'
  <1> DEFINE c == Prefix(membership, n)
  <1>1. Grows /\ UNCHANGED <<local, cursor, noted>>
    BY QuietRelay, Zenon DEF StartRecovery, relayVars, deviceVars
  <1>2. PICK m : m = [pc |-> "append", chain |-> c, ev |-> RecoveryEnroll(c, p[1]),
                      goal |-> "install", seq |-> seq]
    BY Zenon
  <1>3. proc' = [proc EXCEPT ![p] = m]
    BY <1>2 DEF StartRecovery, Become
  <1>4. NotedMemory(p, m)
    BY <1>2 DEF NotedMemory
  <1> QED BY <1>1, <1>3, <1>4, NotedQuiet, Zenon

\* An event on its way to the chain: the relay's side of it.
LEMMA NotedAppend ==
  ASSUME MemberInv, NotedInv, Grows, NEW p \in Process, Undisturbed(p), NEW m, NEW pc,
         At(p, "append") \/ At(p, "inserting"), pc \in {"inserting", "appended", "keep"},
         pc = "keep" => proc[p].goal # "sync",
         m = [proc[p] EXCEPT !.pc = pc] \/ m = Idle,
         proc' = [proc EXCEPT ![p] = m], UNCHANGED <<local, cursor, noted>>
  PROVE  NotedInv'
  <1>0. ProcOK(proc[p])
    BY DEF MemberInv, TypeOK
  <1>1. \/ proc[p] \in [pc : {"append", "inserting", "appended", "keep"}, chain : Chains,
                        ev : Event, goal : {"sync", "self"}]
        \/ proc[p] \in [pc : {"append", "inserting", "keep"}, chain : Chains,
                        ev : Event, goal : {"install"}, seq : Nat]
    BY <1>0, SMTT(30) DEF ProcOK, At, Idle
  <1>2. NotedMemory(p, proc[p])
    BY NotedOwn
  <1>3. NotedMemory(p, m)
    BY <1>1, <1>2, NotedIdle DEF NotedMemory, At
  <1> QED BY <1>3, NotedQuiet, Zenon

\* The chain that is kept extends the one before it, or is the first.
LEMMA NotedKeep ==
  ASSUME MemberInv, NotedInv, NEW p \in Process, Undisturbed(p), Keep(p)
  PROVE  NotedInv'
  <1> DEFINE d == p[1]
             q == proc[p]
             c == Append(q.chain, q.ev)
  <1>1. /\ At(p, "keep") /\ proc' = [proc EXCEPT ![p] = Idle]
        /\ local' = [local EXCEPT ![d] = c]
        /\ cursor' = [cursor EXCEPT ![d] = IF q.goal = "install" THEN q.seq ELSE @]
        /\ UNCHANGED <<membership, log, noted>>
    BY DEF Keep, Become, relayVars
  <1>2. /\ d \in Device /\ local \in [Device -> Chains] /\ cursor \in [Device -> Nat]
        /\ NotedMemory(p, q) /\ NotedAt(d) /\ MemoryInv(p, q) /\ ProcOK(q)
    BY NotedOwn DEF MemberInv, TypeOK, Process
  <1>3. q.chain \in Chains /\ q.ev \in Event /\ q.goal \in {"sync", "self", "install"}
    BY <1>1, <1>2, SMTT(30) DEF ProcOK, At, Idle
  <1>4. c \in Chains /\ c # <<>> /\ Revoked(q.chain) \subseteq Revoked(c)
    <2>1. c \in Chains /\ IsPrefixOf(q.chain, c) /\ c # <<>>
      BY <1>3, PrefixOfAppend, SMTT(30) DEF Chains
    <2> QED BY <1>3, <2>1, NamedGrows, SMTT(30)
  <1>5. /\ local'[d] = c /\ cursor'[d] = IF q.goal = "install" THEN q.seq ELSE cursor[d]
        /\ \A x \in Device : x # d => local'[x] = local[x] /\ cursor'[x] = cursor[x]
    BY <1>1, <1>2
  <1>6. Grows
    BY <1>1, QuietRelay
  <1>7. NotedAt(d)'
    <2>1. CASE q.goal = "install"
      <3>1. ~Installed(d)
        BY <1>1, <2>1 DEF MemberInv, RecoveryInv, Recovering, At
      <3> QED BY <1>1, <1>2, <1>4, <1>5, <3>1 DEF NotedAt, Installed
    <2>2. CASE q.goal = "self"
      <3>1. q.chain = local[d]
        BY <1>1, <1>2, <2>2 DEF NotedMemory, At
      <3> QED BY <1>1, <1>2, <1>4, <1>5, <2>2, <3>1 DEF NotedAt, Installed
    <2>3. CASE q.goal = "sync"
      BY <1>1, <1>2, <2>3 DEF NotedMemory, At
    <2> QED BY <1>3, <2>1, <2>2, <2>3
  <1>8. NotedMemory(p, Idle)'
    BY DEF NotedMemory, Idle
  <1> QED BY <1>1, <1>5, <1>6, <1>7, <1>8, NotedStep, Zenon

\* A joiner has no positions, and no request.
LEMMA NotedInstall ==
  ASSUME MemberInv, NotedInv, NEW x \in Device, Install(x)
  PROVE  NotedInv'
  <1>1. /\ ~Installed(x) /\ invited[x] # Absent
        /\ local' = [local EXCEPT ![x] = membership]
        /\ cursor' = [cursor EXCEPT ![x] = invited[x]]
        /\ UNCHANGED <<membership, log, noted, proc>>
    BY DEF Install, relayVars
  <1>2. \A q \in Process : proc[q] # Idle => q[1] # x /\ q[1] \in Device
    BY <1>1 DEF MemberInv, MemoryInv, RecoveryInv, Process
  <1>3. /\ local'[x] = membership /\ membership # <<>>
        /\ \A y \in Device : y # x => local'[y] = local[y] /\ cursor'[y] = cursor[y]
    BY <1>1 DEF MemberInv, TypeOK, ChainIsValid, Valid
  <1>4. Grows
    BY <1>1, QuietRelay
  <1>5. ASSUME NEW y \in Device, y \notin overlapped PROVE NotedAt(y)'
    <2>1. NotedAt(y)
      BY <1>5 DEF NotedInv
    <2>2. CASE y = x
      BY <1>1, <1>3, <2>1, <2>2 DEF NotedAt, Installed
    <2>3. CASE y # x
      BY <1>1, <1>3, <1>4, <2>1, <2>3, NotedStays
    <2> QED BY <2>2, <2>3
  <1>6. ASSUME NEW q \in Process, q[1] \notin overlapped PROVE NotedMemory(q, proc[q])'
    <2>1. PICK n : n = proc[q]
      OBVIOUS
    <2>2. NotedMemory(q, n)
      BY <1>6, <2>1 DEF NotedInv
    <2>3. CASE n = Idle
      BY <1>1, <2>1, <2>3, SMTT(30) DEF NotedMemory, Idle
    <2>4. CASE n # Idle
      <3>1. NotedMemory(q, n)'
        BY <1>2, <1>3, <2>1, <2>2, <2>4 DEF NotedMemory
      <3> QED BY <1>1, <2>1, <3>1
    <2> QED BY <2>3, <2>4
  <1>7. overlapped' = overlapped
    BY DEF Install
  <1> QED BY <1>1, <1>5, <1>6, <1>7 DEF NotedInv, Alone

\* A step of the relay alone.
LEMMA NotedRelay ==
  ASSUME MemberInv, NotedInv, Grows, UNCHANGED <<local, cursor, noted, proc, overlapped>>
  PROVE  NotedInv'
  <1>1. \A d \in Device : d \notin overlapped => NotedAt(d)'
    BY NotedStays DEF NotedInv
  <1>2. \A q \in Process : q[1] \notin overlapped => NotedMemory(q, proc[q])'
    BY DEF NotedInv, NotedMemory
  <1> QED BY <1>1, <1>2 DEF NotedInv, Alone

\* A new vault has no positions.
LEMMA InitNoted == Init => NotedInv
  <1> SUFFICES ASSUME Init PROVE NotedInv
    OBVIOUS
  <1>1. \A d, x \in Device : noted[d][x] = Absent
    BY DEF Init
  <1>2. \A p \in Process : proc[p] = Idle /\ NotedMemory(p, proc[p])
    BY DEF Init, NotedMemory, Idle
  <1> QED BY <1>1, <1>2 DEF NotedInv, NotedAt, Alone

\* A step of the request p.
StepOf(p) ==
  \/ Continue(p)
  \/ \E goal : StartSync(p, goal)
  \/ \E x \in Device : RequestRevoke(p, x)
  \/ \E n, seq : StartRecovery(p, n, seq)
  \/ Stop(p)

LEMMA StepGrows ==
  ASSUME MemberInv, NEW p \in Process, StepOf(p)
  PROVE  Grows
  <1>1. CASE CommitWrite(p)
    <2>1. log' = Append(log, p[1]) /\ UNCHANGED membership
      BY <1>1 DEF CommitWrite
    <2> QED BY <2>1, PrefixReflexive, SMTT(30) DEF Grows, MemberInv, TypeOK, Process
  <1>2. CASE Insert(p)
    <2>1. PICK ev : ev = proc[p].ev
      OBVIOUS
    <2>2. At(p, "inserting") /\ UNCHANGED log
      BY <1>2 DEF Insert
    <2>3. ProcOK(proc[p]) /\ MemoryInv(p, proc[p])
      BY DEF MemberInv, TypeOK
    <2>4. ev \in Event /\ Admitted(ev)
      BY <2>1, <2>2, <2>3, ProcFields DEF At, MemoryInv
    <2>5. CASE ev.seq <= Len(membership)
      BY <1>2, <2>1, <2>2, <2>5, QuietRelay DEF Insert
    <2>6. CASE ~(ev.seq <= Len(membership))
      BY <1>2, <2>1, <2>2, <2>4, <2>6, AppendGrows DEF Insert
    <2> QED BY <2>5, <2>6
  <1>3. CASE UNCHANGED relayVars
    BY <1>3, QuietRelay DEF relayVars
  <1>4. CASE Continue(p)
    BY <1>1, <1>2, <1>3, <1>4 DEF Continue, SyncAgain, Fetch, Compare, StoreChain,
       RecordDevices, CheckWriter, FetchRecords, ApplyPage, NoteRevocations, Deliver,
       CheckAppend, Keep
  <1> QED BY <1>3, <1>4 DEF StepOf, StartSync, Fetch, RequestRevoke, StartRecovery, Stop

\* The tables of p's device only.
TablesOf(d) ==
  /\ local' = local \/ \E v : local' = [local EXCEPT ![d] = v]
  /\ cursor' = cursor \/ \E v : cursor' = [cursor EXCEPT ![d] = v]
  /\ noted' = noted \/ \E v : noted' = [noted EXCEPT ![d] = v]

LEMMA StepActs ==
  ASSUME MemberInv, NEW p \in Process, StepOf(p)
  PROVE  \E m : ActsAt(p, m)
  <1>1. PICK m : proc' = [proc EXCEPT ![p] = m]
    BY DEF StepOf, Continue, SyncAgain, StartSync, Fetch, Compare, StoreChain, RecordDevices,
       CheckWriter, CommitWrite, FetchRecords, ApplyPage, NoteRevocations, Deliver, CheckAppend,
       Insert, Keep, RequestRevoke, StartRecovery, Stop, Ask, Goto, Become
  <1>2. overlapped \subseteq overlapped'
    BY DEF StepOf, Continue, SyncAgain, StartSync, Compare, StoreChain, RecordDevices,
       CheckWriter, CommitWrite, FetchRecords, ApplyPage, NoteRevocations, Deliver, CheckAppend,
       Insert, Keep, RequestRevoke, StartRecovery, Stop, NoteOverlap
  <1>3. TablesOf(p[1])
    BY DEF TablesOf, StepOf, Continue, SyncAgain, StartSync, Fetch, Compare, StoreChain,
       RecordDevices, CheckWriter, CommitWrite, FetchRecords, ApplyPage, NoteRevocations,
       Deliver, CheckAppend, Insert, Keep, RequestRevoke, StartRecovery, Stop, deviceVars
  <1>4. ASSUME NEW d \in Device, d # p[1]
        PROVE  local'[d] = local[d] /\ cursor'[d] = cursor[d] /\ noted'[d] = noted[d]
    BY <1>3, <1>4 DEF TablesOf, MemberInv, TypeOK
  <1> QED BY <1>1, <1>2, <1>4 DEF ActsAt

\* A request of a device whose requests have not overlapped begins alone and
\* stays alone.
LEMMA StepUndisturbed ==
  ASSUME MemberInv, NotedInv, NEW p \in Process, StepOf(p), p[1] \notin overlapped'
  PROVE  Undisturbed(p)
  <1>1. overlapped \subseteq overlapped'
    BY StepActs DEF ActsAt
  <1>2. \A q \in Process : At(q, "idle") <=> proc[q] = Idle
    BY ProcFields DEF MemberInv, TypeOK, At
  <1>3. CASE ~At(p, "idle")
    BY <1>1, <1>2, <1>3 DEF NotedInv, Undisturbed
  <1>4. CASE NoteOverlap(p)
    BY <1>1, <1>2, <1>4 DEF NoteOverlap, Undisturbed, Alone
  <1>5. CASE \E n, seq : StartRecovery(p, n, seq)
    BY <1>1, <1>2, <1>5 DEF StartRecovery, Fresh, Undisturbed, Alone
  <1>6. Continue(p) \/ Stop(p) => ~At(p, "idle")
    BY SMTT(30) DEF Continue, Stop, SyncAgain, Compare, StoreChain, RecordDevices,
       CheckWriter, CommitWrite, FetchRecords, ApplyPage, NoteRevocations, Deliver,
       CheckAppend, Insert, Keep, At
  <1> QED BY <1>3, <1>4, <1>5, <1>6 DEF StepOf, StartSync, RequestRevoke

\* Every step keeps the positions sound.
LEMMA StepNoted ==
  ASSUME MemberInv, NotedInv, NEW p \in Process, StepOf(p), Undisturbed(p)
  PROVE  NotedInv'
  <1>9. Grows
    BY StepGrows
  <1>1. ASSUME NEW goal, StartSync(p, goal) PROVE NotedInv'
    BY <1>1, NotedFetch DEF StartSync
  <1>2. CASE SyncAgain(p)
    BY <1>2, NotedFetch DEF SyncAgain
  <1>3. CASE CheckWriter(p)
    <2>1. Grows /\ UNCHANGED <<local, cursor, noted>> /\ At(p, "push")
      BY <1>3, QuietRelay DEF CheckWriter, relayVars, deviceVars
    <2>2. PICK m : m = [proc[p] EXCEPT !.pc = "writing"]
      BY Zenon
    <2>3. proc' = [proc EXCEPT ![p] = m] \/ proc' = [proc EXCEPT ![p] = Idle]
      BY <1>3, <2>2 DEF CheckWriter, Goto, Become
    <2> QED BY <2>1, <2>2, <2>3, NotedPush
  <1>4. CASE CommitWrite(p)
    <2>1. At(p, "writing") /\ log' = Append(log, p[1]) /\ UNCHANGED <<membership, local, cursor, noted>>
      BY <1>4 DEF CommitWrite, deviceVars
    <2>2. Grows
      BY <2>1, PrefixReflexive, SMTT(30) DEF Grows, MemberInv, TypeOK, Process
    <2>3. PICK m : m = [proc[p] EXCEPT !.pc = "push"]
      BY Zenon
    <2>4. proc' = [proc EXCEPT ![p] = m]
      BY <1>4, <2>3 DEF CommitWrite, Goto, Become
    <2> QED BY <2>1, <2>2, <2>3, <2>4, NotedPush, Zenon
  <1>5. CASE CheckAppend(p)
    <2>1. Grows /\ UNCHANGED <<local, cursor, noted>> /\ At(p, "append")
      BY <1>5, QuietRelay DEF CheckAppend, relayVars, deviceVars
    <2>2. PICK m : m = [proc[p] EXCEPT !.pc = "inserting"]
      BY Zenon
    <2>3. proc' = [proc EXCEPT ![p] = m] \/ proc' = [proc EXCEPT ![p] = Idle]
      BY <1>5, <2>2 DEF CheckAppend, Goto, Become
    <2> QED BY <2>1, <2>2, <2>3, NotedAppend
  <1>6. CASE Insert(p)
    <2>1. UNCHANGED <<local, cursor, noted>> /\ At(p, "inserting")
      BY <1>6 DEF Insert, deviceVars
    <2>2. PICK pc : pc = IF proc[p].goal = "sync" THEN "appended" ELSE "keep"
      OBVIOUS
    <2>3. PICK m : m = [proc[p] EXCEPT !.pc = pc]
      BY Zenon
    <2>4. proc' = [proc EXCEPT ![p] = m] \/ proc' = [proc EXCEPT ![p] = Idle]
      BY <1>6, <2>2, <2>3 DEF Insert, Goto, Become
    <2>5. pc \in {"inserting", "appended", "keep"} /\ (pc = "keep" => proc[p].goal # "sync")
      BY <2>2
    <2> QED BY <1>9, <2>1, <2>3, <2>4, <2>5, NotedAppend
  <1>7. CASE Stop(p)
    <2>1. Grows /\ UNCHANGED <<local, cursor, noted>> /\ proc' = [proc EXCEPT ![p] = Idle]
      BY <1>7, QuietRelay DEF Stop, relayVars, deviceVars, Become
    <2> QED BY <2>1, NotedIdle, NotedQuiet, Zenon
  <1>8. CASE Continue(p)
    BY <1>2, <1>3, <1>4, <1>5, <1>6, <1>8, NotedCompare, NotedStoreChain,
       NotedRecordDevices, NotedFetchRecords, NotedApplyPage, NotedNoteRevocations,
       NotedDeliver, NotedKeep DEF Continue
  <1> QED BY <1>1, <1>7, <1>8, NotedRequestRevoke, NotedStartRecovery DEF StepOf

LEMMA NextNoted == MemberInv /\ NotedInv /\ [Next]_vars => NotedInv'
  <1> SUFFICES ASSUME MemberInv, NotedInv, [Next]_vars PROVE NotedInv'
    OBVIOUS
  <1>1. ASSUME NEW p \in Process, StepOf(p) PROVE NotedInv'
    <2>1. CASE p[1] \in overlapped'
      BY <1>1, <2>1, StepGrows, StepActs, NotedOverlapped
    <2>2. CASE p[1] \notin overlapped'
      BY <1>1, <2>2, StepUndisturbed, StepNoted
    <2> QED BY <2>1, <2>2
  <1>2. ASSUME NEW h \in late, LateWrite(h) \/ LateInsert(h) PROVE NotedInv'
    <2>1. UNCHANGED <<local, cursor, noted, proc, overlapped>>
      BY <1>2 DEF LateWrite, LateInsert, deviceVars
    <2>2. PICK ev : ev = h.ev
      OBVIOUS
    <2>3. CASE LateWrite(h)
      <3>1. h.kind = "write" /\ log' = Append(log, h.by) /\ UNCHANGED membership
        BY <2>3 DEF LateWrite
      <3>2. h.by \in Device
        BY <3>1 DEF MemberInv, TypeOK, LateOK
      <3>3. Grows
        BY <3>1, <3>2, PrefixReflexive, SMTT(30) DEF Grows, MemberInv, TypeOK
      <3> QED BY <2>1, <3>3, NotedRelay
    <2>4. CASE LateInsert(h)
      <3>1. /\ h.kind = "insert" /\ UNCHANGED log
            /\ membership' = IF ev.seq <= Len(membership) THEN membership ELSE Append(membership, ev)
        BY <2>2, <2>4 DEF LateInsert
      <3>2. ev \in Event /\ Admitted(ev)
        BY <2>2, <3>1 DEF MemberInv, TypeOK, LateOK, LateInv
      <3>3. CASE ev.seq <= Len(membership)
        BY <2>1, <3>1, <3>3, QuietRelay, NotedRelay
      <3>4. CASE ~(ev.seq <= Len(membership))
        BY <2>1, <3>1, <3>2, <3>4, AppendGrows, NotedRelay
      <3> QED BY <3>3, <3>4
    <2> QED BY <1>2, <2>3, <2>4
  <1>3. CASE UNCHANGED vars
    <2>1. Grows /\ UNCHANGED <<local, cursor, noted, proc, overlapped>>
      BY <1>3, QuietRelay DEF vars
    <2> QED BY <2>1, NotedRelay
  <1> QED BY <1>1, <1>2, <1>3, NotedInstall DEF Next, StepOf


-----------------------------------------------------------------------------

\* The last device in good standing is never revoked.
LEMMA AuthorizedAppend ==
  ASSUME NEW c \in Chains, NEW ev \in Event, Applies(c, ev), Authorized(c) # {}
  PROVE  Authorized(Append(c, ev)) # {}
  <1>1. CASE ev.action = "enroll"
    <2>1. Revoked(Append(c, ev)) = Revoked(c) /\ Enrolled(c) \subseteq Enrolled(Append(c, ev))
      BY <1>1, NamedAppend, ZenonT(60) DEF Revoked, Enrolled
    <2> QED BY <2>1 DEF Authorized
  <1>2. CASE ev.action = "revoke"
    <2>1. Enrolled(Append(c, ev)) = Enrolled(c) /\ Revoked(Append(c, ev)) = Revoked(c) \cup {ev.device}
      BY <1>2, NamedAppend, ZenonT(60) DEF Revoked, Enrolled
    <2>2. ev.device \in Authorized(c) /\ Authorized(c) # {ev.device}
      BY <1>2 DEF Applies, ActionAllowed
    <2> QED BY <2>1, <2>2 DEF Authorized
  <1> QED BY <1>1, <1>2 DEF Event, Action

\* The chain stays valid when the INSERT adds an event, and the copies prefixes.
LEMMA AppendStep ==
  ASSUME MemberInv, NEW ev \in Event, Admitted(ev), ~(ev.seq <= Len(membership)),
         membership' = Append(membership, ev), log' = log
  PROVE  /\ Grows /\ ChainIsValid' /\ ev.seq = Len(membership) + 1
         /\ \A d \in Device : local'[d] = local[d] => IsPrefixOf(local'[d], membership')
  <1>1. membership \in Chains /\ Valid(membership) /\ Authorized(membership) # {}
    BY DEF MemberInv, TypeOK, ChainIsValid
  <1>2. Grows /\ Applies(membership, ev) /\ ev.seq = Len(membership) + 1
    BY AppendGrows
  <1>3. ChainIsValid'
    BY <1>1, <1>2, ValidAppend, AuthorizedAppend DEF ChainIsValid
  <1> QED BY <1>2, <1>3, LocalGrows

-----------------------------------------------------------------------------
(* Changing the chain. *)

\* handleRevoke builds its event on the stored chain, a prefix of the relay's.
LEMMA RequestRevokeKeeps ==
  ASSUME MemberInv, NEW p \in Process, NEW x \in Device, RequestRevoke(p, x)
  PROVE  MemberInv'
  <1> DEFINE d == p[1]
             c == local[d]
  <1>1. PICK m : /\ proc' = [proc EXCEPT ![p] = m]
                 /\ m = [pc |-> "append", chain |-> c, ev |-> Revoke(c, d, x),
                         goal |-> IF x = d THEN "self" ELSE "sync"]
    BY Zenon DEF RequestRevoke, Ask, Become
  <1>2. Installed(d) /\ UNCHANGED <<membership, log, local, known, cursor, noted, invited, late>>
    BY DEF RequestRevoke, relayVars, deviceVars
  <1>3. d \in Device /\ c \in Chains /\ IsPrefixOf(c, membership)
    BY DEF MemberInv, TypeOK, Process, LocalIsPrefix
  <1>4. Revoke(c, d, x) \in Event /\ Revoke(c, d, x).seq = Len(c) + 1
    BY <1>3, NextEventType, SMTT(30) DEF Revoke, Action, Signer
  <1>5. ProcOK(m) /\ ~Recovering(m) /\ m.goal \in Purpose
    BY <1>1, <1>3, <1>4 DEF ProcOK, Recovering, Purpose
  <1>6. MemoryInv(p, m)
    BY <1>1, <1>2, <1>3, <1>4 DEF MemoryInv, Idle, Recovering
  <1>7. \A q \in Process : m.goal # q[1]
    BY <1>5, MembershipConstants DEF Process
  <1>8. RecoveryInv'
    BY <1>1, <1>2, <1>5, <1>7, BeginKeepsRecovery, Zenon
  <1> QED BY <1>1, <1>2, <1>5, <1>6, <1>8, QuietStep, Zenon

\* A recovery begins with a chain the relay had and a new identifier.
LEMMA StartRecoveryKeeps ==
  ASSUME MemberInv, NEW p \in Process, NEW n \in 1..Len(membership), NEW seq \in 0..Len(log),
         StartRecovery(p, n, seq)
  PROVE  MemberInv'
  <1> DEFINE d == p[1]
             c == Prefix(membership, n)
  <1>1. PICK m : /\ proc' = [proc EXCEPT ![p] = m]
                 /\ m = [pc |-> "append", chain |-> c, ev |-> RecoveryEnroll(c, d),
                         goal |-> "install", seq |-> seq]
    BY Zenon DEF StartRecovery, Become
  <1>2. /\ Fresh(d) /\ \A q \in Process : ~At(q, "idle") => proc[q].goal # d
        /\ \A i \in 1..seq : log[i] \in Enrolled(c)
        /\ UNCHANGED <<membership, log, local, known, cursor, noted, invited, late>>
    BY DEF StartRecovery, relayVars, deviceVars
  <1>3. d \in Device /\ membership \in Chains /\ log \in Seq(Device)
    BY DEF MemberInv, TypeOK, Process
  <1>4. c \in Chains /\ IsPrefixOf(c, membership)
    BY <1>3, PrefixIsPrefix, SMTT(30) DEF Chains
  <1>5. RecoveryEnroll(c, d) \in Event /\ RecoveryEnroll(c, d).seq = Len(c) + 1
    BY <1>3, <1>4, NextEventType, SMTT(30) DEF RecoveryEnroll, Action, Signer
  <1>6. ProcOK(m)
    BY <1>1, <1>3, <1>4, <1>5, SMTT(30) DEF ProcOK
  <1>7. MemoryInv(p, m)
    BY <1>1, <1>2, <1>3, <1>4, <1>5, SMTT(30) DEF MemoryInv, Idle, Recovering
  <1>8. RecoveryInv'
    <2>1. /\ proc'[p] = m
          /\ \A q \in Process : q # p => proc'[q] = proc[q]
      BY <1>1, ProcUpdate DEF MemberInv, TypeOK
    <2>2. \A q \in Process : /\ Recovering(proc[q]) => ~At(q, "idle")
                             /\ At(q, "idle") <=> proc[q] = Idle
      BY ProcFields DEF Recovering, At, MemberInv, TypeOK
    <2>3. \A q \in Process : proc[q] # Idle => q[1] # d /\ proc[q].goal # d
      BY <1>2, <2>2 DEF Fresh
    <2>4. m.goal = "install"
      BY <1>1
    <2>5. \A q \in Process : m.goal # q[1]
      BY <2>4, MembershipConstants DEF Process, Purpose
    <2>6. ~Installed(d) /\ invited[d] = Absent
      BY <1>2 DEF Fresh
    <2>7. \A q \in Process : Recovering(proc[q]) => q[1] # d
      BY <2>2, <2>3
    <2> QED BY <1>2, <2>1, <2>3, <2>5, <2>6, <2>7, SMTT(30) DEF MemberInv, RecoveryInv, Installed
  <1> QED BY <1>1, <1>2, <1>6, <1>7, <1>8, QuietStep, Zenon

\* A request that ends, or goes on, from a chain's point of view.
LEMMA AskingShape ==
  ASSUME MemberInv, NEW p \in Process, At(p, "append") \/ At(p, "inserting") \/ At(p, "keep")
  PROVE  /\ p[1] \in Device /\ MemoryInv(p, proc[p]) /\ proc[p] # Idle
         /\ proc[p].chain \in Chains /\ proc[p].ev \in Event
         /\ proc[p].ev.seq = Len(proc[p].chain) + 1
         /\ IsPrefixOf(proc[p].chain, membership)
         /\ \/ proc[p] \in [pc : {"append", "inserting", "appended", "keep"}, chain : Chains,
                            ev : Event, goal : {"sync", "self"}]
            \/ proc[p] \in [pc : {"append", "inserting", "keep"}, chain : Chains,
                            ev : Event, goal : {"install"}, seq : Nat]
  <1>1. ProcOK(proc[p]) /\ MemoryInv(p, proc[p]) /\ p[1] \in Device
    BY DEF MemberInv, TypeOK, Process
  <1>2. \/ proc[p] \in [pc : {"append", "inserting", "appended", "keep"}, chain : Chains,
                        ev : Event, goal : {"sync", "self"}]
        \/ proc[p] \in [pc : {"append", "inserting", "keep"}, chain : Chains,
                        ev : Event, goal : {"install"}, seq : Nat]
    BY <1>1, SMTT(30) DEF ProcOK, At, Idle
  <1> QED BY <1>1, <1>2, SMTT(30) DEF MemoryInv, At, Idle

\* What the relay has applied to its chain is admitted from then on.
LEMMA CheckAppendKeeps ==
  ASSUME MemberInv, NEW p \in Process, CheckAppend(p)
  PROVE  MemberInv'
  <1> DEFINE q == proc[p]
  <1>0. \/ proc' = [proc EXCEPT ![p] = Idle]
        \/ /\ proc' = [proc EXCEPT ![p] = [q EXCEPT !.pc = "inserting"]]
           /\ Applies(membership, q.ev)
    BY DEF CheckAppend, Goto, Become
  <1>1. PICK m : /\ proc' = [proc EXCEPT ![p] = m]
                 /\ \/ m = Idle
                    \/ m = [q EXCEPT !.pc = "inserting"] /\ Applies(membership, q.ev)
    BY <1>0, Zenon
  <1>2. At(p, "append") /\ UNCHANGED <<membership, log, local, known, cursor, noted, invited, late>>
    BY DEF CheckAppend, relayVars, deviceVars
  <1>3. /\ MemoryInv(p, q) /\ q # Idle /\ q.ev \in Event
        /\ \/ q \in [pc : {"append", "inserting", "appended", "keep"}, chain : Chains,
                            ev : Event, goal : {"sync", "self"}]
           \/ q \in [pc : {"append", "inserting", "keep"}, chain : Chains,
                            ev : Event, goal : {"install"}, seq : Nat]
    BY <1>2, AskingShape
  <1>4. CASE m = Idle
    BY <1>1, <1>2, <1>3, <1>4, QuietContinue, Zenon
  <1>5. CASE m = [q EXCEPT !.pc = "inserting"] /\ Applies(membership, q.ev)
    <2>1. Admitted(q.ev)
      <3>1. membership \in Chains /\ Prefix(membership, Len(membership)) = membership
            /\ Len(membership) \in Nat
        BY FullPrefix, SMTT(30) DEF MemberInv, TypeOK, Chains
      <3>2. q.ev.seq - 1 = Len(membership)
        BY <1>3, <1>5, <3>1, SMTT(30) DEF Applies, Event
      <3> QED BY <1>5, <3>1, <3>2, SMTT(30) DEF Admitted
    <2>2. ProcOK(m) /\ m.goal = q.goal /\ (Recovering(m) => Recovering(q))
      BY <1>2, <1>3, <1>5 DEF ProcOK, Recovering, At
    <2>3. MemoryInv(p, m)
      BY <1>2, <1>3, <1>5, <2>1 DEF MemoryInv, Recovering, Idle, At
    <2> QED BY <1>1, <1>2, <1>3, <2>2, <2>3, QuietContinue, Zenon
  <1> QED BY <1>1, <1>4, <1>5

\* A longer chain enrols the writers of a log that has not changed.
LEMMA LogUnderLongerChain ==
  ASSUME MemberInv, Grows, UNCHANGED <<log, cursor, invited>>
  PROVE  LogInv'
  BY EnrolledGrows DEF MemberInv, LogInv

\* The INSERT adds the event at the place it was checked for, or nothing.
LEMMA InsertKeeps ==
  ASSUME MemberInv, NEW p \in Process, Insert(p)
  PROVE  MemberInv'
  <1> DEFINE q == proc[p]
             ev == q.ev
  <1>1. At(p, "inserting") /\ UNCHANGED <<log, local, known, cursor, noted, invited, late>>
    BY DEF Insert, deviceVars
  <1>2. /\ MemoryInv(p, q) /\ q # Idle /\ ev \in Event /\ q.chain \in Chains
        /\ ev.seq = Len(q.chain) + 1 /\ IsPrefixOf(q.chain, membership)
        /\ \/ q \in [pc : {"append", "inserting", "appended", "keep"}, chain : Chains,
                            ev : Event, goal : {"sync", "self"}]
           \/ q \in [pc : {"append", "inserting", "keep"}, chain : Chains,
                            ev : Event, goal : {"install"}, seq : Nat]
    BY <1>1, AskingShape
  <1>3. CASE ev.seq <= Len(membership)
    <2>1. proc' = [proc EXCEPT ![p] = Idle] /\ membership' = membership
      BY <1>3 DEF Insert, Become
    <2> QED BY <1>1, <1>2, <2>1, QuietContinue, Zenon
  <1>4. CASE ~(ev.seq <= Len(membership))
    <2>1. PICK m : m = [q EXCEPT !.pc = IF q.goal = "sync" THEN "appended" ELSE "keep"]
      BY Zenon
    <2>2. proc' = [proc EXCEPT ![p] = m] /\ membership' = Append(membership, ev)
      BY <1>4, <2>1 DEF Insert, Goto, Become
    <2>3. Admitted(ev)
      BY <1>1, <1>2 DEF MemoryInv, At
    <2>4. /\ Grows /\ ChainIsValid' /\ ev.seq = Len(membership) + 1
          /\ \A d \in Device : local'[d] = local[d] => IsPrefixOf(local'[d], membership')
      BY <1>1, <1>2, <1>4, <2>2, <2>3, AppendStep
    <2>5. q.chain = membership
      <3>1. Len(q.chain) = Len(membership)
        BY <1>2, <2>4, SMTT(30) DEF Grows, Chains
      <3> QED BY <1>2, <2>4, <3>1, WholePrefix DEF Grows
    <2>6. /\ m.chain = q.chain /\ m.ev = ev /\ m.goal = q.goal /\ m.pc \in {"appended", "keep"}
          /\ ProcOK(m) /\ (Recovering(m) <=> Recovering(q)) /\ (Recovering(m) => m.seq = q.seq)
      BY <1>1, <1>2, <2>1 DEF ProcOK, Recovering, At
    <2>7. MemoryInv(p, m)'
      <3>1. IsPrefixOf(m.chain, membership') /\ IsPrefixOf(Append(m.chain, m.ev), membership')
        BY <2>2, <2>4, <2>5, <2>6, PrefixReflexive DEF Grows
      <3>2. ~Recovering(m) => Installed(p[1])'
        BY <1>1, <1>2, <2>6 DEF MemoryInv, Installed
      <3>3. Recovering(m) => /\ m.seq <= Len(log')
                             /\ \A i \in 1..m.seq : log'[i] \in Enrolled(m.chain)
        BY <1>1, <1>2, <2>6 DEF MemoryInv
      <3> QED BY <1>2, <2>6, <3>1, <3>2, <3>3 DEF MemoryInv, Recovering
    <2>8. RecoveryInv'
      BY <1>1, <1>2, <2>2, <2>6, ContinueKeepsRecovery, Zenon
    <2>9. \A r \in Process : r # p /\ proc[r] # Idle /\ ~Recovering(proc[r]) => Keeps(r[1])
      BY <1>1 DEF MemberInv, MemoryInv, Keeps, Installed
    <2>10. LocalIsPrefix' /\ WritersAreKnown'
      BY <1>1, <2>4 DEF LocalIsPrefix, WritersAreKnown, MemberInv
    <2>11. LogInv'
      BY <1>1, <2>4, LogUnderLongerChain
    <2> QED BY <1>1, <2>2, <2>4, <2>6, <2>7, <2>8, <2>9, <2>10, <2>11, DataTypes, RequestStep, Zenon
  <1> QED BY <1>3, <1>4

\* A delivery invites the joiner at the cursor and asks for its enrolment.
LEMMA DeliverKeeps ==
  ASSUME MemberInv, NEW p \in Process, Deliver(p)
  PROVE  MemberInv'
  <1> DEFINE d == p[1]
             c == local[d]
             x == proc[p].goal
  <1>1. At(p, "deliver") /\ UNCHANGED <<membership, log, local, known, cursor, noted, late>>
    BY DEF Deliver, relayVars, deviceVars
  <1>2. d \in Device /\ ProcOK(proc[p]) /\ MemoryInv(p, proc[p])
    BY DEF MemberInv, TypeOK, Process
  <1>3. proc[p] \in [pc : {"deliver"}, goal : Device]
    BY <1>1, <1>2, SMTT(30) DEF ProcOK, At, Idle
  <1>4. proc[p] # Idle /\ Installed(d)
    BY <1>1, <1>2, SMTT(30) DEF At, Idle, MemoryInv, Recovering
  <1>5. CASE proc' = [proc EXCEPT ![p] = Idle] /\ invited' = invited
    BY <1>1, <1>4, <1>5, QuietContinue, Zenon
  <1>6. CASE /\ invited' = [invited EXCEPT ![x] = cursor[d]]
             /\ proc' = [proc EXCEPT ![p] = [pc |-> "append", chain |-> c,
                                             ev |-> Enroll(c, d, x), goal |-> "sync"]]
    <2>1. PICK m : m = [pc |-> "append", chain |-> c, ev |-> Enroll(c, d, x), goal |-> "sync"]
      BY Zenon
    <2>2. proc' = [proc EXCEPT ![p] = m]
      BY <1>6, <2>1
    <2>3. c \in Chains /\ IsPrefixOf(c, membership)
      BY <1>2 DEF MemberInv, TypeOK, LocalIsPrefix
    <2>4. Enroll(c, d, x) \in Event /\ Enroll(c, d, x).seq = Len(c) + 1
      BY <1>2, <1>3, <2>3, NextEventType, SMTT(30) DEF Enroll, Action, Signer
    <2>5. ProcOK(m) /\ ~Recovering(m) /\ m.goal \in Purpose
      BY <2>1, <2>3, <2>4 DEF ProcOK, Recovering, Purpose
    <2>6. MemoryInv(p, m)'
      BY <1>1, <1>4, <2>1, <2>3, <2>4 DEF MemoryInv, Idle, Recovering, Installed
    <2>7. /\ invited' \in [Device -> Int] /\ cursor[d] \in Nat /\ cursor[d] <= Len(log)
          /\ \A y \in Device : y # x => invited'[y] = invited[y]
          /\ invited'[x] = cursor[d]
      BY <1>2, <1>3, <1>6, DataTypes, SMTT(30) DEF MemberInv, LogInv
    <2>8. RecoveryInv'
      <3>1. \A q \in Process : Recovering(proc[q]) => q # p /\ q[1] # x /\ q[1] \in Device
        BY <1>3, <1>4 DEF MemberInv, RecoveryInv, Process, Recovering
      <3> QED BY <1>1, <1>4, <2>2, <2>5, <2>7, <3>1, ContinueKeepsRecovery, ZenonT(60)
    <2>9. Grows
      BY <1>1, QuietGrows DEF relayVars, MemberInv
    <2>10. ChainIsValid' /\ LocalIsPrefix' /\ WritersAreKnown'
      BY <1>1 DEF MemberInv, ChainIsValid, LocalIsPrefix, WritersAreKnown
    <2>11. LogInv'
      BY <1>1, <1>3, <2>7, SMTT(30) DEF MemberInv, LogInv, Absent
    <2>12. \A r \in Process : r # p /\ proc[r] # Idle /\ ~Recovering(proc[r]) => Keeps(r[1])
      BY <1>1 DEF MemberInv, MemoryInv, Keeps, Installed
    <2> QED BY <1>1, <2>2, <2>5, <2>6, <2>7, <2>8, <2>9, <2>10, <2>11, <2>12, DataTypes, RequestStep, Zenon
  <1> QED BY <1>5, <1>6 DEF Deliver, Ask, Become

\* The stored chain a revoked or a recovered device keeps is the relay's.
LEMMA KeepKeeps ==
  ASSUME MemberInv, NEW p \in Process, Keep(p)
  PROVE  MemberInv'
  <1> DEFINE d == p[1]
             q == proc[p]
             c == Append(q.chain, q.ev)
  <1>1. /\ At(p, "keep") /\ proc' = [proc EXCEPT ![p] = Idle]
        /\ local' = [local EXCEPT ![d] = c]
        /\ known' = [known EXCEPT ![d] = IF q.goal = "install" THEN Enrolled(c) ELSE @ \cup {d}]
        /\ cursor' = [cursor EXCEPT ![d] = IF q.goal = "install" THEN q.seq ELSE @]
        /\ UNCHANGED <<membership, log, noted, invited, late>>
    BY DEF Keep, Become, relayVars
  <1>2. /\ MemoryInv(p, q) /\ q # Idle /\ q.ev \in Event /\ q.chain \in Chains /\ d \in Device
        /\ \/ q \in [pc : {"append", "inserting", "appended", "keep"}, chain : Chains,
                            ev : Event, goal : {"sync", "self"}]
           \/ q \in [pc : {"append", "inserting", "keep"}, chain : Chains,
                            ev : Event, goal : {"install"}, seq : Nat]
    BY <1>1, AskingShape
  <1>3. c \in Chains /\ c # <<>> /\ IsPrefixOf(c, membership) /\ IsPrefixOf(q.chain, c)
    BY <1>1, <1>2, PrefixOfAppend, SMTT(30) DEF MemoryInv, At, Chains
  <1>4. Enrolled(c) \subseteq Device /\ Enrolled(q.chain) \subseteq Enrolled(c)
    BY <1>2, <1>3, NamedAreDevices, NamedGrows
  <1>5. Grows
    BY <1>1, QuietGrows DEF relayVars, MemberInv
  <1>6. /\ local' \in [Device -> Chains] /\ local'[d] = c
        /\ \A x \in Device : x # d => local'[x] = local[x]
    BY <1>1, <1>2, <1>3, DataTypes
  <1>7. /\ known' \in [Device -> SUBSET Device] /\ \A x \in Device : x # d => known'[x] = known[x]
        /\ known'[d] = IF q.goal = "install" THEN Enrolled(c) ELSE known[d] \cup {d}
    BY <1>1, <1>2, <1>4, DataTypes, ZenonT(60)
  <1>8. /\ cursor' \in [Device -> Nat] /\ \A x \in Device : x # d => cursor'[x] = cursor[x]
        /\ cursor'[d] = IF q.goal = "install" THEN q.seq ELSE cursor[d]
    BY <1>1, <1>2, DataTypes
  <1>9. Recovering(q) <=> q.goal = "install"
    BY <1>1 DEF Recovering, At
  <1>10. Recovering(q) => /\ q.seq <= Len(log)
                          /\ \A i \in 1..q.seq : log[i] \in Enrolled(q.chain)
    BY <1>2 DEF MemoryInv
  <1>11. \A r \in Process : r # p /\ proc[r] # Idle /\ ~Recovering(proc[r]) => Keeps(r[1])
    <2> SUFFICES ASSUME NEW r \in Process, r # p, proc[r] # Idle, ~Recovering(proc[r])
                 PROVE  Keeps(r[1])
      OBVIOUS
    <2>1. Installed(r[1]) /\ r[1] \in Device
      BY DEF MemberInv, MemoryInv, Process
    <2>2. Recovering(q) => r[1] # d
      BY DEF MemberInv, RecoveryInv
    <2> QED BY <1>3, <1>6, <1>7, <1>9, <2>1, <2>2 DEF Keeps, Installed
  <1>12. WritersAreKnown'
    <2> SUFFICES ASSUME NEW x \in Device PROVE \A i \in 1..cursor'[x] : log'[i] \in known'[x]
      BY DEF WritersAreKnown
    <2>1. CASE x = d /\ q.goal = "install"
      BY <1>1, <1>4, <1>7, <1>8, <1>9, <1>10, <2>1
    <2>2. CASE x # d \/ q.goal # "install"
      <3>1. cursor'[x] = cursor[x] /\ known[x] \subseteq known'[x]
        BY <1>7, <1>8, <2>2
      <3> QED BY <1>5, <3>1, KnownGrows
    <2> QED BY <2>1, <2>2
  <1>13. LocalIsPrefix'
    BY <1>1, <1>3, <1>5, <1>6, LocalGrows DEF LocalIsPrefix
  <1>14. ChainIsValid' /\ LogInv'
    BY <1>1, <1>8, <1>9, <1>10 DEF MemberInv, ChainIsValid, LogInv
  <1>15. RecoveryInv'
    <2>1. \A r \in Process : Recovering(proc[r]) /\ r # p => r[1] # d /\ r[1] \in Device
      BY <1>2 DEF MemberInv, RecoveryInv, Process
    <2>2. ~Recovering(Idle)
      BY DEF Recovering, Idle
    <2>3. \A r \in Process : Recovering(proc[r]) /\ (r # p \/ Recovering(Idle)) =>
            local'[r[1]] = local[r[1]] /\ invited'[r[1]] = invited[r[1]]
      BY <1>1, <1>6, <2>1, <2>2
    <2> QED BY <1>1, <1>2, <2>2, <2>3, ContinueKeepsRecovery, Zenon
  <1>16. ProcOK(Idle) /\ MemoryInv(p, Idle)'
    BY DEF ProcOK, MemoryInv, Idle, Recovering
  <1> QED BY <1>1, <1>5, <1>6, <1>7, <1>8, <1>11, <1>12, <1>13, <1>14, <1>15, <1>16, DataTypes, RequestStep, ZenonT(30)

\* A joiner starts with the relay's chain and every writer it enrols.
LEMMA InstallKeeps ==
  ASSUME MemberInv, NEW x \in Device, Install(x)
  PROVE  MemberInv'
  <1>1. /\ ~Installed(x) /\ invited[x] # Absent
        /\ local' = [local EXCEPT ![x] = membership]
        /\ known' = [known EXCEPT ![x] = Enrolled(membership)]
        /\ cursor' = [cursor EXCEPT ![x] = invited[x]]
        /\ UNCHANGED <<membership, log, noted, invited, proc, late>>
    BY DEF Install, relayVars
  <1>2. /\ membership \in Chains /\ membership # <<>> /\ IsPrefixOf(membership, membership)
        /\ Enrolled(membership) \subseteq Device
    BY PrefixReflexive, NamedAreDevices DEF MemberInv, TypeOK, ChainIsValid, Valid
  <1>3. invited[x] \in Nat /\ invited[x] <= Len(log)
        /\ \A i \in 1..Len(log) : log[i] \in Enrolled(membership)
    BY <1>1, DataTypes, SMTT(30) DEF MemberInv, LogInv, Absent
  <1>4. Grows
    BY <1>1, QuietGrows DEF relayVars, MemberInv
  <1>5. /\ local' \in [Device -> Chains] /\ local'[x] = membership
        /\ \A y \in Device : y # x => local'[y] = local[y]
    BY <1>1, <1>2, DataTypes
  <1>6. /\ known' \in [Device -> SUBSET Device] /\ known'[x] = Enrolled(membership)
        /\ \A y \in Device : y # x => known'[y] = known[y]
    BY <1>1, <1>2, DataTypes
  <1>7. /\ cursor' \in [Device -> Nat] /\ cursor'[x] = invited[x]
        /\ \A y \in Device : y # x => cursor'[y] = cursor[y]
    BY <1>1, <1>3, DataTypes
  <1>8. \A q \in Process : proc[q] # Idle => q[1] # x
    BY <1>1 DEF MemberInv, MemoryInv, RecoveryInv, Process
  <1>9. \A q \in Process : proc[q] # Idle /\ ~Recovering(proc[q]) => Keeps(q[1])
    BY <1>5, <1>6, <1>8 DEF MemberInv, MemoryInv, Keeps, Installed, Process
  <1>10. \A q \in Process : MemoryInv(q, proc[q])'
    BY <1>1, <1>4, <1>9, StillMemory
  <1>11. WritersAreKnown'
    <2> SUFFICES ASSUME NEW y \in Device PROVE \A i \in 1..cursor'[y] : log'[i] \in known'[y]
      BY DEF WritersAreKnown
    <2>1. CASE y = x
      <3>1. cursor'[y] = invited[x] /\ known'[y] = Enrolled(membership) /\ log' = log
        BY <1>1, <1>6, <1>7, <2>1
      <3>2. Len(log) \in Nat
        BY SMTT(30) DEF MemberInv, TypeOK
      <3>3. \A i \in 1..invited[x] : i \in 1..Len(log)
        BY <1>3, <3>2, SMTT(30)
      <3> QED BY <1>3, <3>1, <3>3
    <2>2. CASE y # x
      BY <1>4, <1>6, <1>7, <2>2, KnownGrows
    <2> QED BY <2>1, <2>2
  <1>12. LocalIsPrefix'
    BY <1>1, <1>2, <1>4, <1>5, LocalGrows DEF LocalIsPrefix
  <1>13. ChainIsValid' /\ LogInv' /\ LateInv'
    BY <1>1, <1>3, <1>7 DEF MemberInv, ChainIsValid, LogInv, LateInv, Admitted
  <1>14. RecoveryInv'
    <2>1. \A q \in Process : Recovering(proc[q]) => proc[q] # Idle /\ q[1] \in Device
      BY SMTT(30) DEF Recovering, Idle, Process
    <2> QED BY <1>1, <1>5, <1>8, <2>1, SMTT(30) DEF MemberInv, RecoveryInv, Installed
  <1>15. TypeOK'
    BY <1>1, <1>5, <1>6, <1>7 DEF MemberInv, TypeOK
  <1> QED BY <1>10, <1>11, <1>12, <1>13, <1>14, <1>15 DEF MemberInv

\* A request that stops leaves behind a handler whose check still holds.
LEMMA StopKeeps ==
  ASSUME MemberInv, NEW p \in Process, Stop(p)
  PROVE  MemberInv'
  <1>1. /\ ~At(p, "idle") /\ proc' = [proc EXCEPT ![p] = Idle]
        /\ UNCHANGED <<membership, log, local, known, cursor, noted, invited>>
    BY DEF Stop, Become, relayVars, deviceVars
  <1>2. p[1] \in Device /\ ProcOK(proc[p]) /\ MemoryInv(p, proc[p]) /\ proc[p] # Idle
    BY <1>1, SMTT(30) DEF MemberInv, TypeOK, Process, At, Idle
  <1>3. Grows
    BY <1>1, QuietGrows DEF relayVars, MemberInv
  <1>4. \A h \in late' : /\ LateOK(h)
                         /\ h.kind = "write" => h.by \in Enrolled(membership')
                         /\ h.kind = "insert" => Admitted(h.ev)'
    <2>1. CASE At(p, "writing")
      <3>1. PICK h : h = [kind |-> "write", by |-> p[1]]
        BY Zenon
      <3>2. late' = late \cup {h}
        BY <2>1, <3>1 DEF Stop, At
      <3>3. LateOK(h) /\ h.kind = "write" /\ h.by \in Enrolled(membership')
        BY <1>1, <1>2, <2>1, <3>1 DEF LateOK, MemoryInv, At
      <3> QED BY <1>3, <3>2, <3>3, LateGrows
    <2>2. CASE At(p, "inserting")
      <3>1. PICK h : h = [kind |-> "insert", ev |-> proc[p].ev]
        BY Zenon
      <3>2. late' = late \cup {h}
        BY <2>2, <3>1 DEF Stop, At
      <3>3. h.ev \in Event /\ Admitted(h.ev) /\ h.kind = "insert" /\ h.ev = proc[p].ev
        BY <1>2, <2>2, <3>1, ProcFields DEF MemoryInv, At
      <3>4. LateOK(h) /\ Admitted(h.ev)'
        BY <1>1, <3>1, <3>3 DEF LateOK, Admitted
      <3> QED BY <1>3, <3>2, <3>3, <3>4, LateGrows
    <2>3. CASE ~At(p, "writing") /\ ~At(p, "inserting")
      <3>1. late' = late
        BY <2>3 DEF Stop
      <3> QED BY <1>3, <3>1, LateGrows
    <2> QED BY <2>1, <2>2, <2>3
  <1>5. RecoveryInv'
    <2>1. ~Recovering(Idle)
      BY DEF Recovering, Idle
    <2> QED BY <1>1, <1>2, <2>1, ContinueKeepsRecovery, Zenon
  <1>6. ProcOK(Idle) /\ MemoryInv(p, Idle)'
    BY DEF ProcOK, MemoryInv, Idle, Recovering
  <1>7. \A q \in Process : proc[q] # Idle /\ ~Recovering(proc[q]) => Keeps(q[1])
    BY <1>1 DEF MemberInv, MemoryInv, Keeps, Installed
  <1>8. /\ proc' = [q \in Process |-> proc'[q]]
        /\ \A q \in Process : ProcOK(proc'[q]) /\ MemoryInv(q, proc[q])'
    BY <1>1, <1>3, <1>6, <1>7, StepKeepsMemory, Zenon
  <1>9. TypeOK' /\ LateInv'
    BY <1>1, <1>4, <1>8 DEF MemberInv, TypeOK, LateInv
  <1>10. ChainIsValid' /\ LocalIsPrefix' /\ WritersAreKnown' /\ LogInv'
    BY <1>1 DEF MemberInv, ChainIsValid, LocalIsPrefix, WritersAreKnown, LogInv
  <1> QED BY <1>5, <1>8, <1>9, <1>10 DEF MemberInv

\* A step of the relay alone.
LEMMA RelayStep ==
  ASSUME MemberInv, Grows, late' \subseteq late, ChainIsValid', LogInv',
         UNCHANGED <<local, known, cursor, noted, invited, proc>>
  PROVE  MemberInv'
  <1>1. \A q \in Process : proc[q] # Idle /\ ~Recovering(proc[q]) => Keeps(q[1])
    BY DEF MemberInv, MemoryInv, Keeps, Installed
  <1>2. \A q \in Process : MemoryInv(q, proc[q])'
    BY <1>1, StillMemory
  <1>3. LocalIsPrefix' /\ WritersAreKnown'
    BY LocalGrows, KnownGrows DEF LocalIsPrefix, WritersAreKnown
  <1>4. LateInv' /\ TypeOK'
    BY LateGrows DEF LateInv, MemberInv, TypeOK, Grows
  <1>5. RecoveryInv'
    BY DEF MemberInv, RecoveryInv, Installed
  <1> QED BY <1>2, <1>3, <1>4, <1>5 DEF MemberInv

\* A handler without its client commits the record of an enrolled device.
LEMMA LateWriteKeeps ==
  ASSUME MemberInv, NEW h \in late, LateWrite(h)
  PROVE  MemberInv'
  <1>1. /\ h.kind = "write" /\ log' = Append(log, h.by) /\ late' \subseteq late
        /\ UNCHANGED <<membership, local, known, cursor, noted, invited, proc>>
    BY DEF LateWrite, deviceVars
  <1>2. h.by \in Device /\ h.by \in Enrolled(membership)
    BY <1>1 DEF MemberInv, TypeOK, LateOK, LateInv
  <1>3. /\ log \in Seq(Device) /\ log' \in Seq(Device) /\ Len(log') = Len(log) + 1
        /\ \A i \in 1..Len(log) : log'[i] = log[i]
        /\ log'[Len(log) + 1] = h.by
    BY <1>1, <1>2, SMTT(30) DEF MemberInv, TypeOK
  <1>4. Grows
    BY <1>1, <1>3, PrefixReflexive, SMTT(30) DEF Grows, MemberInv, TypeOK
  <1>5. LogInv'
    <2>1. /\ \A i \in 1..Len(log) : log[i] \in Enrolled(membership)
          /\ \A x \in Device : /\ cursor[x] <= Len(log) /\ Absent <= invited[x] /\ invited[x] <= Len(log)
                               /\ cursor[x] \in Nat /\ invited[x] \in Int
      BY DEF MemberInv, LogInv, TypeOK
    <2> QED BY <1>1, <1>2, <1>3, <2>1, SMTT(30) DEF LogInv
  <1>6. ChainIsValid'
    BY <1>1 DEF MemberInv, ChainIsValid
  <1> QED BY <1>1, <1>4, <1>5, <1>6, RelayStep

\* A handler without its client inserts what it had checked, or nothing.
LEMMA LateInsertKeeps ==
  ASSUME MemberInv, NEW h \in late, LateInsert(h)
  PROVE  MemberInv'
  <1>1. /\ h.kind = "insert" /\ late' \subseteq late
        /\ membership' = IF h.ev.seq <= Len(membership) THEN membership
                         ELSE Append(membership, h.ev)
        /\ UNCHANGED <<log, local, known, cursor, noted, invited, proc>>
    BY DEF LateInsert, deviceVars
  <1>2. PICK ev : ev = h.ev
    OBVIOUS
  <1>3. ev \in Event /\ Admitted(ev)
    BY <1>1, <1>2 DEF MemberInv, TypeOK, LateOK, LateInv
  <1>4. Grows /\ ChainIsValid'
    <2>1. CASE ev.seq <= Len(membership)
      BY <1>1, <1>2, <2>1, QuietGrows DEF relayVars, MemberInv, ChainIsValid
    <2>2. CASE ~(ev.seq <= Len(membership))
      BY <1>1, <1>2, <1>3, <2>2, AppendStep
    <2> QED BY <2>1, <2>2
  <1>5. LogInv'
    BY <1>1, <1>4, LogUnderLongerChain
  <1> QED BY <1>1, <1>4, <1>5, RelayStep

\* A new vault: the chain is its root and the founder holds it.
LEMMA InitMember == Init => MemberInv
  <1> SUFFICES ASSUME Init PROVE MemberInv
    OBVIOUS
  <1>1. /\ <<Root>> \in Chains /\ <<>> \in Chains /\ Valid(<<Root>>)
        /\ Enrolled(<<Root>>) = {Founder} /\ Revoked(<<Root>>) = {}
    BY RootType, RootValid, SMTT(30) DEF Chains
  <1>2. TypeOK
    BY <1>1, ChainConstants, SMTT(30) DEF Init, TypeOK, ProcOK, Absent
  <1>3. ChainIsValid
    BY <1>1 DEF Init, ChainIsValid, Authorized
  <1>4. LocalIsPrefix
    <2>1. IsPrefixOf(<<>>, <<Root>>) /\ IsPrefixOf(<<Root>>, <<Root>>)
      BY <1>1, PrefixElements, PrefixReflexive, SMTT(30)
    <2> QED BY <2>1 DEF Init, LocalIsPrefix
  <1>5. WritersAreKnown /\ LogInv
    BY SMTT(30) DEF Init, WritersAreKnown, LogInv, Absent
  <1>6. \A p \in Process : MemoryInv(p, proc[p]) /\ ~Recovering(proc[p])
    BY DEF Init, MemoryInv, Idle, Recovering
  <1>7. RecoveryInv /\ LateInv
    BY <1>6 DEF Init, RecoveryInv, LateInv
  <1> QED BY <1>2, <1>3, <1>4, <1>5, <1>6, <1>7 DEF MemberInv

\* Every step keeps the invariant.
LEMMA NextMember == MemberInv /\ [Next]_vars => MemberInv'
  <1> SUFFICES ASSUME MemberInv, [Next]_vars PROVE MemberInv'
    OBVIOUS
  <1>1. ASSUME NEW p \in Process, Continue(p) PROVE MemberInv'
    BY <1>1, SyncAgainKeeps, CompareKeeps, StoreChainKeeps, RecordDevicesKeeps, CheckWriterKeeps,
       CommitWriteKeeps, FetchRecordsKeeps, ApplyPageKeeps, NoteRevocationsKeeps, DeliverKeeps,
       CheckAppendKeeps, InsertKeeps, KeepKeeps DEF Continue
  <1>2. ASSUME NEW p \in Process, NEW goal \in {"sync"} \cup Device, StartSync(p, goal)
        PROVE  MemberInv'
    BY <1>2, StartSyncKeeps DEF Goal
  <1>3. ASSUME NEW p \in Process, NEW x \in Device, RequestRevoke(p, x) PROVE MemberInv'
    BY <1>3, RequestRevokeKeeps
  <1>4. ASSUME NEW p \in Process, NEW n \in 1..Len(membership), NEW seq \in 0..Len(log),
               StartRecovery(p, n, seq)
        PROVE  MemberInv'
    BY <1>4, StartRecoveryKeeps
  <1>5. ASSUME NEW p \in Process, Stop(p) PROVE MemberInv'
    BY <1>5, StopKeeps
  <1>6. ASSUME NEW x \in Device, Install(x) PROVE MemberInv'
    BY <1>6, InstallKeeps
  <1>7. ASSUME NEW h \in late, LateWrite(h) \/ LateInsert(h) PROVE MemberInv'
    BY <1>7, LateWriteKeeps, LateInsertKeeps
  <1>8. CASE UNCHANGED vars
    <2>1. UNCHANGED <<membership, log, local, known, cursor, noted, invited, proc, late>>
      BY <1>8 DEF vars
    <2>2. Grows
      BY <2>1, QuietGrows DEF relayVars, MemberInv
    <2> QED BY <2>1, <2>2, RelayStep DEF MemberInv, ChainIsValid, LogInv
  <1> QED BY <1>1, <1>2, <1>3, <1>4, <1>5, <1>6, <1>7, <1>8 DEF Next

-----------------------------------------------------------------------------
(* The theorems. *)

(***************************************************************************)
(* Whatever devices, relay handlers, crashes and lost answers do, for any  *)
(* number of devices and slots and any bounds, MemberInv holds.            *)
(***************************************************************************)
THEOREM MembershipSafe == Spec => []MemberInv
  BY InitMember, NextMember, PTL DEF Spec

(***************************************************************************)
(* The chain the relay stores always validates and authorizes a device:    *)
(* the key on chain_seq makes up for AppendMembership's read outside its   *)
(* transaction.                                                            *)
(***************************************************************************)
THEOREM ChainAlwaysValid == Spec => []ChainIsValid
  <1>1. MemberInv => ChainIsValid
    BY DEF MemberInv
  <1> QED BY <1>1, MembershipSafe, PTL

(***************************************************************************)
(* Every stored copy of the chain is a prefix of the relay's, so that the  *)
(* comparison of syncMembership never reports a fork or an older list.     *)
(***************************************************************************)
THEOREM CopiesArePrefixes == Spec => []LocalIsPrefix
  <1>1. MemberInv => LocalIsPrefix
    BY DEF MemberInv
  <1> QED BY <1>1, MembershipSafe, PTL

(***************************************************************************)
(* A device holds the row of the writer of every record it has taken in,   *)
(* also after a crash between RecordDevices and the pull.                  *)
(***************************************************************************)
THEOREM WritersAlwaysKnown == Spec => []WritersAreKnown
  <1>1. MemberInv => WritersAreKnown
    BY DEF MemberInv
  <1> QED BY <1>1, MembershipSafe, PTL

(***************************************************************************)
(* On a device that has not served two requests at once, whatever others   *)
(* do, a stored revocation position belongs to a device the stored chain   *)
(* revokes, and no record of that device beyond it has been taken in.  Two *)
(* overlapping syncs may store a shorter chain beside a position.          *)
(***************************************************************************)
THEOREM PositionsAreSound == Spec => []NotedIsSound
  <1>1. MemberInv /\ NotedInv /\ [Next]_vars => NotedInv'
    BY NextNoted
  <1>2. NotedInv => NotedIsSound
    BY DEF NotedInv, NotedAt, NotedIsSound
  <1> QED BY <1>1, <1>2, InitNoted, MembershipSafe, PTL DEF Spec

=============================================================================
