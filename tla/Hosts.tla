------------------------------- MODULE Hosts -------------------------------
(***************************************************************************)
(* Hosts, the keys they offer and the hosts they jump through: the edits a *)
(* device accepts (internal/vault/manager_ops.go, manager_remove.go,       *)
(* manager_import.go), the tables that result when edits of several        *)
(* devices are merged, and which hosts the SSH configuration may then hold *)
(* (internal/daemon/generate.go).                                          *)
(*                                                                         *)
(* A host is its alias, the alias it jumps through or None, and the key it *)
(* offers or None; address, user and port play no part here.  A key record *)
(* is "key".                                                               *)
(***************************************************************************)
EXTENDS Merge

CONSTANTS Host, Key, Alias,
          Imports,      \* lists of hosts a user may import
          InitialTables \* synced vaults to begin with

ASSUME HostsConstants == Base = Host \union Key

vars == mergeVars

HostVal == [alias : Alias, jump : Alias \union {None}, key : Key \union {None}]
KeyVal == [secret |-> None]

Present(s, S) == {r \in S : Live(s, r)}
Hosts(s) == Present(s, Host)
Val(s, h) == HeadEnv(s, h).payload
Aliases(s, S) == {Val(s, h).alias : h \in Hosts(s) \cap S}
Named(s, a) == {h \in Hosts(s) : Val(s, h).alias = a}
Jumpers(s, a) == {h \in Hosts(s) : Val(s, h).jump = a}
Users(s, k) == {h \in Hosts(s) : Val(s, h).key = k}

\* HostPayload.Validate.
ValidHost(v) == v.jump # v.alias

\* jumpCycle over a map from alias to jump: does the walk come back to start?
\* Of two hosts with one alias the map has one.
JumpCycle(start, jumps) ==
  LET at[k \in 0..Cardinality(Alias)] ==
        IF k = 0 THEN start
        ELSE LET prev == at[k - 1] IN IF prev \in DOMAIN jumps THEN jumps[prev] ELSE None
  IN \E k \in 1..Cardinality(Alias) : at[k] = start

\* The jumps of the hosts in S.
Jumps(s, S) ==
  [a \in Aliases(s, S) |-> Val(s, CHOOSE h \in Named(s, a) \cap S : TRUE).jump]

\* jumpReturns.
JumpReturns(s, v, self) ==
  JumpCycle(v.alias, [a \in {v.alias} |-> v.jump] @@ Jumps(s, Host \ {self}))

-----------------------------------------------------------------------------
(* Local edits. *)

AddKey(d) ==
  /\ \E k \in Key : Unused(k)
  /\ Write(d, <<Draft(NewID(Key), KeyVal)>>)

AddHost(d, v) ==
  /\ ValidHost(v) /\ \E h \in Host : Unused(h)
  /\ Named(store[d], v.alias) = {}
  /\ v.key \in Present(store[d], Key) \union {None}
  /\ v.jump # None => /\ Named(store[d], v.jump) # {}
                      /\ ~JumpReturns(store[d], v, None)
  /\ Write(d, <<Draft(NewID(Host), v)>>)

\* Mutation of MayEdit: dropping the jump is checked like setting one.
MayNotDropJump(s, h, v) ==
  LET was == Val(s, h) IN
  /\ ValidHost(v)
  /\ v.alias # was.alias => /\ Jumpers(s, was.alias) \ {h} = {}
                            /\ Named(s, v.alias) = {}
  /\ v.jump # was.jump => v.jump \in Aliases(s, Host \ {h})
  /\ v.key # was.key => v.key \in Present(s, Key) \union {None}

\* EditHost checks what the edit touches, and only that.
MayEdit(s, h, v) ==
  LET was == Val(s, h) IN
  /\ ValidHost(v)
  /\ v.alias # was.alias => /\ Jumpers(s, was.alias) \ {h} = {}
                            /\ Named(s, v.alias) = {}
  /\ v.jump \notin {was.jump, None} =>
       /\ v.jump \in Aliases(s, Host \ {h})
       /\ ~JumpReturns(s, v, h)
  /\ v.key # was.key => v.key \in Present(s, Key) \union {None}

EditHost(d, h, v) ==
  /\ h \in Hosts(store[d]) /\ v # Val(store[d], h)
  /\ MayEdit(store[d], h, v)
  /\ Write(d, <<Draft(h, v)>>)

\* Mutation of MayRemove: the hosts that offer a key are not looked at.
MayRemoveOffered(s, r) == r \in Host => Jumpers(s, Val(s, r).alias) \ {r} = {}

\* removal: what depends on a record keeps it.
MayRemove(s, r) ==
  /\ r \in Host => Jumpers(s, Val(s, r).alias) \ {r} = {}
  /\ r \in Key => Users(s, r) = {}

RemoveRecord(d, r) ==
  /\ r \in Present(store[d], Base) /\ MayRemove(store[d], r)
  /\ Write(d, <<Tombstone(r)>>)

\* ResolveConflict of a kept removal: the removal is checked like any other.
ResolveRemoval(d, c) ==
  /\ c \in Conflicts(store[d]) /\ Kept(store[d], c).removal
  /\ Source(c) \in Present(store[d], Base) /\ MayRemove(store[d], Source(c))
  /\ Write(d, <<Tombstone(Source(c)), Tombstone(c)>>)

-----------------------------------------------------------------------------
(* Import. *)

Specs(list) == {list[i] : i \in DOMAIN list}
NewSpecs(s, list) == {p \in Specs(list) : Named(s, p.alias) = {}}

\* The host an alias is taken to name: one of them, the same every time.
Existing(s, a) == CHOOSE h \in Named(s, a) : TRUE

\* Mutation of AlreadyPreserved: no open conflict is looked for.
AlreadyPreservedNever(s, h, p) == FALSE

\* conflictAlreadyPreserved.
AlreadyPreserved(s, h, p) ==
  \E c \in Conflicts(s) : Source(c) = h /\ Kept(s, c) = ConflictPayload(FALSE, p)

\* ImportHosts checks the whole list before it writes any of it.
MayImport(s, list) ==
  LET new == NewSpecs(s, list)
      incoming == [a \in {p.alias : p \in new} |-> (CHOOSE p \in new : p.alias = a).jump]
      jumps == Jumps(s, Host) @@ incoming
  IN
  /\ \A i, j \in DOMAIN list : list[i].alias = list[j].alias => i = j
  /\ \A p \in Specs(list) :
       /\ ValidHost(p) /\ p.key \in Present(s, Key) \union {None}
       /\ p.jump \in Aliases(s, Host) \union {q.alias : q \in Specs(list)} \union {None}
  /\ \A p \in new : p.jump # None => ~JumpCycle(p.alias, jumps)

\* What the import writes: new hosts, and a conflict for each that differs from
\* the host there is, unless one like it is open already.
ImportDrafts(d, list) ==
  LET s == store[d]
      added == NewSpecs(s, list)
      free == {h \in Host : Unused(h)}
      id == CHOOSE f \in [added -> free] : \A p, q \in added : f[p] = f[q] => p = q
      Writes(p) == LET h == Existing(s, p.alias)
                   IN p \in added \/ ~(Val(s, h) = p \/ AlreadyPreserved(s, h, p))
      written == SelectSeq(list, Writes)
  IN [k \in DOMAIN written |->
        LET p == written[k] IN
        IF p \in added
        THEN Draft(id[p], p)
        ELSE Draft(ConflictID(Existing(s, p.alias), Fresh(d, k)), ConflictPayload(FALSE, p))]

\* Bound: there are identifiers for all.
CanImport(d, list) ==
  /\ MayImport(store[d], list)
  /\ Cardinality(NewSpecs(store[d], list)) <= Cardinality({h \in Host : Unused(h)})

ImportAll(d, list) == CanImport(d, list) /\ Write(d, ImportDrafts(d, list))

\* The writes are applied one at a time, and the daemon may stop between two.
ImportCut(d, list) ==
  /\ CanImport(d, list)
  /\ \E n \in 1..Len(ImportDrafts(d, list)) - 1 :
       Write(d, SubSeq(ImportDrafts(d, list), 1, n))

-----------------------------------------------------------------------------
(* The plan: which hosts are rendered. *)

Unique(s) == {h \in Hosts(s) : Named(s, Val(s, h).alias) = {h}}

\* By host, the one it jumps to, through an alias that names one host; or None.
Targets(s) ==
  LET unique == Unique(s) IN
  [h \in Hosts(s) |->
     LET named == {t \in unique : Val(s, t).alias = Val(s, h).jump}
     IN IF named = {} THEN None ELSE CHOOSE t \in named : TRUE]

\* jumpLoops: does the walk come back to h?
JumpLoops(h, target) ==
  LET at[k \in 0..Cardinality(Host)] ==
        IF k = 0 THEN h
        ELSE LET prev == at[k - 1] IN IF prev = None THEN None ELSE target[prev]
  IN \E k \in 1..Cardinality(Host) : at[k] = h

\* Mutation of Bad: a host behind one that is left out is rendered.
BadAlone(s, h, target, omitted) ==
  /\ Val(s, h).jump # None
  /\ target[h] = None \/ JumpLoops(h, target)

\* Why a host with a jump is left out, given those left out so far.
Bad(s, h, target, omitted) ==
  /\ Val(s, h).jump # None
  /\ \/ target[h] = None
     \/ target[h] \in omitted
     \/ JumpLoops(h, target)

\* planHosts goes over the hosts until nothing changes; the set only grows, so
\* the order within a pass makes no difference to where it ends.
Omitted(s) ==
  LET target == Targets(s)
      after[n \in 0..Cardinality(Host)] ==
        IF n = 0 THEN Hosts(s) \ Unique(s)
        ELSE LET omitted == after[n - 1]
             IN omitted \union {h \in Hosts(s) : Bad(s, h, target, omitted)}
  IN after[Cardinality(Hosts(s))]

Rendered(s) == Hosts(s) \ Omitted(s)

-----------------------------------------------------------------------------
\* What a user does to the vault, checked against what is there.
LocalEdit(d) ==
  \/ AddKey(d)
  \/ \E v \in HostVal : AddHost(d, v) \/ \E h \in Host : EditHost(d, h, v)
  \/ \E r \in Base : RemoveRecord(d, r)
  \/ \E list \in Imports : ImportAll(d, list)

Settle(d) ==
  \E c \in Conflicts(store[d]) :
    \/ DiscardConflict(d, c)
    \/ \E resurrect \in BOOLEAN : ResolveEdit(d, c, resurrect)
    \/ ResolveMoot(d, c)
    \/ ResolveRemoval(d, c)

Init == \E table \in InitialTables : MergeInit(table)

Next ==
  \E d \in Device :
    \/ LocalEdit(d) \/ Settle(d) \/ SyncStep(d)
    \/ \E list \in Imports : ImportCut(d, list)

Spec == Init /\ [][Next]_vars

-----------------------------------------------------------------------------
\* The reference: a host is usable when its alias is its own and its jumps
\* lead, through aliases that name one host each, to one that needs no jump.
Usable(s) ==
  LET target == Targets(s)
      free == {h \in Unique(s) : Val(s, h).jump = None}
      good[n \in 0..Cardinality(Host)] ==
        IF n = 0 THEN free
        ELSE LET g == good[n - 1] IN {h \in Unique(s) : h \in free \/ target[h] \in g}
  IN good[Cardinality(Hosts(s))]

(***************************************************************************)
(* Whatever the merge of several devices' edits, and whatever was resolved *)
(* or half imported, the hosts rendered are exactly the usable ones: none  *)
(* that ssh could not reach, and none left out that it could               *)
(* (daemon/generate.go planHosts, jumpLoops).                              *)
(***************************************************************************)
PlanIsExact == \A d \in Device : Rendered(store[d]) = Usable(store[d])

\* Nothing to report: every host is rendered, and offers keys that exist.
Whole(s) == /\ Rendered(s) = Hosts(s)
            /\ \A h \in Hosts(s) : Val(s, h).key \in Present(s, Key) \union {None}

(***************************************************************************)
(* In a vault with nothing to report, no add, edit, removal or completed   *)
(* import makes anything to report: every host stays rendered and every    *)
(* key offered stays in the vault.  Only a sync, a resolved conflict or an *)
(* import cut short does (vault/manager_ops.go AddHost, EditHost,          *)
(* manager_remove.go removal, manager_import.go ImportHosts).              *)
(***************************************************************************)
LocalEditsKeepWhole ==
  [][\A d \in Device : Whole(store[d]) /\ ~Whole(store'[d]) => ~LocalEdit(d)]_vars

(***************************************************************************)
(* A vault with hosts left out can be put right: as long as an alias is    *)
(* free, one of the commands the issues list, a rename of a host that      *)
(* shares its alias or a jump dropped, is accepted                         *)
(* (daemon/generate.go planHosts, vault/manager_ops.go EditHost).          *)
(***************************************************************************)
SomeRemedyWorks ==
  \A d \in Device :
    LET s == store[d] IN
    Omitted(s) # {} /\ Alias # Aliases(s, Host) =>
      \E h \in Omitted(s) :
        \/ /\ h \notin Unique(s)
           /\ \E a \in Alias \ {Val(s, h).alias} : MayEdit(s, h, [Val(s, h) EXCEPT !.alias = a])
        \/ /\ Val(s, h).jump # None
           /\ MayEdit(s, h, [Val(s, h) EXCEPT !.jump = None])

(***************************************************************************)
(* An import that was cut short can be run again: it is not refused over   *)
(* what the first attempt left, and it writes what that attempt did not,   *)
(* no host and no conflict twice (vault/manager_import.go:174).            *)
(***************************************************************************)
CutImportResumes ==
  [][\A d \in Device, list \in Imports :
       ImportCut(d, list) =>
         /\ MayImport(store'[d], list)
         /\ Len(ImportDrafts(d, list)') + minted'[d] = Len(ImportDrafts(d, list)) + minted[d]
    ]_vars
=============================================================================
