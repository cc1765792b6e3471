------------------------------- MODULE Merge -------------------------------
(***************************************************************************)
(* How the edits of several devices come together, as the ground for the   *)
(* modules about what the records say (Hosts, Trust): the two stores, with *)
(* the plaintext of a record as its payload, and a sync in larger steps    *)
(* than Sync takes.  One step pushes one queued write and settles the      *)
(* relay's answer, or pulls one entry of the log: pages have any length,   *)
(* and a sync may stop after any step (internal/syncengine/engine.go).     *)
(*                                                                         *)
(* A record kept aside after a rejection is a record like any other: it is *)
(* identified by the record and the mutation it came from, it is synced,   *)
(* and every device may resolve or discard it.                             *)
(***************************************************************************)
EXTENDS RelayStore, VaultStore, SequencesExt

CONSTANTS Device,
          Seed,         \* the author of the records there are at first
          Base,         \* host, key and known_host record identifiers
          None,         \* nothing: the payload of a tombstone, an unset field
          MaxEdits,     \* bound: mutations after which all users stop
          MaxMutation   \* bound: mutation identifiers per author

ASSUME MergeConstants ==
  /\ MaxEdits \in Nat /\ MaxMutation \in Nat
  /\ Mutation = (Device \union {Seed}) \X (1..MaxMutation)
  /\ Digest = Mutation
  /\ Record = Base \union (Base \X Mutation)

VARIABLES store,   \* device -> its VaultStore
          minted   \* device -> mutation identifiers used

mergeVars == <<relayVars, store, minted>>

-----------------------------------------------------------------------------
(* Writing locally. *)

\* The k-th mutation device d seals from now.
Fresh(d, k) == <<d, minted[d] + k>>

\* A record identifier is random: never one in use anywhere.
Unused(r) == \A d \in Device : ~HasHead(store[d], r)
NewID(S) == CHOOSE r \in S : Unused(r)

Draft(r, payload) == [record |-> r, deleted |-> FALSE, payload |-> payload]
Tombstone(r) == [record |-> r, deleted |-> TRUE, payload |-> None]

\* Writer.Seal: the draft as the next version of its record.
Seal(s, draft, m) ==
  [record |-> draft.record, mutation |-> m, digest |-> m,
   rev |-> IF HasHead(s, draft.record) THEN HeadEnv(s, draft.record).rev + 1 ELSE 1,
   parent |-> IF HasHead(s, draft.record) THEN HeadEnv(s, draft.record).digest
              ELSE NoDigest,
   deleted |-> draft.deleted, payload |-> draft.payload]

\* ApplyLocalBatch: the drafts are queued and made heads, together.
ApplyBatch(d, drafts) ==
  LET envs == [k \in DOMAIN drafts |-> Seal(store[d], drafts[k], Fresh(d, k))]
  IN /\ store' = [store EXCEPT ![d] = FoldLeft(ApplyLocal, @, envs)]
     /\ minted' = [minted EXCEPT ![d] = @ + Len(drafts)]
     /\ UNCHANGED relayVars

UserMayWrite(n) == MapThenSumSet(LAMBDA d : minted[d], Device) + n <= MaxEdits

\* A user's operation: one batch, under the manager's mutex.
Write(d, drafts) == UserMayWrite(Len(drafts)) /\ ApplyBatch(d, drafts)

-----------------------------------------------------------------------------
(* Records kept aside. *)

ConflictID(r, m) == <<r, m>>
Source(c) == c[1]

ConflictPayload(removal, candidate) == [removal |-> removal, candidate |-> candidate]

\* The open conflicts in a store.
Conflicts(s) == {c \in DOMAIN s.heads \ Base : Live(s, c)}
Kept(s, c) == HeadEnv(s, c).payload

DiscardConflict(d, c) == c \in Conflicts(store[d]) /\ Write(d, <<Tombstone(c)>>)

\* ResolveConflict of a kept edit: it becomes a new version of its record, and
\* the conflict is retired with it.  Nothing else is checked.
ResolveEdit(d, c, resurrect) ==
  /\ c \in Conflicts(store[d]) /\ ~Kept(store[d], c).removal
  /\ HasHead(store[d], Source(c))
  /\ Live(store[d], Source(c)) \/ resurrect
  /\ Write(d, <<Draft(Source(c), Kept(store[d], c).candidate), Tombstone(c)>>)

\* ResolveConflict of a kept removal, of a record that is already gone.
ResolveMoot(d, c) ==
  /\ c \in Conflicts(store[d]) /\ Kept(store[d], c).removal
  /\ HasHead(store[d], Source(c)) /\ ~Live(store[d], Source(c))
  /\ Write(d, <<Tombstone(c)>>)

-----------------------------------------------------------------------------
(* Syncing. *)

\* By revision within a record.
Foremost(queue) ==
  {e \in queue : \A f \in queue : f.record = e.record => e.rev <= f.rev}

\* push, for one candidate: the answer is settled as Sync does it in steps.
Push(d) ==
  \E e \in Foremost(store[d].outbox) :
    LET s == store[d]
        reply == PutReply(e)
        copy == Seal(s, Draft(ConflictID(e.record, e.mutation),
                              ConflictPayload(e.deleted, e.payload)), Fresh(d, 1))
    IN
    /\ PutRecord(e)
    /\ \/ /\ reply.kind = "accepted"
          /\ store' = [store EXCEPT ![d] = AcceptOutbox(s, e, reply.seq)]
          /\ UNCHANGED minted
       \/ /\ reply.kind = "rejected" /\ e.record \notin Base
          /\ \E head \in reply.head : store' = [store EXCEPT ![d] = Supersede(s, head)]
          /\ UNCHANGED minted
       \/ /\ reply.kind = "rejected" /\ e.record \in Base
          /\ minted[d] < MaxMutation
          /\ \E head \in reply.head :
               store' = [store EXCEPT ![d] = ResolveConflict(s, e, copy, head)]
          /\ minted' = [minted EXCEPT ![d] = @ + 1]

\* ahead: new to the device, or later than what it has.
Ahead(s, e) == HasHead(s, e.record) => e.rev > HeadEnv(s, e.record).rev

\* Another version at the same revision is a fork, and the sync stops.
Fork(s, e) ==
  /\ HasHead(s, e.record)
  /\ e.rev = HeadEnv(s, e.record).rev
  /\ e.digest # HeadEnv(s, e.record).digest

\* pull, for one entry of the log.
Pull(d) ==
  LET s == store[d]
      i == s.cursor + 1
      batch == IF Ahead(s, changeLog[i]) THEN {i} ELSE {}
  IN
  /\ i <= CurrentSeq
  /\ ~Fork(s, changeLog[i])
  /\ CanApplyRemoteBatch(s, changeLog, batch)
  /\ store' = [store EXCEPT ![d] = ApplyRemoteBatch(s, changeLog, batch, i)]
  /\ UNCHANGED <<relayVars, minted>>

SyncStep(d) == Push(d) \/ Pull(d)

-----------------------------------------------------------------------------
\* Every device starts with the same records, synced; `payloads' has them.
MergeInit(payloads) ==
  LET order == SetToSeq(DOMAIN payloads)
      seqs == DOMAIN order
      env(i) == [record |-> order[i], rev |-> 1, parent |-> NoDigest,
                 mutation |-> <<Seed, i>>, digest |-> <<Seed, i>>,
                 deleted |-> FALSE, payload |-> payloads[order[i]]]
      heads == [r \in DOMAIN payloads |->
                  LET i == CHOOSE j \in seqs : order[j] = r IN [env |-> env(i), seq |-> i]]
      seen == UNION {Vouches(env(i)) : i \in seqs}
  IN
  /\ changeLog = [i \in seqs |-> env(i)]
  /\ recordHead = heads
  /\ outcome = [m \in {<<Seed, i>> : i \in seqs} |->
                  [digest |-> m, accepted |-> 1, seq |-> m[2]]]
  /\ recordAncestor = seen
  /\ store = [d \in Device |-> StoreOf(heads, {}, Len(order), seen)]
  /\ minted = [d \in Device |-> 0]

\* Nothing is left to push or to pull.
Settled == \A d \in Device : store[d].outbox = {} /\ store[d].cursor = CurrentSeq
=============================================================================
