------------------------------ MODULE Envelopes ------------------------------
(***************************************************************************)
(* The signed record envelope (internal/protocol), the unit both stores    *)
(* keep and the sync protocol moves.  An envelope carries its own digest;  *)
(* ciphertext, signature and key epoch are abstracted, and `payload'       *)
(* stands for what the plaintext says as far as a device's behaviour       *)
(* depends on it.  The relay's sequence number is outside the digest and   *)
(* is kept beside the envelope, never in it.                               *)
(***************************************************************************)
EXTENDS Naturals

CONSTANTS Record,     \* record identifiers
          Mutation,   \* mutation identifiers (Idempotency-Key)
          Digest,     \* envelope digests
          NoDigest,   \* parent_digest: null
          Payload,    \* abstract plaintexts
          MaxRev      \* bound: the largest revision a counter column holds

ASSUME EnvelopeConstants ==
  /\ MaxRev \in Nat \ {0}
  /\ NoDigest \notin Digest

Envelope == [record: Record, rev: 1..MaxRev, parent: Digest \cup {NoDigest},
             mutation: Mutation, digest: Digest, deleted: BOOLEAN,
             payload: Payload]

\* A stored envelope with the relay's sequence number, 0 when it has none.
Row == [env: Envelope, seq: Nat]

\* Envelope.Validate: a creation has no parent digest, an update has one.
Valid(e) == (e.rev = 1) <=> (e.parent = NoDigest)

\* The digests an envelope vouches for: its own and the one it names.
Vouches(e) == {<<e.record, g>> : g \in {e.digest, e.parent} \ {NoDigest}}

\* INSERT ... ON CONFLICT DO UPDATE on a table keyed by k.
Upsert(table, k, row) ==
  [x \in DOMAIN table \cup {k} |-> IF x = k THEN row ELSE table[x]]

EmptyTable == [x \in {} |-> x]
=============================================================================
