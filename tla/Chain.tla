------------------------------- MODULE Chain -------------------------------
(***************************************************************************)
(* The membership chain (internal/membership): a sequence of signed events *)
(* that enrol and revoke devices, each naming its predecessor's digest.    *)
(* Everything here is a pure function of a chain.  Signatures are those of *)
(* the key the code looks up; an event that a device builds is signed by   *)
(* that device, so what is left of signerKey is whose key it finds.        *)
(***************************************************************************)
EXTENDS Naturals, Sequences, FiniteSets

CONSTANTS Device,   \* device identifiers
          Founder,  \* genesis.first_device_id
          Kit       \* authorized_by of an event the recovery kit signs

ASSUME ChainConstants == Founder \in Device /\ Kit \notin Device

-----------------------------------------------------------------------------

\* What an event says, besides its place in the chain.
Core(ev) == <<ev.action, ev.device, ev.by>>

\* The digest of an event covers its parent's digest, hence all before it.
EventDigest(ev) == Append(ev.parent, Core(ev))

HeadDigest(c) == IF c = <<>> THEN <<>> ELSE EventDigest(c[Len(c)])

Named(c, action) == {c[i].device : i \in {j \in DOMAIN c : c[j].action = action}}

Enrolled(c) == Named(c, "enroll")
Revoked(c) == Named(c, "revoke")
Authorized(c) == Enrolled(c) \ Revoked(c)

\* checkRoot: the first device enrols itself.
IsRoot(ev) == ev.action = "enroll" /\ ev.by = Founder /\ ev.device = Founder

\* signerKey finds a key: the kit's, or that of a device not revoked so far.
HasSigner(c, ev) == ev.by = Kit \/ ev.by \in Authorized(c)

\* applyAction: an identifier enrols once; the last device is not revoked.
ActionAllowed(c, ev) ==
  CASE ev.action = "enroll" -> ev.device \notin Enrolled(c)
    [] ev.action = "revoke" -> /\ ev.device \in Authorized(c)
                               /\ Authorized(c) # {ev.device}

\* Chain.apply accepts the event as the next one.
Applies(c, ev) ==
  /\ ev.seq = Len(c) + 1
  /\ ev.parent = HeadDigest(c)
  /\ IF c = <<>> THEN IsRoot(ev) ELSE HasSigner(c, ev)
  /\ ActionAllowed(c, ev)

Prefix(c, n) == SubSeq(c, 1, n)

\* syncMembership compares two chains: the first is where the other began.
IsPrefixOf(c, d) == Len(c) <= Len(d) /\ \A i \in 1..Len(c) : c[i] = d[i]

\* Validate.
Valid(c) == c # <<>> /\ \A n \in DOMAIN c : Applies(Prefix(c, n - 1), c[n])

-----------------------------------------------------------------------------
(* Building the next event of a chain (build.go). *)

NextEvent(c, action, device, by) ==
  [seq |-> Len(c) + 1, parent |-> HeadDigest(c),
   action |-> action, device |-> device, by |-> by]

Root == NextEvent(<<>>, "enroll", Founder, Founder)

CanEnroll(c, by) == by \in Authorized(c)
Enroll(c, by, x) == NextEvent(c, "enroll", x, by)

RecoveryEnroll(c, x) == NextEvent(c, "enroll", x, Kit)

CanRevoke(c, by, x) ==
  /\ by \in Authorized(c)
  /\ x \in Authorized(c)
  /\ Authorized(c) # {x}
Revoke(c, by, x) == NextEvent(c, "revoke", x, by)
=============================================================================
