----------------------------- MODULE MCPairing -----------------------------
(* Pairing for TLC. *)
EXTENDS Pairing, SequencesExt

\* The founder enrolled the other approvers, in some order.
ApproversChain ==
  FoldLeft(LAMBDA c, x : Append(c, Enroll(c, Founder, x)), <<Root>>,
           SetToSeq(Approver \ {Founder}))
=============================================================================
