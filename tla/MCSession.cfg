SPECIFICATION LiveSpec
CONSTANTS
  None = None
  Password = {p1, p2}
  Client = {c1}
  Confirmer = {r1, r2}
  IdleTimeout = 1
  HardTimeout = 2
  ChallengeTTL = 1
  ApprovalTTL = 1
  MaxTime = 2
  MaxNonces = 2
CHECK_DEADLOCK FALSE
INVARIANT OpenedIsComplete
INVARIANT UsesAreInTime
INVARIANT ProofIsFresh
PROPERTY KeysAreReleased
PROPERTY ApprovalsAreDropped
