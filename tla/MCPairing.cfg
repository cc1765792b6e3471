SPECIFICATION Spec
CONSTANTS
  Device = {a, b, j}
  Approver = {a, b}
  StartChain <- ApproversChain
  Founder = a
  Kit = kit
  None = None
  MaxApprovals = 3
  MaxFaults = 3
  MaxRevokes = 1
CHECK_DEADLOCK FALSE
INVARIANT InstalledIsMember
PROPERTY KeepsPromise
