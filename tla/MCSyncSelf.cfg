SPECIFICATION Spec
CONSTANTS
  Device = {a}
  Slot = {s1}
  Base = {r}
  PageLimit = 2
  MaxEdits = 3
  MaxMutation = 6
  MaxFaults = 0
  MaxRev = 8
  NoDigest = NoDigest
  Payload = {TRUE, FALSE}
  Mutation <- MCMutation
  Digest <- MCMutation
  Record <- MCRecord
INVARIANT ConflictNeedsTwoDevices
