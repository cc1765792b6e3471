SPECIFICATION RejoinSpec
CONSTANTS
  Device = {a, b}
  Slot = {s1}
  Base = {r}
  PageLimit = 2
  MaxEdits = 3
  MaxMutation = 4
  MaxFaults = 1
  MaxRev = 6
  MaxRestores = 1
  NoDigest = NoDigest
  Payload = {TRUE, FALSE}
  Mutation <- MCMutation
  Digest <- MCMutation
  Record <- MCRecord
CONSTRAINTS
  OneAtATime
  FewEdits
SYMMETRY Symmetry
CHECK_DEADLOCK FALSE
INVARIANTS
  NothingLost
  NothingOverwritten
  RejoinedCursorIsHonest
  OthersNotice
