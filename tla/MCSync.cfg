SPECIFICATION FairSpec
CONSTANTS
  Device = {a, b}
  Slot = {s1}
  Base = {r}
  PageLimit = 2
  MaxEdits = 3
  MaxMutation = 6
  MaxFaults = 1
  MaxRev = 8
  NoDigest = NoDigest
  Payload = {TRUE, FALSE}
  Mutation <- MCMutation
  Digest <- MCMutation
  Record <- MCRecord
CONSTRAINT FewEdits
INVARIANTS
  NoLostEdit
  OneFate
  PushNeverWedges
  CursorIsHonest
PROPERTY Converges
