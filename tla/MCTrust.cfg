SPECIFICATION Spec
CONSTANTS
  None = None
  Seed = Seed
  NoDigest = NoDigest
  Device = {d1, d2}
  Base = {o1, o2, o3, o4, o5, o6, o7}
  Dest = {web, git}
  Fingerprint = {f, g}
  o1 = o1
  o2 = o2
  web = web
  git = git
  f = f
  g = g
  Record <- Records
  Mutation <- Mutations
  Digest <- Mutations
  Payload = {}
  MaxRev = 9
  MaxRequests = 2
  Captures <- TwoKeys
  UserKnownHosts <- Mine
  MaxActs = 2
  InitialTables <- Vaults
  MaxEdits = 2
  MaxMutation = 8
SYMMETRY Symmetry
CHECK_DEADLOCK FALSE
INVARIANT KeyIsShared
INVARIANT RevocationReaches
INVARIANT OnlyAgreeingKeys
PROPERTY ProhibitionStands
