SPECIFICATION Spec
CONSTANTS
  None = None
  Seed = Seed
  NoDigest = NoDigest
  Device = {d1, d2}
  Host = {h1, h2, h3}
  Key = {k1}
  Alias = {a, b, c}
  h1 = h1
  h2 = h2
  h3 = h3
  k1 = k1
  a = a
  b = b
  c = c
  Base <- Bases
  Record <- Records
  Mutation <- Mutations
  Digest <- Mutations
  Payload = {}
  MaxRev = 9
  InitialTables <- Vaults
  Imports <- Lists
  MaxEdits = 2
  MaxMutation = 4

SYMMETRY Symmetry
CHECK_DEADLOCK FALSE
INVARIANT PlanIsExact
INVARIANT SomeRemedyWorks
PROPERTY LocalEditsKeepWhole
PROPERTY CutImportResumes
