SPECIFICATION RelaySpec
CONSTANTS
  Record = {r1, r2}
  Mutation = {m1, m2, m3, m4}
  Digest = {d1, d2, d3}
  NoDigest = NoDigest
  Payload = {p}
  MaxRev = 3
SYMMETRY Symmetry
INVARIANTS
  HeadIsLatest
  UnforkedLog
  ExactlyOnce
PROPERTY StableHistory
