SPECIFICATION FairSpec
CONSTANTS
  None = None
  Request = {r1, r2}
  Host = {h1}
  Key = {k1, k2}
  HostKey = {t}
  h1 = h1
  k1 = k1
  k2 = k2
  RemoteLog <- KeyReplaced
  MaxChanges = 1
  MaxFaults = 1
CHECK_DEADLOCK FALSE
INVARIANT PubFilesPresent
PROPERTY FilesCatchUp
