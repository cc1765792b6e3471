SPECIFICATION FairSpec
CONSTANTS
  s1 = s1
  s2 = s2
  Device = {a, b}
  Founder = a
  Kit = kit
  Slot = {s1, s2}
  MaxWrites = 1
  MaxEvents = 3
  MaxChallenges = 2
  MaxFaults = 2
CONSTRAINT FewRequests
CHECK_DEADLOCK FALSE
INVARIANTS
  RecoveredIsMember
  StaleCopyIsNoticed
PROPERTY RecoveryWorks
