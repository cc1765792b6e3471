SPECIFICATION Spec
CONSTANTS
  Device = {a, b}
  Founder = a
  Kit = Kit
  Slot = {s1, s2}
  MaxEvents = 3
  MaxWrites = 1
  MaxFaults = 1
INVARIANTS
  ChainIsValid
  LocalIsPrefix
  WritersAreKnown
  NotedIsSound
CONSTRAINT FewRequests
SYMMETRY Symmetry
