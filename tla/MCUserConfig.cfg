SPECIFICATION Spec
CONSTANTS
  web = web
  git = git
  laptop = laptop
  InitialFiles <- Files
  InitialVaults <- Vaults
  UserLines <- Lines
  MaxSaves = 1
  MaxCommands = 4
  MaxStops = 1
CHECK_DEADLOCK FALSE
INVARIANT AliasesResolve
PROPERTY EveryChangeIsBackedUp
PROPERTY UninstallRestores
