SPECIFICATION BuilderSpec
CONSTANTS
  Addr = {1, 2, 3, 4, 5, 6, 7}
  Programs <- MCPrograms
  Entries = {1, 3}
  Version = "VMP_350"
  MaxTrace = 6
  MaxTasks = 4
  Roles = {"A", "B"}
  Handlers <- MCHandlers
  Seeds <- MCSeeds
  VmStart <- MCVmStart
  BranchVips = {100, 200}
  InitSlots = 3
  InitAttempts = 3
  CheckWalk = 5
  MaxFunctions = 2
INVARIANTS BuilderTypeOK ContextsMatch OverreadOnlyAtCut CacheTransparent NamesTrue VisitedIsSame AcceptedEntryFound
PROPERTIES ReplayReachesNext
CHECK_DEADLOCK FALSE
