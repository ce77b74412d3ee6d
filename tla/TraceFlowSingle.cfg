SPECIFICATION FairSpec
CONSTANTS
  Addr = {1, 2, 3, 4}
  Programs <- Programs4Ends
  Entries = {1}
  Targets = {2, 3, 4}
  Mix = {"normal", "jcc", "addreg", "jmpreg", "ret"}
  Version = "VMP_380"
  MaxTrace = 6
  MaxTasks = 1
INVARIANTS TypeOK MapsAgree EdgesInverse EdgesTailToHead TraceFollowsBlocks DispatchEndsBlock
PROPERTIES MergePreservesFlow TaskCompletes
CHECK_DEADLOCK FALSE
