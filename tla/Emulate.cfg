SPECIFICATION FairSpec
CONSTANTS
  Programs <- MCPrograms
  Entry = 1
  WalkSize = 5
  MaxRuns = 3
INVARIANTS TypeOK TraceBounded IndexSafe TraceFollowsProgram ReplayAgrees
PROPERTIES TraceCompletes
CHECK_DEADLOCK FALSE
