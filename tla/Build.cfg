SPECIFICATION FairBuildSpec
CONSTANTS
  Raw = {1, 2, 3, 4}
  VmAddress <- MCVmAddress
  Starts <- MCVmAddress
  Unset = Unset
  Start = 1
  Binaries <- MCBinaries
  VmStart <- MCVmStart
  WalkSize = 3
INVARIANTS NoEdgeDropped ConnectHasTarget FlowSound BranchesMatchGraph
PROPERTIES BuildCompletes
CHECK_DEADLOCK FALSE
