SPECIFICATION BuildSpec
CONSTANTS
  Raw = {1, 2, 3}
  VmAddress <- MCVmAddress
  Starts <- MCVmAddress
  Unset = Unset
  Start = 1
  Binaries <- MCNativeBinaries
  VmStart <- MCVmStart
  WalkSize = 3
INVARIANTS StartBlockStored
CHECK_DEADLOCK FALSE
