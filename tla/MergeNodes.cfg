SPECIFICATION FairSpec
CONSTANTS
  VmAddress <- MCVmAddress
  Starts <- MCStarts
  Unset = Unset
INVARIANTS TypeOK EdgesMirrored MergeMaximal
PROPERTIES MergeTerminates ImplementsBlockMerge FlowKept
CHECK_DEADLOCK FALSE
