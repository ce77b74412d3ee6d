SPECIFICATION Spec
CONSTANTS
  Addr = {1, 2, 3}
  Programs <- Programs3
  Entries = {1}
  Targets = {1, 2, 3}
  Mix = {"normal", "jmp", "jcc"}
  Version = "VMP_350"
  MaxTrace = 4
  MaxTasks = 1
INVARIANTS MergeRefusesBackEdge
CHECK_DEADLOCK FALSE
