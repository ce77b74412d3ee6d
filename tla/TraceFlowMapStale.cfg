SPECIFICATION Spec
CONSTANTS
  Addr = {1, 2, 3, 4, 5}
  Programs <- Programs5
  Entries = {1, 3}
  Targets = {5}
  Mix = {"normal", "jcc"}
  Version = "VMP_350"
  MaxTrace = 3
  MaxTasks = 3
INVARIANTS IndexNamesInstruction
CHECK_DEADLOCK FALSE
