SPECIFICATION Spec
CONSTANTS
  Addr = {1, 2, 3}
  Programs <- Programs3
  Entries = {1}
  Targets = {1, 2, 3}
  Mix = {"normal", "jmp", "loop"}
  Version = "VMP_350"
  MaxTrace = 4
  MaxTasks = 1
INVARIANTS NormalLinkNeverThrows
CHECK_DEADLOCK FALSE
