SPECIFICATION ProcSpec
CONSTANTS
  MAX_PCS = 5
  IDLE_PID = 0
  SHELL_PID = 1
  QUANTUM = 2
  IDLE_Q = 1
  Procs = {1}
  Prios = {4}
  MaxBlocks = 1
  Creators = {1}
  Targets = {0, 2, 3, 4}
  ShellExits = FALSE
INVARIANTS BlockedIffCounted WaitTargetKept WaitBlocksWhileLive FamilyAgrees ActiveCount
PROPERTIES ImplementsLifecycle
