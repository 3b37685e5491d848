SPECIFICATION FairTestSpec
CONSTANTS
  MAX_PCS = 4
  IDLE_PID = 0
  SHELL_PID = 1
  QUANTUM = 2
  IDLE_Q = 1
  Procs = {1}
  Prios = {4}
  MaxBlocks = 1
  Creators = {1}
  Targets = {}
  ShellExits = FALSE
  SemNames = {sem}
  MAX_SEMAPHORES = 1
  PROCESSES_BLOCKED = 4
  PAIRS = 1
  LOOPS = 2
  USE_SEM = TRUE
  SEM_ID = sem
  TOTAL_PROCESSES = 2
  MaxProcesses = {2, 3}
INVARIANTS MutualExclusion FinalValueIsZero NothingLeftBehind BeliefsHold
PROPERTIES TestEnds
