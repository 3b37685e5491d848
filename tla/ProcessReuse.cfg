SPECIFICATION ProcSpec
CONSTANTS
  MAX_PCS = 4
  IDLE_PID = 0
  SHELL_PID = 1
  QUANTUM = 2
  IDLE_Q = 1
  Procs = {1}
  Prios = {4}
  MaxBlocks = 1
  Creators = {1, 2}
  Targets = {2, 3}
  ShellExits = FALSE
PROPERTIES WaitFreesExited
