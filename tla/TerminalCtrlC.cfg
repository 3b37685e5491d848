\* Four keys: a program in the foreground, one in the background, Ctrl-C.
SPECIFICATION TermSpec
CONSTANTS
  MAX_PCS = 4
  IDLE_PID = 0
  SHELL_PID = 1
  QUANTUM = 1
  IDLE_Q = 1
  Procs = {1}
  Prios = {4}
  MaxBlocks = 1
  Creators = {1}
  Targets = {}
  ShellExits = TRUE
  SemNames = {"sem_stdin"}
  MAX_SEMAPHORES = 1
  PROCESSES_BLOCKED = 4
  KEY_BUF_SIZE = 2
  MaxKeys = 4
  MaxOrders = 0
PROPERTIES CtrlCHitsForeground
