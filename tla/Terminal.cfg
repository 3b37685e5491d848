\* Two slots for programs, a ring of two characters and four keys, or three and a
\* command block or unblock: a program can be run, killed and replaced, and the
\* ring overrun.
SPECIFICATION FairTermSpec
CONSTANTS
  MAX_PCS = 4
  IDLE_PID = 0
  SHELL_PID = 1
  QUANTUM = 1
  IDLE_Q = 1
  Procs = {1}
  Prios = {4}
  MaxBlocks = 2
  Creators = {1}
  Targets = {1, 2}
  ShellExits = TRUE
  SemNames = {"sem_stdin"}
  MAX_SEMAPHORES = 1
  PROCESSES_BLOCKED = 4
  KEY_BUF_SIZE = 2
  MaxKeys = 4
  MaxOrders = 1
INVARIANTS KeysInOrder NoKeyStuck
PROPERTIES PromptReturns
