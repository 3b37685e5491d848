SPECIFICATION ClientSpec
CONSTANTS
  MAX_PCS = 4
  IDLE_PID = 0
  QUANTUM = 2
  IDLE_Q = 1
  Procs = {1, 2, 3}
  Prios = {4}
  MaxBlocks = 1
  SemNames = {a, b, c}
  MAX_SEMAPHORES = 2
  PROCESSES_BLOCKED = 3
  Values = {0, 1}
  MaxValue = 1
INVARIANTS ValueCountsQueue OpeningsAgree SleepersQueue
PROPERTIES ImplementsCounting
