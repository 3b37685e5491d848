SPECIFICATION FairSchedSpec
CONSTANTS
  MAX_PCS = 4
  IDLE_PID = 0
  QUANTUM = 2
  IDLE_Q = 1
  Procs = {1, 3}
  Prios = {3, 4}
  MaxBlocks = 2
INVARIANTS SchedTypeOK GetPidIsCurrent BlockedIffCounted
PROPERTIES IdleIsLastResort NoStarvation
