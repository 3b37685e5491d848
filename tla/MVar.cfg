SPECIFICATION FairCommandSpec
CONSTANTS
  MAX_PCS = 6
  IDLE_PID = 0
  SHELL_PID = 1
  QUANTUM = 1
  IDLE_Q = 1
  Procs = {1}
  Prios = {4}
  MaxBlocks = 1
  Creators = {1, 2}
  Targets = {}
  ShellExits = FALSE
  SemNames = {"p_lock_anon_3", "p_items_anon_3", "p_space_anon_3", "p_lock_anon_4", "p_items_anon_4", "p_space_anon_4",
    "MVAR_EMPTY", "MVAR_FULL", "p_lock_MVAR_PIPE", "p_items_MVAR_PIPE", "p_space_MVAR_PIPE"}
  MAX_SEMAPHORES = 5
  PROCESSES_BLOCKED = 4
  MAX_PIPES = 5
  PIPE_BUFFER_SIZE = 2
  EOF_POSTS = 10
  ROUNDS = 2
  MESSAGES = 1
  LENGTH = 3
  MaxKills = 1
  MaxCrew = 3
INVARIANTS CountsAgree NoLostWakeup RingHolds NothingKept GroupsEndTogether
PROPERTIES ImplementsChannel PipelinesEnd ImplementsCell LettersComeAndGo
