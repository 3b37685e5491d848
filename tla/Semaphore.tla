------------------------------ MODULE Semaphore ------------------------------
(***************************************************************************)
(* The named semaphores of Kernel/sem.c.                                   *)
(*                                                                         *)
(* The table is kept by name: find_sem() finds the one initialized entry   *)
(* of a name, and of the slots only their number matters.  The spinlock    *)
(* field lock is taken and released with interrupts off and no context     *)
(* switch in between, so it is free whenever another process runs and has  *)
(* no place here.                                                          *)
(*                                                                         *)
(* An operator on the table s that also needs the processes takes the      *)
(* kernel record k of Scheduler; sem_wait() and sem_post() change both.    *)
(***************************************************************************)
EXTENDS Scheduler, Sequences, FiniteSets

CONSTANTS SemNames,           \* the names in use
          MAX_SEMAPHORES,     \* entries of semaphores[]
          PROCESSES_BLOCKED   \* entries of blocked_processes[]

ASSUME SemAssumption == MAX_SEMAPHORES \in Nat /\ PROCESSES_BLOCKED \in Nat

VARIABLE sems  \* semaphores[], by name

SemType == [initialized : BOOLEAN, value : Int, openings : Int,
            blocked : Seq(Slots)]  \* blocked_processes[0 .. amount_bprocesses-1]

NoSem == [initialized |-> FALSE, value |-> 0, openings |-> 0, blocked |-> <<>>]

-----------------------------------------------------------------------------
(* The C functions.                                                        *)

SlotLeft(s) == Cardinality({n \in SemNames : s[n].initialized}) < MAX_SEMAPHORES

\* sem_open_init(): 0 created, -1 it exists and has one more opening, -2 full.
SemOpenResult(s, n) == IF s[n].initialized THEN -1
                       ELSE IF SlotLeft(s) THEN 0 ELSE -2

\* Mutant: opening an existing semaphore sets its value again.
SemOpen_Resets(s, n, v) ==
  CASE SemOpenResult(s, n) = -2 -> s
    [] OTHER -> [s EXCEPT ![n].initialized = TRUE, ![n].value = v,
                          ![n].openings = @ + 1]

SemOpen(s, n, v) ==
  CASE SemOpenResult(s, n) = 0  -> [s EXCEPT ![n] = [initialized |-> TRUE,
                                                     value       |-> v,
                                                     openings    |-> 1,
                                                     blocked     |-> <<>>]]
    [] SemOpenResult(s, n) = -1 -> [s EXCEPT ![n].openings = @ + 1]
    [] SemOpenResult(s, n) = -2 -> s

\* Mutant: a value that is zero still lets one more in.
MustSleep_Late(s, n) == s[n].initialized /\ s[n].value < 0

\* Whether the caller of sem_wait(n) has to sleep: the value is taken one down
\* and is below zero then.
MustSleep(s, n) == s[n].initialized /\ s[n].value - 1 < 0

\* Mutant: a wait that need not sleep takes no token.
SemWaitTable_TakesNone(k, s, n) ==
  IF ~MustSleep(s, n) THEN s
  ELSE [s EXCEPT ![n].value = @ - 1, ![n].blocked = Append(@, GetPid(k))]

SemWaitTable(k, s, n) ==
  IF ~s[n].initialized THEN s
  ELSE [s EXCEPT ![n].value = @ - 1,
                 ![n].blocked = IF MustSleep(s, n) THEN Append(@, GetPid(k)) ELSE @]

SemWaitKernel(k, s, n) ==
  IF MustSleep(s, n) THEN BlockProcess(k, GetPid(k)) ELSE k

\* Whether sem_post(n) wakes up a process: the value is taken one up, is not
\* above zero then, and somebody queues.
MustWake(s, n) ==
  s[n].initialized /\ s[n].value + 1 <= 0 /\ s[n].blocked # <<>>

\* Mutant: the queue is not shifted.
SemPostTable_KeepsHead(s, n) ==
  IF ~s[n].initialized THEN s ELSE [s EXCEPT ![n].value = @ + 1]

SemPostTable(s, n) ==
  IF ~s[n].initialized THEN s
  ELSE [s EXCEPT ![n].value = @ + 1,
                 ![n].blocked = IF MustWake(s, n) THEN Tail(@) ELSE @]

\* Mutant: the last in is the first out.
SemPostKernel_Last(k, s, n) ==
  IF MustWake(s, n)
  THEN UnblockProcess(k, s[n].blocked[Len(s[n].blocked)]) ELSE k

\* Mutant: sem_post() wakes up only when the value is below zero afterwards.
SemPostKernel_Strict(k, s, n) ==
  IF MustWake(s, n) /\ s[n].value + 1 < 0
  THEN UnblockProcess(k, Head(s[n].blocked)) ELSE k

SemPostKernel(k, s, n) ==
  IF MustWake(s, n) THEN UnblockProcess(k, Head(s[n].blocked)) ELSE k

\* Mutants: the last opening is not seen as the last; the first close closes it
\* for everybody.
SemClose_Leaks(s, n) ==
  IF ~s[n].initialized THEN s
  ELSE IF s[n].openings - 1 >= 0 THEN [s EXCEPT ![n].openings = @ - 1]
  ELSE [s EXCEPT ![n].initialized = FALSE, ![n].value = 0, ![n].openings = @ - 1]

SemClose_First(s, n) ==
  [s EXCEPT ![n].initialized = FALSE, ![n].value = 0, ![n].openings = @ - 1]

\* sem_close(): the last opening takes the semaphore away; its queue and count
\* stay behind until the entry is opened again.
SemClose(s, n) ==
  IF ~s[n].initialized THEN s
  ELSE IF s[n].openings - 1 > 0 THEN [s EXCEPT ![n].openings = @ - 1]
  ELSE [s EXCEPT ![n].initialized = FALSE, ![n].value = 0, ![n].openings = @ - 1]

-----------------------------------------------------------------------------
(* The system calls, made by the process on the CPU.                       *)

SysSemOpen(n, v) == /\ UserRuns
                    /\ sems' = SemOpen(sems, n, v)
                    /\ UNCHANGED schedVars

\* Bound: blocked_processes[] is never filled beyond its end.
SysSemWait(n) == /\ UserRuns
                 /\ Len(sems[n].blocked) < PROCESSES_BLOCKED
                 /\ sems' = SemWaitTable(Kernel, sems, n)
                 /\ KernelBecomes(SemWaitKernel(Kernel, sems, n))

SysSemPost(n) == /\ UserRuns
                 /\ sems' = SemPostTable(sems, n)
                 /\ KernelBecomes(SemPostKernel(Kernel, sems, n))

SysSemClose(n) == /\ UserRuns
                  /\ sems' = SemClose(sems, n)
                  /\ UNCHANGED schedVars

SemInit == sems = [n \in SemNames |-> NoSem]

-----------------------------------------------------------------------------

\* A negative value is the number of processes that queue, and nobody queues
\* behind a value that is not negative.
ValueCountsQueue ==
  \A n \in SemNames : sems[n].initialized =>
    Len(sems[n].blocked) = IF sems[n].value < 0 THEN -sems[n].value ELSE 0

=============================================================================
