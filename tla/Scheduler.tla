------------------------------ MODULE Scheduler ------------------------------
(***************************************************************************)
(* The round-robin scheduler of Kernel/scheduler.c and the operations of   *)
(* Kernel/proc.c that move a process between READY, RUNNING and BLOCKED.   *)
(*                                                                         *)
(* Every IDT entry is an interrupt gate, so a system call runs with        *)
(* interrupts off and the CPU changes hands only inside scheduling(),      *)
(* called by the timer interrupt or by the "int 20h" of _yield().  One     *)
(* action is therefore a whole system call up to its context switch.       *)
(*                                                                         *)
(* The process table is kept as one function per PCB field; a NULL slot is *)
(* one whose state is "INVALID", the name get_proc_list() prints for it.   *)
(* Kernel is the record of those functions: an operator that takes a       *)
(* record k and returns one is a C function, applied to the table.         *)
(*                                                                         *)
(* This specification runs a fixed population of processes; creation and   *)
(* death are added by module Process.                                      *)
(***************************************************************************)
EXTENDS Integers

CONSTANTS MAX_PCS,    \* slots of process_table
          IDLE_PID,   \* slot of the idle process
          QUANTUM,    \* ticks of a LEVEL_4 process
          IDLE_Q,     \* ticks of the idle process
          Procs,      \* the processes that exist, idle left out
          Prios,      \* the priorities the clients ask for
          MaxBlocks   \* bound: nesting of block_process explored

Slots == 0 .. MAX_PCS - 1
Levels == 0 .. 4

ASSUME SlotsAssumption == MAX_PCS \in Nat \ {0} /\ IDLE_PID \in Slots
ASSUME TimeAssumption == QUANTUM \in Nat \ {0} /\ IDLE_Q \in Nat \ {0}
ASSUME ClientAssumption == /\ Procs \subseteq Slots \ {IDLE_PID}
                           /\ Procs # {}
                           /\ MaxBlocks \in Nat

VARIABLES state,          \* PCB.state, "INVALID" for a NULL slot
          blocks_amount,  \* PCB.blocks_amount: nested block_process calls
          time_used,      \* PCB.time_used: ticks of the current quantum
          my_max_time,    \* PCB.my_max_time: the quantum
          yielding,       \* PCB.yielding
          current_index   \* the slot scheduling() last gave the CPU to

schedVars == <<state, blocks_amount, time_used, my_max_time, yielding,
               current_index>>

ProcessState == {"READY", "RUNNING", "BLOCKED", "ZOMBIE", "INVALID"}

Kernel == [state |-> state, blocks_amount |-> blocks_amount,
           time_used |-> time_used, my_max_time |-> my_max_time,
           yielding |-> yielding, current_index |-> current_index]

\* (The record is bound, not substituted, so that TLC computes it once.)
KernelBecomes(k) ==
  \E r \in {k} : /\ state' = r.state
                 /\ blocks_amount' = r.blocks_amount
                 /\ time_used' = r.time_used
                 /\ my_max_time' = r.my_max_time
                 /\ yielding' = r.yielding
                 /\ current_index' = r.current_index

-----------------------------------------------------------------------------
(* The C functions, on a kernel record k.                                  *)

IsPidValid(k, p) == p \in Slots /\ k.state[p] # "INVALID"

RunningSlots(k) == {p \in Slots : k.state[p] = "RUNNING"}

\* get_pid(): the first RUNNING process of the table, or -1.
GetPid(k) == IF RunningSlots(k) = {}
             THEN -1
             ELSE CHOOSE p \in RunningSlots(k) :
                     \A q \in RunningSlots(k) : p <= q

CurrentRuns(k) == /\ k.current_index \in Slots
                  /\ k.state[k.current_index] = "RUNNING"

\* The accounting half of scheduling(): what a tick does to the running
\* process.  The flag yielding is looked at only before the quantum is over.
Charge(k) ==
  LET c == k.current_index IN
  IF k.time_used[c] + 1 >= k.my_max_time[c]
  THEN [k EXCEPT !.time_used[c] = 0,
                 !.state[c] = IF c = IDLE_PID THEN "BLOCKED" ELSE "READY"]
  ELSE IF k.yielding[c] = 1
  THEN [k EXCEPT !.time_used[c] = 0, !.yielding[c] = 0,
                 !.state[c] = "READY"]
  ELSE [k EXCEPT !.time_used[c] = @ + 1]

\* The distances at which the do-while of scheduling() meets a READY process,
\* counted from the slot after current_index; the last one is its own slot.
ReadyDistances(k) ==
  {d \in 1 .. MAX_PCS : k.state[(k.current_index + d) % MAX_PCS] = "READY"}

Least(D) == CHOOSE d \in D : \A e \in D : d <= e

\* Mutants: the search starts at slot 0; it stops before its own slot; the
\* index does not wrap.
NextIndex_FromZero(k) ==
  LET R == {p \in Slots : k.state[p] = "READY"}
  IN IF R = {} THEN IDLE_PID ELSE Least(R)

NextIndex_SkipsOwn(k) ==
  IF ReadyDistances(k) \ {MAX_PCS} = {}
  THEN IDLE_PID
  ELSE (k.current_index + Least(ReadyDistances(k))) % MAX_PCS

NextIndex_NoWrap(k) ==
  IF ReadyDistances(k) = {}
  THEN IDLE_PID
  ELSE k.current_index + Least(ReadyDistances(k))

\* The slot the search finds, or the idle process when nobody is READY.
NextIndex(k) ==
  IF ReadyDistances(k) = {}
  THEN IDLE_PID
  ELSE (k.current_index + Least(ReadyDistances(k))) % MAX_PCS

\* Mutant: the fallback to the idle process forgets current_index.
Dispatch_KeepsIndex(k) ==
  [k EXCEPT !.state[NextIndex(k)] = "RUNNING",
            !.current_index = IF ReadyDistances(k) = {} THEN @ ELSE NextIndex(k)]

Dispatch(k) == [k EXCEPT !.state[NextIndex(k)] = "RUNNING",
                         !.current_index = NextIndex(k)]

\* scheduling(): a running process whose quantum goes on keeps the CPU.
Scheduling(k) ==
  LET a == IF CurrentRuns(k) THEN Charge(k) ELSE k
  IN IF CurrentRuns(a) THEN a ELSE Dispatch(a)

\* yield(): process_table[get_pid()]->yielding = 1, then a forced tick.  With
\* no RUNNING process the flag is written to process_table[-1], outside the
\* table and outside every variable of this model.
Yield(k) ==
  LET p == GetPid(k)
  IN Scheduling(IF p = -1 THEN k ELSE [k EXCEPT !.yielding[p] = 1])

\* Mutant: the block of a process that was not BLOCKED is not counted.
MarkBlocked_NotCounted(k, p) ==
  [k EXCEPT !.state[p] = "BLOCKED",
            !.blocks_amount[p] = IF k.state[p] = "BLOCKED" THEN @ + 1 ELSE @]

\* The two cases of block_process() before its yield().
MarkBlocked(k, p) == [k EXCEPT !.state[p] = "BLOCKED",
                               !.blocks_amount[p] = @ + 1]

BlockProcess(k, p) ==
  IF IsPidValid(k, p) /\ k.state[p] # "ZOMBIE"
  THEN Yield(MarkBlocked(k, p))
  ELSE k

\* Mutant: the count is compared before it is decremented.
UnblockProcess_OneMore(k, p) ==
  IF ~IsPidValid(k, p) \/ k.state[p] # "BLOCKED"
  THEN k
  ELSE [k EXCEPT !.blocks_amount[p] = @ - 1,
                 !.state[p] = IF k.blocks_amount[p] >= 1 THEN @ ELSE "READY"]

\* unblock_process(): only the last of the nested unblocks wakes it up.
UnblockProcess(k, p) ==
  IF ~IsPidValid(k, p) \/ k.state[p] # "BLOCKED"
  THEN k
  ELSE [k EXCEPT !.blocks_amount[p] = @ - 1,
                 !.state[p] = IF k.blocks_amount[p] > 1 THEN @ ELSE "READY"]

\* get_max_time_for_priority()
MaxTimeForPriority(prio) ==
  CASE prio = 0 -> QUANTUM * 625
    [] prio = 1 -> QUANTUM * 125
    [] prio = 2 -> QUANTUM * 25
    [] prio = 3 -> QUANTUM * 5
    [] OTHER    -> QUANTUM

BeNice(k, p, prio) ==
  IF IsPidValid(k, p) /\ prio \in Levels /\ k.state[p] # "ZOMBIE" /\ p # IDLE_PID
  THEN [k EXCEPT !.my_max_time[p] = MaxTimeForPriority(prio)]
  ELSE k

-----------------------------------------------------------------------------
(* The processes exist and none but the shell, the first of them, has run: *)
(* the state in which a shell has just created the others.                 *)

FirstProc == Least(Procs)

SchedInit ==
  /\ state = [p \in Slots |-> CASE p = IDLE_PID -> "BLOCKED"
                                [] p = FirstProc -> "RUNNING"
                                [] p \in Procs \ {FirstProc} -> "READY"
                                [] OTHER         -> "INVALID"]
  /\ blocks_amount = [p \in Slots |-> 0]
  /\ time_used = [p \in Slots |-> 0]
  /\ my_max_time = [p \in Slots |-> IF p = IDLE_PID THEN IDLE_Q ELSE QUANTUM]
  /\ yielding = [p \in Slots |-> 0]
  /\ current_index = FirstProc

\* The timer interrupt, over whatever process is running.
TimerTick == KernelBecomes(Scheduling(Kernel))

\* The process that makes a system call is the one on the CPU; the idle
\* process only halts.
Caller == current_index
UserRuns == Caller # IDLE_PID /\ CurrentRuns(Kernel)

SysYield == UserRuns /\ KernelBecomes(Yield(Kernel))

\* sys_block_process on any process; on itself it is the call that wait()
\* and sem_wait() make.
SysBlock(p) == /\ UserRuns
               /\ blocks_amount[p] < MaxBlocks
               /\ KernelBecomes(BlockProcess(Kernel, p))

\* The command unblock accepts the idle process too, and lets its
\* blocks_amount fall below zero.
SysUnblock(p) == /\ UserRuns
                 /\ blocks_amount[p] > -MaxBlocks
                 /\ KernelBecomes(UnblockProcess(Kernel, p))

SysBeNice(p, prio) == UserRuns /\ KernelBecomes(BeNice(Kernel, p, prio))

SchedNext ==
  \/ TimerTick
  \/ SysYield
  \/ \E p \in Slots : SysBlock(p) \/ SysUnblock(p)
  \/ \E p \in Slots, prio \in Prios : SysBeNice(p, prio)

SchedSpec == SchedInit /\ [][SchedNext]_schedVars

\* The timer is hardware: it interrupts whoever runs, again and again.
FairSchedSpec == SchedSpec /\ WF_schedVars(TimerTick)

-----------------------------------------------------------------------------

SchedTypeOK ==
  /\ state \in [Slots -> ProcessState]
  /\ blocks_amount \in [Slots -> Int]
  /\ time_used \in [Slots -> Nat]
  /\ my_max_time \in [Slots -> Nat \ {0}]
  /\ yielding \in [Slots -> {0, 1}]
  /\ current_index \in Slots

\* get_pid() scans the table for a RUNNING process while scheduling() goes by
\* current_index; the two name the same process, so no system call is charged
\* to, blocks or yields for another process than its caller.
GetPidIsCurrent == RunningSlots(Kernel) = {current_index}

\* block_process() and unblock_process() nest: a process is BLOCKED exactly
\* while blocks of it are pending.  The idle process, which scheduling()
\* blocks and dispatches by itself, is the exception.
BlockedIffCounted ==
  \A p \in Slots \ {IDLE_PID} :
    /\ state[p] = "BLOCKED" => blocks_amount[p] > 0
    /\ state[p] \in {"READY", "RUNNING"} => blocks_amount[p] = 0

\* A BLOCKED idle process is given the CPU only when no process is READY.
IdleIsLastResort ==
  [][ (state[IDLE_PID] = "BLOCKED" /\ state'[IDLE_PID] = "RUNNING")
         => \A p \in Slots : state'[p] # "READY" ]_schedVars

\* Round robin starves nobody: a process that is blocked only finitely often
\* runs infinitely often.
NoStarvation ==
  \A p \in Procs : <>[](state[p] # "BLOCKED") => []<>(state[p] = "RUNNING")

=============================================================================
