------------------------------- MODULE Process -------------------------------
(***************************************************************************)
(* Creation, death and wait() of Kernel/proc.c, over the scheduler.        *)
(*                                                                         *)
(* Family is the record of the PCB fields that relate processes, as Kernel *)
(* is of those the scheduler uses; an operator takes and returns the       *)
(* record whose fields the C code writes.  A freed PCB has no fields: the  *)
(* slot keeps "INVALID" and the values a fresh PCB would have.             *)
(*                                                                         *)
(* The population is Procs = {SHELL_PID} when the idle process has created *)
(* the shell.  Processes whose descriptors are no pipes are modelled, so   *)
(* kill_pipes() and kill_mvar() have nothing to close.                     *)
(***************************************************************************)
EXTENDS Scheduler, FiniteSets

CONSTANTS SHELL_PID,   \* slot of the shell
          Creators,    \* slots whose processes create processes and wait
          Targets,     \* pids the commands block, unblock and kill are given
          ShellExits   \* whether the user may leave the shell with exit

ASSUME ShellAssumption == Procs = {SHELL_PID} /\ IDLE_PID < SHELL_PID
ASSUME TargetsAssumption == Targets \subseteq Slots /\ Creators \subseteq Slots

VARIABLES parent_pid,       \* PCB.parent_pid, NoPid when created with none
          childs,           \* PCB.childs
          child_amount,     \* PCB.child_amount
          dad_blocked,      \* PCB.dad_blocked: somebody called wait() on it
          active_processes,
          waiting,          \* the target of the wait() a process is inside of
          dangling          \* that target's PCB has been freed meanwhile

familyVars == <<parent_pid, childs, child_amount, dad_blocked, active_processes>>
procVars == <<schedVars, familyVars, waiting, dangling>>

NoPid == -1
NoChilds == [i \in Slots |-> NoPid]

Family == [parent_pid |-> parent_pid, childs |-> childs,
           child_amount |-> child_amount, dad_blocked |-> dad_blocked,
           active_processes |-> active_processes]

FamilyBecomes(f) ==
  \E r \in {f} : /\ parent_pid' = r.parent_pid
                 /\ childs' = r.childs
                 /\ child_amount' = r.child_amount
                 /\ dad_blocked' = r.dad_blocked
                 /\ active_processes' = r.active_processes

-----------------------------------------------------------------------------
(* Freeing a PCB: process_table[q] = NULL, whatever q was doing.           *)

FreeKernel(k, q) ==
  [k EXCEPT !.state[q] = "INVALID", !.blocks_amount[q] = 0, !.time_used[q] = 0,
            !.my_max_time[q] = QUANTUM, !.yielding[q] = 0]

FreeFamily(f, q) ==
  [f EXCEPT !.parent_pid[q] = NoPid, !.childs[q] = NoChilds,
            !.child_amount[q] = 0, !.dad_blocked[q] = 0]

-----------------------------------------------------------------------------
(* create_process()                                                        *)

FreeSlots(k) == {p \in Slots : k.state[p] \in {"INVALID", "ZOMBIE"}}

\* Mutant: the new PCB keeps the block count of the one it replaces.
NewKernel_StaleBlocks(k, q) ==
  [FreeKernel(k, q) EXCEPT !.state[q] = "READY",
                           !.blocks_amount[q] = k.blocks_amount[q]]

NewKernel(k, q) == [FreeKernel(k, q) EXCEPT !.state[q] = "READY"]

\* parent->childs[i] = my_pid at the first free i.
AddChild(f, p, q) ==
  LET free == {i \in Slots : f.childs[p][i] = NoPid}
  IN IF free = {} THEN f
     ELSE [f EXCEPT !.childs[p][Least(free)] = q, !.child_amount[p] = @ + 1]

NewFamily(k, f, q) ==
  LET g == [FreeFamily(f, q) EXCEPT !.parent_pid[q] = GetPid(k),
                                    !.active_processes = @ + 1]
  IN IF IsPidValid(k, GetPid(k)) THEN AddChild(g, GetPid(k), q) ELSE g

-----------------------------------------------------------------------------
(* kill_process()                                                          *)

LastWish(k, p) == Scheduling([k EXCEPT !.yielding[p] = 1])

\* Leaving the shell takes every later slot with it.
Sweep(k) ==
  [k EXCEPT !.state = [q \in Slots |->
                         IF q > SHELL_PID /\ k.state[q] # "INVALID"
                         THEN "ZOMBIE" ELSE k.state[q]]]

\* Mutant: dad_blocked is not looked at.
WakeParent_Always(k, f, p) == UnblockProcess(k, f.parent_pid[p])

\* Mutant: the parent is not woken up.
WakeParent_Never(k, f, p) == k

WakeParent(k, f, p) ==
  IF f.dad_blocked[p] = 1 THEN UnblockProcess(k, f.parent_pid[p]) ELSE k

\* Mutant: the PCB is freed at once.
KillKernel_FreesNow(k, f, p) ==
  LastWish(FreeKernel(WakeParent([k EXCEPT !.state[p] = "ZOMBIE"], f, p), p), p)

KillKernel(k, f, p) ==
  LET z == WakeParent([k EXCEPT !.state[p] = "ZOMBIE"], f, p)
  IN LastWish(IF p = SHELL_PID THEN Sweep(z) ELSE z, p)

\* Mutant: the entry goes, the count stays.
RemoveChild_NotCounted(k, f, p) ==
  LET dad == f.parent_pid[p]
      at  == {i \in Slots : f.childs[dad][i] = p}
  IN IF ~IsPidValid(k, dad) \/ at = {} THEN f
     ELSE [f EXCEPT !.childs[dad][Least(at)] = NoPid]

\* The parent, when its slot is in use, forgets the child.
RemoveChild(k, f, p) ==
  LET dad == f.parent_pid[p]
      at  == {i \in Slots : f.childs[dad][i] = p}
  IN IF ~IsPidValid(k, dad) \/ at = {} THEN f
     ELSE [f EXCEPT !.childs[dad][Least(at)] = NoPid, !.child_amount[dad] = @ - 1]

\* The first child_amount entries of the list go to the idle process, whether
\* they hold a child or not: an empty one is process_table[-1], outside of
\* this model but for the entry it takes of the idle process's list.
Adopt(k, f, p) ==
  LET n     == f.child_amount[p]
      first == {f.childs[p][i] : i \in {j \in Slots : j < n}}
      room  == f.child_amount[IDLE_PID]
  IN [f EXCEPT
        !.parent_pid = [q \in Slots |-> IF q \in first /\ IsPidValid(k, q)
                                        THEN IDLE_PID ELSE f.parent_pid[q]],
        !.childs[IDLE_PID] = [i \in Slots |-> IF i >= room /\ i < room + n
                                              THEN f.childs[p][i - room]
                                              ELSE f.childs[IDLE_PID][i]],
        !.child_amount[IDLE_PID] = room + n]

\* Mutant: active_processes is left alone.
KillFamily_NotCounted(k, f, p) ==
  [Adopt(k, RemoveChild(k, f, p), p) EXCEPT !.child_amount[p] = 0]

KillFamily(k, f, p) ==
  [Adopt(k, RemoveChild(k, f, p), p)
     EXCEPT !.child_amount[p] = 0, !.active_processes = @ - 1]

-----------------------------------------------------------------------------
(* The system calls.  A process that comes back from the block of wait()   *)
(* runs the rest of it with interrupts off, before anything else happens.  *)

InWait == CurrentRuns(Kernel) /\ waiting[Caller] # NoPid

\* q's PCB is freed: a wait() that still points to it dangles.
Freed(q) == dangling' = [p \in Slots |-> dangling[p] \/ waiting[p] = q]

\* (No program is named "wait", after whose creation the creator would yield.)
SysCreate ==
  /\ UserRuns /\ ~InWait /\ Caller \in Creators
  /\ FreeSlots(Kernel) # {}
  /\ active_processes < MAX_PCS  \* bound: a count that has drifted upwards
  /\ LET q == Least(FreeSlots(Kernel)) IN
       /\ \/ /\ KernelBecomes(NewKernel(Kernel, q))
             /\ FamilyBecomes(NewFamily(Kernel, Family, q))
          \/ \* alloc() returned NULL: a reaped slot stays empty
             /\ KernelBecomes(FreeKernel(Kernel, q))
             /\ FamilyBecomes(FreeFamily(Family, q))
       /\ Freed(q)
  /\ UNCHANGED waiting

Kill(p) ==
  /\ ~InWait
  /\ IsPidValid(Kernel, p) /\ state[p] # "ZOMBIE"
  /\ child_amount[IDLE_PID] + child_amount[p] <= MAX_PCS  \* bound: its list
  /\ blocks_amount[IDLE_PID] > -MaxBlocks  \* bound: an orphan may unblock it
  /\ KernelBecomes(KillKernel(Kernel, Family, p))
  /\ FamilyBecomes(KillFamily(Kernel, Family, p))
  /\ waiting' = [q \in Slots |-> IF state'[q] = "ZOMBIE" THEN NoPid ELSE waiting[q]]
  /\ dangling' = [q \in Slots |-> state'[q] # "ZOMBIE" /\ dangling[q]]

SysExit == UserRuns /\ (Caller = SHELL_PID => ShellExits) /\ Kill(Caller)

\* The command kill refuses the shell and the idle process.
SysKill(p) == UserRuns /\ p \notin {SHELL_PID, IDLE_PID} /\ Kill(p)

\* The keyboard interrupt kills foreground_pid, which is never the shell, over
\* whatever process is running.
CtrlC(p) == p \notin {SHELL_PID, IDLE_PID} /\ Kill(p)

\* Processes wait for processes they have created.
SysWait(q) ==
  /\ UserRuns /\ ~InWait /\ q # Caller
  /\ IsPidValid(Kernel, q) /\ parent_pid[q] = Caller
  /\ IF state[q] = "ZOMBIE"
     THEN /\ KernelBecomes(FreeKernel(Kernel, q))
          /\ FamilyBecomes(FreeFamily(Family, q))
          /\ Freed(q)
          /\ UNCHANGED waiting
     ELSE /\ KernelBecomes(BlockProcess(Kernel, Caller))
          /\ FamilyBecomes([Family EXCEPT !.dad_blocked[q] = 1])
          /\ waiting' = [waiting EXCEPT ![Caller] = q]
          /\ UNCHANGED dangling

\* The rest of wait(), on the PCB pointer it took before it blocked.
WaitReturns ==
  /\ InWait
  /\ LET q == waiting[Caller] IN
       /\ KernelBecomes(FreeKernel(Kernel, q))
       /\ FamilyBecomes(FreeFamily(Family, q))
       /\ waiting' = [waiting EXCEPT ![Caller] = NoPid, ![q] = NoPid]
       /\ dangling' = [p \in Slots |-> /\ p \notin {Caller, q}
                                       /\ dangling[p] \/ waiting[p] = q]

\* What the processes do to the scheduler alone.
SchedStep ==
  /\ ~InWait
  /\ \/ TimerTick
     \/ SysYield
     \/ \E p \in Targets : SysBlock(p) \/ SysUnblock(p)
     \/ \E p \in Targets, prio \in Prios : SysBeNice(p, prio)
  /\ UNCHANGED <<familyVars, waiting, dangling>>

ProcInit ==
  /\ SchedInit
  /\ parent_pid = [p \in Slots |-> IF p = SHELL_PID THEN IDLE_PID ELSE NoPid]
  /\ childs = [p \in Slots |-> IF p = IDLE_PID
                               THEN [NoChilds EXCEPT ![0] = SHELL_PID]
                               ELSE NoChilds]
  /\ child_amount = [p \in Slots |-> IF p = IDLE_PID THEN 1 ELSE 0]
  /\ dad_blocked = [p \in Slots |-> 0]
  /\ active_processes = 2
  /\ waiting = [p \in Slots |-> NoPid]
  /\ dangling = [p \in Slots |-> FALSE]

ProcNext ==
  \/ SchedStep
  \/ SysCreate
  \/ SysExit
  \/ \E p \in Targets : SysKill(p) \/ CtrlC(p)
  \/ \E q \in Slots : SysWait(q)
  \/ WaitReturns

ProcSpec == ProcInit /\ [][ProcNext]_procVars

-----------------------------------------------------------------------------

Live(p) == state[p] \in {"READY", "RUNNING", "BLOCKED"}
Waits(p) == waiting[p] # NoPid

\* wait() uses the PCB it took before it blocked: until it returns, that PCB
\* is the one in the table, and it is a child of the waiter.
WaitTargetKept ==
  \A p \in Slots : Waits(p) =>
    /\ ~dangling[p]
    /\ state[waiting[p]] # "INVALID"
    /\ parent_pid[waiting[p]] = p

\* The block of wait() lasts as long as its target lives: no wake-up is lost
\* (the target has exited, the waiter sleeps on) and none comes too soon.
WaitBlocksWhileLive ==
  \A p \in Slots : Waits(p) => (state[p] = "BLOCKED" <=> Live(waiting[p]))

\* The lists of children and the parent_pid fields say the same: a live
\* process is once in its parent's list, which holds child_amount processes.
FamilyAgrees ==
  /\ \A p \in Slots : Live(p) /\ parent_pid[p] # NoPid =>
       \E i \in Slots : \A j \in Slots : (childs[parent_pid[p]][j] = p) <=> (i = j)
  /\ \A p \in Slots : Live(p) =>
       \E held \in SUBSET Slots :
         /\ held = {childs[p][i] : i \in Slots} \ {NoPid}
         /\ \A q \in held : Live(q) /\ parent_pid[q] = p
         /\ child_amount[p] = Cardinality(held)

\* "procesos q no estan ZOMBIE", the comment on active_processes.
ActiveCount == active_processes = Cardinality({p \in Slots : Live(p)})

\* "ya se desbloqueo asiq el hijo es libre": what wait() frees has exited.
WaitFreesExited ==
  [][WaitReturns => state[waiting[Caller]] = "ZOMBIE"]_procVars

\* Seen by its users, the process table is the life cycle of Lifecycle.
PhaseOf(s) == CASE s = "INVALID" -> "free"
                [] s = "ZOMBIE"  -> "exited"
                [] OTHER         -> "live"

Life == INSTANCE Lifecycle WITH Pids    <- Slots,
                                phase   <- [p \in Slots |-> PhaseOf(state[p])],
                                joining <- waiting
ImplementsLifecycle == Life!Spec

=============================================================================
