------------------------------- MODULE SyncTest -------------------------------
(***************************************************************************)
(* The program test-sync, over the whole of the scheduler, the process     *)
(* calls and the semaphores: pairs of processes that add 1 and -1 to a     *)
(* shared variable, one of them giving up the CPU between its read and its *)
(* write.                                                                  *)
(*                                                                         *)
(* The process SHELL_PID names runs test_sync_dummy(); the shell proper,   *)
(* blocked in wait() for it all along, is left out.  What a program does   *)
(* between two system calls is an action, so that the timer can interrupt  *)
(* it anywhere.                                                            *)
(***************************************************************************)
EXTENDS Process, Semaphore

CONSTANTS PAIRS,     \* TOTAL_PAIR_PROCESSES
          LOOPS,     \* the argument n: increments of each process
          USE_SEM,   \* the argument use_sem
          SEM_ID     \* the name of its semaphore

ASSUME SyncAssumption == PAIRS \in Nat \ {0} /\ LOOPS \in Nat \ {0} /\ SEM_ID \in SemNames

VARIABLES pc,      \* what each process does next
          pids,    \* pids[] of test_sync_dummy(), in order of creation
          inc,     \* the argument inc of each process
          waited,  \* how many of them it has waited for
          done,    \* increments each process has made
          aux,     \* aux of slowInc()
          global   \* the shared variable

progVars == <<pc, pids, inc, waited, done, aux, global>>
syncVars == <<procVars, sems, progVars>>

Main == SHELL_PID

Goto(p, l) == pc' = [pc EXCEPT ![p] = l]

\* The process on the CPU is at l, in user mode.
At(l) == UserRuns /\ ~InWait /\ pc[Caller] = l

SemStays == UNCHANGED sems
TableStays == UNCHANGED <<familyVars, waiting, dangling>>

-----------------------------------------------------------------------------
(* test_sync_dummy()                                                       *)

\* alloc() is taken to succeed here; argvDec and argvInc alternate.  The slot
\* of a child that has exited already may be given to the next one, and its
\* pid is then twice in pids[].
MainCreates ==
  /\ At("create")
  /\ LET q == Least(FreeSlots(Kernel)) IN
       /\ SysCreate /\ state'[q] = "READY"
       /\ pids' = Append(pids, q)
       /\ pc' = [pc EXCEPT ![q] = IF USE_SEM THEN "open" ELSE "read",
                           ![Main] = IF Len(pids) + 1 = 2 * PAIRS
                                     THEN "wait" ELSE "create"]
       /\ done' = [done EXCEPT ![q] = 0]
       /\ inc' = [inc EXCEPT ![q] = IF Len(pids) % 2 = 0 THEN -1 ELSE 1]
  /\ SemStays /\ UNCHANGED <<waited, aux, global>>

MainWaits ==
  /\ At("wait")
  /\ LET q == pids[waited + 1]
     IN \/ SysWait(q)
        \/ ~IsPidValid(Kernel, q) /\ UNCHANGED procVars  \* wait() returns -1
  /\ waited' = waited + 1
  /\ Goto(Main, IF waited + 1 = 2 * PAIRS THEN "print" ELSE "wait")
  /\ SemStays /\ UNCHANGED <<pids, inc, done, aux, global>>

Returns == WaitReturns /\ SemStays /\ UNCHANGED progVars

-----------------------------------------------------------------------------
(* my_process_inc()                                                        *)

WorkerOpens ==
  /\ At("open")
  /\ SysSemOpen(SEM_ID, 1)
  /\ Goto(Caller, IF SemOpenResult(sems, SEM_ID) = -2 THEN "exit" ELSE "enter")
  /\ TableStays /\ UNCHANGED <<pids, inc, waited, done, aux, global>>

WorkerEnters ==
  /\ At("enter")
  /\ SysSemWait(SEM_ID)
  /\ Goto(Caller, IF sems[SEM_ID].initialized THEN "read" ELSE "exit")
  /\ TableStays /\ UNCHANGED <<pids, inc, waited, done, aux, global>>

WorkerReads ==
  /\ At("read")
  /\ aux' = [aux EXCEPT ![Caller] = global]
  /\ Goto(Caller, "yield")
  /\ SemStays /\ TableStays /\ UNCHANGED <<schedVars, pids, inc, waited, done, global>>

WorkerYields ==
  /\ At("yield")
  /\ SysYield
  /\ Goto(Caller, "write")
  /\ SemStays /\ TableStays /\ UNCHANGED <<pids, inc, waited, done, aux, global>>

WorkerWrites ==
  /\ At("write")
  /\ global' = aux[Caller] + inc[Caller]
  /\ done' = [done EXCEPT ![Caller] = @ + 1]
  /\ Goto(Caller, IF USE_SEM THEN "leave"
                  ELSE IF done[Caller] + 1 < LOOPS THEN "read" ELSE "exit")
  /\ SemStays /\ TableStays /\ UNCHANGED <<schedVars, pids, inc, waited, aux>>

WorkerLeaves ==
  /\ At("leave")
  /\ SysSemPost(SEM_ID)
  /\ Goto(Caller, IF ~sems[SEM_ID].initialized THEN "exit"
                  ELSE IF done[Caller] < LOOPS THEN "enter" ELSE "close")
  /\ TableStays /\ UNCHANGED <<pids, inc, waited, done, aux, global>>

WorkerCloses ==
  /\ At("close")
  /\ SysSemClose(SEM_ID)
  /\ Goto(Caller, "exit")
  /\ TableStays /\ UNCHANGED <<pids, inc, waited, done, aux, global>>

WorkerExits ==
  /\ At("exit")
  /\ SysExit
  /\ Goto(Caller, "gone")
  /\ SemStays /\ UNCHANGED <<pids, inc, waited, done, aux, global>>

-----------------------------------------------------------------------------

SyncTick == ~InWait /\ TimerTick /\ TableStays /\ SemStays /\ UNCHANGED progVars

UserStep ==
  \/ MainCreates \/ MainWaits \/ Returns
  \/ WorkerOpens \/ WorkerEnters
  \/ WorkerReads \/ WorkerYields \/ WorkerWrites
  \/ WorkerLeaves \/ WorkerCloses \/ WorkerExits

\* The main process of the program is at l and has created nobody.
SyncStart(l) ==
  /\ ProcInit /\ SemInit
  /\ pc = [p \in Slots |-> IF p = Main THEN l ELSE "gone"]
  /\ pids = <<>>
  /\ inc = [p \in Slots |-> 0]
  /\ waited = 0
  /\ done = [p \in Slots |-> 0]
  /\ aux = [p \in Slots |-> 0]
  /\ global = 0

-----------------------------------------------------------------------------

Inside == {p \in Slots : Live(p) /\ pc[p] \in {"read", "yield", "write", "leave"}
                                 /\ state[p] # "BLOCKED"}

\* The semaphore keeps all but one process out of slowInc().
MutualExclusion == Cardinality(Inside) <= 1

\* "Valor final (deberia ser 0 si usaste sem)".
FinalValueIsZero == pc[Main] = "print" /\ ~Waits(Main) => global = 0

=============================================================================
