----------------------------- MODULE TestPrograms -----------------------------
(***************************************************************************)
(* The three test programs that drive the scheduler and the process calls: *)
(* test-sync (module SyncTest), test-prio and test-pcs.  The shell has     *)
(* started one of them; as in SyncTest, SHELL_PID names the process that   *)
(* runs it.                                                                *)
(*                                                                         *)
(* pids, waited and pc are the local variables of the program that runs:   *)
(* its array of pids, its loop index i and where it is.  A message on the  *)
(* screen is left out, and so is the exit after the last one: the program  *)
(* stops at "print", or at "error" when it has reported a failed call.     *)
(***************************************************************************)
EXTENDS SyncTest, Sequences

CONSTANTS TOTAL_PROCESSES,  \* children of each round of test-prio
          MaxProcesses      \* the arguments max_processes test-pcs is given

ASSUME TestAssumption == TOTAL_PROCESSES \in 1 .. 5 /\ MaxProcesses \subseteq Nat \ {0}

VARIABLES program,  \* the test that runs
          max,      \* max_processes of test-pcs
          round,    \* the round of test-prio
          rq        \* p_rqs[].state of test-pcs

choiceVars == <<program, max>>
testVars == <<syncVars, choiceVars, round, rq>>

\* prio[]: LOWEST, MEDIUM_3, MEDIUM_2, MEDIUM, HIGHEST
prio == <<4, 3, 2, 1, 0>>

\* Neither test uses the semaphores nor the variables of slowInc().
OthersStay == SemStays /\ UNCHANGED <<choiceVars, inc, done, aux, global>>

\* create_process(): the child starts at l; the pid is the next of the array.
Creates(l, next) ==
  LET q == Least(FreeSlots(Kernel)) IN
    /\ SysCreate /\ state'[q] = "READY"
    /\ pids' = Append(pids, q)
    /\ pc' = [pc EXCEPT ![q] = l, ![Main] = next]

\* _wait(q, my_pid): -1 when the slot has been freed meanwhile.
WaitsFor(q) ==
  \/ SysWait(q)
  \/ ~IsPidValid(Kernel, q) /\ UNCHANGED procVars

-----------------------------------------------------------------------------
(* test_prio_new() and zero_to_max()                                       *)

NewPid == pids[Len(pids)]

\* Where a round goes on once a child has been dealt with.
AfterChild(n) ==
  IF n < TOTAL_PROCESSES THEN "prio_create"
  ELSE IF round = 3 THEN "prio_unblock" ELSE "prio_wait"

PrioCreates ==
  /\ At("prio_create")
  /\ Creates("count", CASE round = 1 -> AfterChild(Len(pids) + 1)
                        [] round = 2 -> "prio_nice"
                        [] round = 3 -> "prio_block")
  /\ OthersStay /\ UNCHANGED <<waited, round, rq>>

PrioBlocks ==
  /\ At("prio_block")
  /\ SysBlock(NewPid)
  /\ Goto(Main, "prio_nice")
  /\ TableStays /\ OthersStay /\ UNCHANGED <<pids, waited, round, rq>>

PrioIsNice ==
  /\ At("prio_nice")
  /\ SysBeNice(NewPid, prio[Len(pids)])
  /\ Goto(Main, AfterChild(Len(pids)))
  /\ TableStays /\ OthersStay /\ UNCHANGED <<pids, waited, round, rq>>

PrioUnblocks ==
  /\ At("prio_unblock")
  /\ SysUnblock(pids[waited + 1])
  /\ waited' = (waited + 1) % TOTAL_PROCESSES
  /\ Goto(Main, IF waited' = 0 THEN "prio_wait" ELSE "prio_unblock")
  /\ TableStays /\ OthersStay /\ UNCHANGED <<pids, round, rq>>

PrioWaits ==
  /\ At("prio_wait")
  /\ WaitsFor(pids[waited + 1])
  /\ IF waited + 1 < TOTAL_PROCESSES
     THEN waited' = waited + 1 /\ UNCHANGED <<pc, pids, round>>
     ELSE /\ waited' = 0
          /\ pids' = <<>>
          /\ round' = round + 1
          /\ Goto(Main, IF round = 3 THEN "print" ELSE "prio_create")
  /\ OthersStay /\ UNCHANGED rq

\* The loop of zero_to_max() comes to its end.
ChildCounts ==
  /\ At("count")
  /\ Goto(Caller, "exit")
  /\ SemStays /\ TableStays
  /\ UNCHANGED <<schedVars, pids, inc, waited, done, aux, global, choiceVars, round, rq>>

-----------------------------------------------------------------------------
(* test_processes_dummy(): its children never leave endless_loop().        *)

PcsCreates ==
  /\ At("pcs_create")
  /\ IF FreeSlots(Kernel) = {}
     THEN Goto(Main, "error") /\ UNCHANGED <<procVars, pids, rq>>
     ELSE /\ Creates("spin", IF Len(pids) + 1 = max THEN "pcs_act" ELSE "pcs_create")
          /\ rq' = Append(rq, "RUNNING")
  /\ OthersStay /\ UNCHANGED <<waited, round>>

\* The two inner loops of "while (alive > 0)" and the waits after it: the call
\* for process i is over and its new state is s.
Goes(s) ==
  LET i     == waited + 1
      newRq == [rq EXCEPT ![i] = s]
      alive == \E j \in DOMAIN rq : newRq[j] # "KILLED"
  IN /\ rq' = newRq
     /\ waited' = i % max
     /\ Goto(Main, IF i < max THEN pc[Main]
                   ELSE IF pc[Main] = "pcs_act" THEN "pcs_unblock"
                   ELSE IF alive THEN "pcs_act" ELSE "pcs_wait")
     /\ UNCHANGED <<pids, round>>

PcsFails == Goto(Main, "error") /\ UNCHANGED <<pids, waited, round, rq>>

\* Action 0; a process that is KILLED already is passed over, and of the
\* errors of kill_process() only -1 is looked at.
PcsKills ==
  /\ At("pcs_act")
  /\ LET q == pids[waited + 1] IN
       IF rq[waited + 1] = "KILLED" THEN Goes("KILLED") /\ UNCHANGED procVars
       ELSE IF ~IsPidValid(Kernel, q) THEN PcsFails /\ UNCHANGED procVars
       ELSE Goes("KILLED") /\ IF state[q] = "ZOMBIE" THEN UNCHANGED procVars
                                                     ELSE SysKill(q)
  /\ OthersStay

\* Action 1; only a process that is RUNNING is blocked.
PcsBlocks ==
  /\ At("pcs_act")
  /\ LET q == pids[waited + 1] IN
       IF rq[waited + 1] # "RUNNING" THEN Goes(rq[waited + 1]) /\ UNCHANGED schedVars
       ELSE IF IsPidValid(Kernel, q) /\ state[q] # "ZOMBIE"
       THEN SysBlock(q) /\ Goes("BLOCKED")
       ELSE PcsFails /\ UNCHANGED schedVars
  /\ TableStays /\ OthersStay

PcsUnblocks ==
  /\ At("pcs_unblock")
  /\ LET q == pids[waited + 1] IN
       \/ Goes(rq[waited + 1]) /\ UNCHANGED schedVars
       \/ /\ rq[waited + 1] = "BLOCKED"
          /\ IF IsPidValid(Kernel, q) /\ state[q] = "BLOCKED"
             THEN SysUnblock(q) /\ Goes("RUNNING")
             ELSE PcsFails /\ UNCHANGED schedVars
  /\ TableStays /\ OthersStay

PcsWaits ==
  /\ At("pcs_wait")
  /\ WaitsFor(pids[waited + 1])
  /\ IF waited + 1 < max
     THEN waited' = waited + 1 /\ UNCHANGED <<pc, pids, rq>>
     ELSE /\ waited' = 0
          /\ pids' = <<>>
          /\ rq' = <<>>
          /\ Goto(Main, "pcs_create")
  /\ OthersStay /\ UNCHANGED round

-----------------------------------------------------------------------------

PrioStep == \/ PrioCreates \/ PrioBlocks \/ PrioIsNice \/ PrioUnblocks
            \/ PrioWaits \/ ChildCounts

PcsStep == PcsCreates \/ PcsKills \/ PcsBlocks \/ PcsUnblocks \/ PcsWaits

SyncStep == (UserStep \/ SyncTick) /\ UNCHANGED <<choiceVars, round, rq>>

FirstLabel == [sync |-> "create", prio |-> "prio_create", pcs |-> "pcs_create"]

TestInit ==
  /\ program \in DOMAIN FirstLabel
  /\ max \in IF program = "pcs" THEN MaxProcesses ELSE {0}
  /\ SyncStart(FirstLabel[program])
  /\ round = 1
  /\ rq = <<>>

TestNext == SyncStep \/ PrioStep \/ PcsStep

TestSpec == TestInit /\ [][TestNext]_testVars

\* The CPU executes the program it is given, and the timer goes on.
FairTestSpec ==
  /\ TestSpec
  /\ WF_testVars((UserStep /\ UNCHANGED <<choiceVars, round, rq>>) \/ PrioStep \/ PcsStep)
  /\ WF_testVars(SyncTick /\ UNCHANGED <<choiceVars, round, rq>>)

-----------------------------------------------------------------------------

Over == pc[Main] = "print" /\ ~Waits(Main)

\* When test-sync or test-prio is over no child of it is left in the table,
\* whatever it was blocked, killed or waited for in between, and no semaphore
\* is open.
NothingLeftBehind ==
  Over => /\ \A n \in SemNames : ~sems[n].initialized
          /\ \A p \in Slots \ {IDLE_PID, Main} : state[p] = "INVALID"

\* What test-pcs believes of a process it has created (RUNNING, BLOCKED or
\* KILLED) is what the process table says, at every instant between the kills,
\* blocks and unblocks it gives at random; so none of them reports an error
\* and the test stops for lack of a slot only.
BeliefsHold ==
  /\ pc[Main] = "error" => FreeSlots(Kernel) = {}
  /\ program = "pcs" /\ ~Waits(Main) /\ pc[Main] # "pcs_wait" =>
       \A i \in DOMAIN rq :
         /\ rq[i] = "RUNNING" <=> state[pids[i]] \in {"READY", "RUNNING"}
         /\ rq[i] = "BLOCKED" <=> state[pids[i]] = "BLOCKED"

\* Nobody waits for ever: test-sync and test-prio come to their end.
TestEnds == program # "pcs" => <>Over

=============================================================================
