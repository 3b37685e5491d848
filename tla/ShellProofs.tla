----------------------------- MODULE ShellProofs -----------------------------
(***************************************************************************)
(* What create, kill and wait() leave of the scheduler's promises, for     *)
(* every table size, every set of creators and targets, and with the shell *)
(* left or not.  The lemmas on the scheduler are those of SchedulerProofs; *)
(* the first ones here are about PCBs that appear and disappear.           *)
(*                                                                         *)
(* Then what wait() promises while the shell is the only process that      *)
(* creates others, and waits for them: the sessions in which no program of *)
(* src/Userland that creates processes is run.  With a second creator the  *)
(* promises fail, as the run process_reuse shows.  The shell may be left   *)
(* with exit; what is said of the counts and lists of children needs it to *)
(* stay, because the exit of the shell ends the others without them.       *)
(***************************************************************************)
EXTENDS Process, SchedulerProofs, FiniteSetTheorems

-----------------------------------------------------------------------------
\* Whoever is freed, it is not the process that runs.
LEMMA FreeKernelFacts ==
  ASSUME NEW k, Settled(k), NEW q \in Slots, q # k.current_index
  PROVE  LET r == FreeKernel(k, q)
         IN  /\ Settled(r)
             /\ r.current_index = k.current_index
             /\ r.state[q] = "INVALID" /\ r.blocks_amount[q] = 0
             /\ \A p \in Slots \ {q} : /\ r.state[p] = k.state[p]
                                       /\ r.blocks_amount[p] = k.blocks_amount[p]
<1> DEFINE r == FreeKernel(k, q)
<1>1. k \in KernelType /\ k.current_index \in Slots
  BY DEF Settled, KernelType
<1>2. /\ r \in KernelType
      /\ r.current_index = k.current_index
      /\ r.state[q] = "INVALID" /\ r.blocks_amount[q] = 0
      /\ \A p \in Slots \ {q} : /\ r.state[p] = k.state[p]
                                /\ r.blocks_amount[p] = k.blocks_amount[p]
  <2> DEFINE s == [k.state EXCEPT ![q] = "INVALID"]
             b == [k.blocks_amount EXCEPT ![q] = 0]
             t == [k.time_used EXCEPT ![q] = 0]
             m == [k.my_max_time EXCEPT ![q] = QUANTUM]
             y == [k.yielding EXCEPT ![q] = 0]
  <2>1. r = [k EXCEPT !.state = s, !.blocks_amount = b, !.time_used = t,
                      !.my_max_time = m, !.yielding = y]
    BY <1>1 DEF FreeKernel, KernelType
  <2>2. s \in [Slots -> ProcessState] /\ b \in [Slots -> Int]
    BY <1>1 DEF KernelType, ProcessState
  <2>3. t \in [Slots -> Nat] /\ m \in [Slots -> Nat \ {0}] /\ y \in [Slots -> {0, 1}]
    BY <1>1, TimeAssumption DEF KernelType
  <2>4. /\ s[q] = "INVALID" /\ b[q] = 0
        /\ \A p \in Slots \ {q} : s[p] = k.state[p] /\ b[p] = k.blocks_amount[p]
    BY <1>1 DEF KernelType
  <2> HIDE DEF r, s, b, t, m, y
  <2> QED BY <1>1, <2>1, <2>2, <2>3, <2>4 DEF KernelType
<1> HIDE DEF r
<1>3. RunningSlots(r) = {r.current_index}
  BY <1>1, <1>2 DEF Settled, RunningSlots
<1>4. Counted(r)
  BY <1>2 DEF Settled, Counted
<1> QED BY <1>2, <1>3, <1>4 DEF Settled, r

LEMMA NewKernelFacts ==
  ASSUME NEW k, Settled(k), NEW q \in Slots, q # k.current_index
  PROVE  LET n == NewKernel(k, q)
         IN  /\ Settled(n)
             /\ n.state[q] = "READY"
             /\ \A p \in Slots \ {q} : /\ n.state[p] = k.state[p]
                                       /\ n.blocks_amount[p] = k.blocks_amount[p]
<1> DEFINE r == FreeKernel(k, q)
           n == [r EXCEPT !.state[q] = "READY"]
<1>1. /\ Settled(r) /\ r.current_index = k.current_index /\ r.blocks_amount[q] = 0
      /\ \A p \in Slots \ {q} : /\ r.state[p] = k.state[p]
                                /\ r.blocks_amount[p] = k.blocks_amount[p]
  BY FreeKernelFacts
<1> HIDE DEF r
<1>2. /\ n \in KernelType
      /\ n.current_index = k.current_index
      /\ n.blocks_amount = r.blocks_amount
      /\ n.state[q] = "READY"
      /\ \A p \in Slots \ {q} : n.state[p] = r.state[p]
  BY <1>1 DEF Settled, KernelType, ProcessState
<1>3. NewKernel(k, q) = n
  BY DEF NewKernel, r
<1> HIDE DEF n
<1>4. RunningSlots(n) = {n.current_index}
  BY <1>1, <1>2 DEF Settled, RunningSlots
<1>5. Counted(n)
  <2> SUFFICES ASSUME NEW p \in Slots \ {IDLE_PID}
               PROVE  /\ n.state[p] = "BLOCKED" => n.blocks_amount[p] > 0
                      /\ n.state[p] \in {"READY", "RUNNING"} => n.blocks_amount[p] = 0
    BY DEF Counted
  <2>1. CASE p = q
    BY <1>1, <1>2, <2>1
  <2>2. CASE p # q
    BY <1>1, <1>2, <2>2 DEF Settled, Counted
  <2> QED BY <2>1, <2>2
<1> QED BY <1>1, <1>2, <1>3, <1>4, <1>5 DEF Settled

\* Turning processes into zombies leaves a table that the context switch at
\* the end of kill_process() can be given.
LEMMA ZombiesCoherent ==
  ASSUME NEW k, Coherent(k), NEW Z \in SUBSET Slots
  PROVE  Coherent([k EXCEPT !.state = [q \in Slots |-> IF q \in Z THEN "ZOMBIE"
                                                       ELSE k.state[q]]])
<1> DEFINE s == [q \in Slots |-> IF q \in Z THEN "ZOMBIE" ELSE k.state[q]]
           z == [k EXCEPT !.state = s]
<1>1. k \in KernelType
  BY DEF Coherent
<1>2. s \in [Slots -> ProcessState]
  BY <1>1 DEF KernelType, ProcessState
<1>3. \A q \in Slots : s[q] = k.state[q] \/ s[q] = "ZOMBIE"
  OBVIOUS
<1> HIDE DEF s
<1>4. /\ z \in KernelType
      /\ z.state = s
      /\ z.blocks_amount = k.blocks_amount
      /\ z.current_index = k.current_index
  BY <1>1, <1>2 DEF KernelType
<1> HIDE DEF z
<1>5. NoOtherRuns(z)
  BY <1>3, <1>4 DEF Coherent, NoOtherRuns, RunningSlots
<1>6. Counted(z)
  <2> SUFFICES ASSUME NEW p \in Slots \ {IDLE_PID}
               PROVE  /\ z.state[p] = "BLOCKED" => z.blocks_amount[p] > 0
                      /\ z.state[p] \in {"READY", "RUNNING"} => z.blocks_amount[p] = 0
    BY DEF Counted
  <2>1. CASE s[p] = "ZOMBIE"
    BY <1>4, <2>1
  <2>2. CASE s[p] = k.state[p]
    BY <1>4, <2>2 DEF Coherent, Counted
  <2> QED BY <1>3, <2>1, <2>2
<1> QED BY <1>4, <1>5, <1>6 DEF Coherent, z, s

LEMMA WakeParentFacts ==
  ASSUME NEW k, Coherent(k), NEW f, NEW p \in Slots
  PROVE  Coherent(WakeParent(k, f, p))
<1> DEFINE dad == f.parent_pid[p]
<1>1. CASE dad \in Slots
  <2>1. Coherent(UnblockProcess(k, dad))
    BY <1>1, UnblockProcessFacts DEF Coherent, NoOtherRuns
  <2> QED BY <2>1 DEF WakeParent
<1>2. CASE dad \notin Slots
  <2>1. UnblockProcess(k, dad) = k
    BY <1>2 DEF UnblockProcess, IsPidValid
  <2> QED BY <2>1 DEF WakeParent
<1> QED BY <1>1, <1>2

LEMMA LastWishFacts ==
  ASSUME NEW k, Coherent(k), NEW p \in Slots
  PROVE  Settled(LastWish(k, p))
<1> DEFINE y == [k EXCEPT !.yielding[p] = 1]
<1>1. /\ y \in KernelType
      /\ y.state = k.state
      /\ y.blocks_amount = k.blocks_amount
      /\ y.current_index = k.current_index
  BY DEF Coherent, KernelType
<1> HIDE DEF y
<1>2. Coherent(y)
  BY <1>1 DEF Coherent, NoOtherRuns, RunningSlots, Counted
<1> QED BY <1>2, SchedulingFacts DEF LastWish, y

LEMMA KillKernelFacts ==
  ASSUME NEW k, Settled(k), NEW f, NEW p \in Slots
  PROVE  Settled(KillKernel(k, f, p))
<1> DEFINE d == [k EXCEPT !.state[p] = "ZOMBIE"]
           z == WakeParent(d, f, p)
<1>1. Coherent(d)
  <2>1. Coherent([k EXCEPT !.state = [q \in Slots |-> IF q \in {p} THEN "ZOMBIE"
                                                      ELSE k.state[q]]])
    BY SettledCoherent, ZombiesCoherent
  <2>2. [q \in Slots |-> IF q \in {p} THEN "ZOMBIE" ELSE k.state[q]]
          = [k.state EXCEPT ![p] = "ZOMBIE"]
    BY DEF Settled, KernelType
  <2> QED BY <2>1, <2>2
<1>2. Coherent(z)
  BY <1>1, WakeParentFacts
<1> HIDE DEF z
<1>3. Coherent(Sweep(z))
  <2> DEFINE Z == {q \in Slots : q > SHELL_PID /\ z.state[q] # "INVALID"}
  <2>1. Coherent([z EXCEPT !.state = [q \in Slots |-> IF q \in Z THEN "ZOMBIE"
                                                      ELSE z.state[q]]])
    BY <1>2, ZombiesCoherent
  <2>2. \A q \in Slots : q \in Z <=> q > SHELL_PID /\ z.state[q] # "INVALID"
    OBVIOUS
  <2> HIDE DEF Z
  <2>3. Sweep(z) = [z EXCEPT !.state = [q \in Slots |-> IF q \in Z THEN "ZOMBIE"
                                                        ELSE z.state[q]]]
    BY <2>2 DEF Sweep
  <2> QED BY <2>1, <2>3
<1>4. Settled(LastWish(Sweep(z), p)) /\ Settled(LastWish(z, p))
  BY <1>2, <1>3, LastWishFacts
<1>5. KillKernel(k, f, p) = LastWish(IF p = SHELL_PID THEN Sweep(z) ELSE z, p)
  BY DEF KillKernel, z
<1>6. CASE p = SHELL_PID
  BY <1>4, <1>5, <1>6
<1>7. CASE p # SHELL_PID
  BY <1>4, <1>5, <1>7
<1> QED BY <1>6, <1>7

-----------------------------------------------------------------------------
\* The invariant: the scheduler's, and that no process waits for itself, so
\* that the PCB wait() frees when it is back is not the running process's.
ProcInv == /\ SchedInv
           /\ waiting \in [Slots -> Slots \cup {NoPid}]
           /\ \A p \in Slots : waiting[p] # p

LEMMA ProcInitInv == ProcInit => ProcInv
<1> SUFFICES ASSUME ProcInit
             PROVE  ProcInv
  OBVIOUS
<1>1. SchedInv
  BY SchedInitInv DEF ProcInit
<1>2. \A p \in Slots : p # NoPid
  BY DEF Slots, NoPid
<1> QED BY <1>1, <1>2 DEF ProcInit, ProcInv

\* The kernel record that a kill leaves, and the waits it cancels.
LEMMA KillInv ==
  ASSUME ProcInv, NEW p \in Slots, Kill(p)
  PROVE  ProcInv'
<1>1. SchedInv'
  BY KillKernelFacts, KernelBecomesSettled DEF Kill, ProcInv, SchedInv
<1>2. \A q \in Slots : q # NoPid
  BY DEF Slots, NoPid
<1>3. /\ waiting' \in [Slots -> Slots \cup {NoPid}]
      /\ \A q \in Slots : waiting'[q] # q
  BY <1>2 DEF Kill, ProcInv
<1> QED BY <1>1, <1>3 DEF ProcInv

LEMMA ProcNextInv == ProcInv /\ [ProcNext]_procVars => ProcInv'
<1> SUFFICES ASSUME ProcInv, [ProcNext]_procVars
             PROVE  ProcInv'
  OBVIOUS
<1>0. /\ SchedInv /\ Settled(Kernel)
      /\ Kernel.current_index = Caller /\ Caller \in Slots
      /\ state[Caller] = "RUNNING"
  BY RunnerFacts DEF ProcInv
<1>N. \A p \in Slots : p # NoPid
  BY DEF Slots, NoPid
<1>1. CASE SchedStep
  <2>1. SchedNext
    BY <1>1, TargetsAssumption DEF SchedStep, SchedNext
  <2>2. SchedInv'
    BY <1>0, <2>1, SchedNextInv
  <2> QED BY <1>1, <2>2 DEF SchedStep, ProcInv
<1>2. CASE SysCreate
  <2>1. PICK q \in Slots : /\ q \in FreeSlots(Kernel)
                           /\ \/ KernelBecomes(NewKernel(Kernel, q))
                              \/ KernelBecomes(FreeKernel(Kernel, q))
    <3>1. FreeSlots(Kernel) \in SUBSET Nat /\ FreeSlots(Kernel) # {}
      BY <1>2 DEF SysCreate, FreeSlots, Slots
    <3>2. Least(FreeSlots(Kernel)) \in FreeSlots(Kernel)
      BY <3>1, LeastIsLeast
    <3> QED BY <1>2, <3>2 DEF SysCreate, FreeSlots
  <2>2. q # Kernel.current_index
    BY <1>0, <2>1 DEF FreeSlots, Kernel
  <2>3. SchedInv'
    BY <1>0, <2>1, <2>2, NewKernelFacts, FreeKernelFacts, KernelBecomesSettled
  <2> QED BY <1>2, <2>3 DEF SysCreate, ProcInv
<1>3. CASE SysExit
  BY <1>0, <1>3, KillInv DEF SysExit
<1>4. ASSUME NEW p \in Targets, SysKill(p) \/ CtrlC(p)
      PROVE  ProcInv'
  <2>1. Kill(p) /\ p \in Slots
    BY <1>4 DEF SysKill, CtrlC, Kill, IsPidValid
  <2> QED BY <2>1, KillInv
<1>5. ASSUME NEW q \in Slots, SysWait(q)
      PROVE  ProcInv'
  <2>1. CASE state[q] = "ZOMBIE"
    <3>1. KernelBecomes(FreeKernel(Kernel, q)) /\ waiting' = waiting
      BY <1>5, <2>1 DEF SysWait
    <3>2. q # Kernel.current_index
      BY <1>0, <1>5 DEF SysWait
    <3>3. SchedInv'
      BY <1>0, <3>1, <3>2, FreeKernelFacts, KernelBecomesSettled
    <3> QED BY <3>1, <3>3 DEF ProcInv
  <2>2. CASE state[q] # "ZOMBIE"
    <3>1. /\ KernelBecomes(BlockProcess(Kernel, Caller))
          /\ waiting' = [waiting EXCEPT ![Caller] = q]
          /\ q # Caller
      BY <1>5, <2>2 DEF SysWait
    <3>2. SchedInv'
      BY <1>0, <3>1, BlockProcessFacts, KernelBecomesSettled
    <3> QED BY <1>0, <3>1, <3>2 DEF ProcInv
  <2> QED BY <2>1, <2>2
<1>6. CASE WaitReturns
  <2> DEFINE q == waiting[Caller]
  <2>1. q \in Slots /\ q # Caller
    BY <1>0, <1>6 DEF WaitReturns, InWait, ProcInv
  <2>2. /\ KernelBecomes(FreeKernel(Kernel, q))
        /\ waiting' = [waiting EXCEPT ![Caller] = NoPid, ![q] = NoPid]
    BY <1>6 DEF WaitReturns
  <2> HIDE DEF q
  <2>3. SchedInv'
    BY <1>0, <2>1, <2>2, FreeKernelFacts, KernelBecomesSettled
  <2>4. /\ waiting' \in [Slots -> Slots \cup {NoPid}]
        /\ \A p \in Slots : waiting'[p] # p
    BY <1>0, <1>N, <2>1, <2>2 DEF ProcInv
  <2> QED BY <2>3, <2>4 DEF ProcInv
<1>7. CASE UNCHANGED procVars
  <2>1. UNCHANGED schedVars /\ waiting' = waiting
    BY <1>7 DEF procVars
  <2>2. SchedInv'
    BY <1>0, <2>1, SchedNextInv
  <2> QED BY <2>1, <2>2 DEF ProcInv
<1> QED BY <1>1, <1>2, <1>3, <1>4, <1>5, <1>6, <1>7 DEF ProcNext

LEMMA ProcInvHolds == ProcSpec => []ProcInv
BY ProcInitInv, ProcNextInv, PTL DEF ProcSpec

\* However processes are created, killed, waited for and swept away, get_pid()
\* and current_index name one and the same RUNNING process.
THEOREM OneProcessRunsAlways == ProcSpec => []GetPidIsCurrent
<1>1. ProcInv => GetPidIsCurrent
  BY DEF ProcInv, SchedInv, Settled, Kernel, GetPidIsCurrent
<1> QED BY <1>1, ProcInvHolds, PTL

\* The nesting of blocks survives creation in a reaped slot, the wake-up of a
\* waiting parent and the death of a blocked process.
THEOREM BlocksNestAlways == ProcSpec => []BlockedIffCounted
<1>1. ProcInv => BlockedIffCounted
  BY DEF ProcInv, SchedInv, Settled, Counted, Kernel, BlockedIffCounted
<1> QED BY <1>1, ProcInvHolds, PTL

-----------------------------------------------------------------------------
(* The shell and its children.                                             *)

\* The shell alone creates processes, and nobody blocks it from outside.
OnlyShellCreates == Creators \subseteq {SHELL_PID} /\ SHELL_PID \notin Targets

Programs == Slots \ {IDLE_PID, SHELL_PID}

FamilyTypeOK ==
  /\ parent_pid \in [Slots -> {IDLE_PID, SHELL_PID, NoPid}]
  /\ child_amount \in [Slots -> Int]
  /\ dad_blocked \in [Slots -> {0, 1}]
  /\ dangling \in [Slots -> BOOLEAN]

\* Between the block of wait() and its return, of the child it is about.
Awaits(q) ==
  /\ parent_pid[q] = SHELL_PID
  /\ dad_blocked[q] = 1
  /\ state[q] # "INVALID"
  /\ Live(q) => state[SHELL_PID] = "BLOCKED" /\ blocks_amount[SHELL_PID] = 1
  /\ ~Live(q) => state[SHELL_PID] \in {"READY", "RUNNING"}

WaitInv ==
  /\ ProcInv
  /\ IdleLives(Kernel)
  /\ FamilyTypeOK
  /\ \A p \in Programs : child_amount[p] = 0
  /\ \A p \in Slots : ~dangling[p] /\ (p # SHELL_PID => waiting[p] = NoPid)
  /\ \A q \in Slots : dad_blocked[q] = 1 => waiting[SHELL_PID] = q
  /\ waiting[SHELL_PID] # NoPid => Awaits(waiting[SHELL_PID])

\* The processes the shell has started and that have not ended.
Jobs == {p \in Programs : Live(p)}

\* The relations of a shell whose jobs are J, each of them once in its list.
Related(f, J) ==
  /\ f.parent_pid[SHELL_PID] = IDLE_PID /\ f.parent_pid[IDLE_PID] = NoPid
  /\ \A p \in J : f.parent_pid[p] = SHELL_PID
  /\ f.childs \in [Slots -> [Slots -> Slots \cup {NoPid}]]
  /\ f.childs[IDLE_PID] = [NoChilds EXCEPT ![0] = SHELL_PID]
  /\ f.child_amount[IDLE_PID] = 1
  /\ \A p \in Programs : f.childs[p] = NoChilds /\ f.child_amount[p] = 0
  /\ \A i, j \in Slots : f.childs[SHELL_PID][i] = f.childs[SHELL_PID][j]
                         /\ f.childs[SHELL_PID][i] # NoPid => i = j
  /\ \A i \in Slots : f.childs[SHELL_PID][i] \in J \cup {NoPid}
  /\ \A p \in J : \E i \in Slots : f.childs[SHELL_PID][i] = p
  /\ f.child_amount[SHELL_PID] = Cardinality(J)
  /\ f.active_processes = Cardinality(J) + 2

FamInv ==
  /\ WaitInv
  /\ Live(SHELL_PID)
  /\ Related(Family, Jobs)

LEMMA ShellIsNotIdle == /\ SHELL_PID \in Slots /\ IDLE_PID \in Slots
                        /\ SHELL_PID # IDLE_PID /\ NoPid \notin Slots
BY ShellAssumption, ClientAssumption, SlotsAssumption DEF Slots, NoPid

-----------------------------------------------------------------------------
(* The phases of the processes, which the scheduler does not change.       *)

Phases(k) == [p \in Slots |-> PhaseOf(k.state[p])]

LEMMA PhaseFacts ==
  ASSUME NEW s \in ProcessState
  PROVE  /\ PhaseOf(s) = "free" <=> s = "INVALID"
         /\ PhaseOf(s) = "exited" <=> s = "ZOMBIE"
         /\ PhaseOf(s) = "live" <=> s \in {"READY", "RUNNING", "BLOCKED"}
BY DEF PhaseOf, ProcessState

LEMMA UntouchedPhase ==
  ASSUME NEW k \in KernelType, NEW r \in KernelType, NEW p \in Slots, Untouched(k, r, p)
  PROVE  PhaseOf(r.state[p]) = PhaseOf(k.state[p])
<1>1. k.state[p] \in ProcessState /\ r.state[p] \in ProcessState
  BY DEF KernelType
<1> QED BY <1>1 DEF Untouched, PhaseOf, ProcessState

LEMMA SleepersPhases ==
  ASSUME NEW k, Coherent(k), NEW r, Settled(r), SameSleepers(k, r), IdleLives(k)
  PROVE  Phases(r) = Phases(k) /\ IdleLives(r)
<1>1. k \in KernelType /\ r \in KernelType
  BY DEF Coherent, Settled
<1>2. ASSUME NEW p \in Slots
      PROVE  PhaseOf(r.state[p]) = PhaseOf(k.state[p])
  <2>1. CASE p = IDLE_PID
    <3>1. IdleLives(r)
      BY DEF SameSleepers
    <3> QED BY <2>1, <3>1 DEF IdleLives, PhaseOf
  <2>2. CASE p # IDLE_PID
    BY <1>1, <2>2, UntouchedPhase DEF SameSleepers
  <2> QED BY <2>1, <2>2
<1> QED BY <1>2 DEF Phases, SameSleepers

\* A block from outside, of anybody but the shell.
LEMMA BlockPhases ==
  ASSUME NEW k, Settled(k), IdleLives(k), NEW p \in Slots
  PROVE  LET r == BlockProcess(k, p)
         IN  /\ Settled(r) /\ IdleLives(r) /\ Phases(r) = Phases(k)
             /\ \A q \in Slots \ {p, IDLE_PID} : Untouched(k, r, q)
<1> DEFINE r == BlockProcess(k, p)
<1>1. Settled(r)
  BY BlockProcessFacts
<1>2. CASE r = k
  <2>1. \A q \in Slots : Untouched(k, r, q)
    BY <1>2 DEF Untouched
  <2> QED BY <1>1, <1>2, <2>1
<1>3. ASSUME NEW m, Coherent(m), r = Yield(m), m.state[p] = "BLOCKED",
             k.state[p] \notin {"INVALID", "ZOMBIE"},
             \A q \in Slots \ {p} : /\ m.state[q] = k.state[q]
                                    /\ m.blocks_amount[q] = k.blocks_amount[q]
      PROVE  /\ IdleLives(r) /\ Phases(r) = Phases(k)
             /\ \A q \in Slots \ {p, IDLE_PID} : Untouched(k, r, q)
  <2> HIDE DEF r
  <2>1. IdleLives(m)
    BY <1>3, SlotsAssumption DEF IdleLives
  <2>2. Phases(m) = Phases(k)
    <3>1. \A q \in Slots : PhaseOf(m.state[q]) = PhaseOf(k.state[q])
      BY <1>3 DEF PhaseOf
    <3> QED BY <3>1 DEF Phases
  <2>3. SameSleepers(m, r)
    BY <1>3, YieldSleepers
  <2>4. IdleLives(r) /\ Phases(r) = Phases(m)
    BY <1>1, <1>3, <2>1, <2>3, SleepersPhases
  <2> QED BY <1>3, <2>2, <2>3, <2>4 DEF SameSleepers, Untouched
<1> HIDE DEF r
<1>4. (r = k) \/ \E m : /\ Coherent(m)
                       /\ r = Yield(m)
                       /\ k.state[p] \notin {"INVALID", "ZOMBIE"}
                       /\ m.state[p] = "BLOCKED"
                       /\ \A q \in Slots \ {p} : /\ m.state[q] = k.state[q]
                                                 /\ m.blocks_amount[q] = k.blocks_amount[q]
  BY BlockProcessCases DEF r
<1> QED BY <1>1, <1>2, <1>3, <1>4 DEF r

LEMMA UnblockPhases ==
  ASSUME NEW k, Settled(k), IdleLives(k), NEW p \in Slots
  PROVE  LET r == UnblockProcess(k, p)
         IN  /\ Settled(r) /\ IdleLives(r) /\ Phases(r) = Phases(k)
             /\ \A q \in Slots \ {p} : Untouched(k, r, q)
<1> DEFINE r == UnblockProcess(k, p)
<1>1. k \in KernelType /\ Counted(k)
  BY DEF Settled
<1>2. /\ r \in KernelType
      /\ RunningSlots(r) = RunningSlots(k)
      /\ r.current_index = k.current_index
      /\ Counted(r)
      /\ \A q \in Slots \ {p} : /\ r.state[q] = k.state[q]
                                /\ r.blocks_amount[q] = k.blocks_amount[q]
      /\ k.state[p] # "BLOCKED" => r = k
      /\ k.state[p] = "BLOCKED" =>
           r.state[p] = IF k.blocks_amount[p] > 1 THEN "BLOCKED" ELSE "READY"
  BY <1>1, UnblockProcessFacts, Zenon
<1> HIDE DEF r
<1>3. Settled(r)
  BY <1>2 DEF Settled
<1>4. \A q \in Slots : PhaseOf(r.state[q]) = PhaseOf(k.state[q])
  <2>1. \/ r.state[p] = k.state[p]
        \/ k.state[p] = "BLOCKED" /\ r.state[p] \in {"BLOCKED", "READY"}
    <3>1. CASE k.state[p] = "BLOCKED"
      BY <1>2, <3>1
    <3>2. CASE k.state[p] # "BLOCKED"
      BY <1>2, <3>2, Zenon
    <3> QED BY <3>1, <3>2
  <2> QED BY <1>2, <2>1 DEF PhaseOf
<1>5. IdleLives(r)
  BY <1>2, SlotsAssumption DEF IdleLives
<1> QED BY <1>2, <1>3, <1>4, <1>5 DEF Phases, Untouched, r

\* What the processes do to the scheduler alone changes no phase, and leaves
\* the shell as blocked as it was.
LEMMA SchedStepFacts ==
  ASSUME SchedInv, IdleLives(Kernel), SHELL_PID \notin Targets, SchedStep
  PROVE  \E r : /\ KernelBecomes(r) /\ Settled(r) /\ IdleLives(r)
               /\ Phases(r) = Phases(Kernel)
               /\ Untouched(Kernel, r, SHELL_PID)
<1>0. Settled(Kernel) /\ Coherent(Kernel)
  BY SettledCoherent DEF SchedInv
<1>1. SHELL_PID \in Slots \ {IDLE_PID}
  BY ShellIsNotIdle
<1>2. ASSUME NEW r, KernelBecomes(r), Settled(r), SameSleepers(Kernel, r)
      PROVE  /\ KernelBecomes(r) /\ Settled(r) /\ IdleLives(r)
             /\ Phases(r) = Phases(Kernel)
             /\ Untouched(Kernel, r, SHELL_PID)
  BY <1>0, <1>1, <1>2, SleepersPhases DEF SameSleepers
<1>3. CASE TimerTick
  BY <1>0, <1>2, <1>3, SchedulingFacts, SchedulingSleepers DEF TimerTick
<1>4. CASE SysYield
  BY <1>0, <1>2, <1>4, YieldFacts, YieldSleepers DEF SysYield
<1>5. ASSUME NEW p \in Targets, SysBlock(p) \/ SysUnblock(p)
      PROVE  \E r : /\ KernelBecomes(r) /\ Settled(r) /\ IdleLives(r)
                   /\ Phases(r) = Phases(Kernel)
                   /\ Untouched(Kernel, r, SHELL_PID)
  <2>1. p \in Slots /\ SHELL_PID \in Slots \ {p, IDLE_PID}
    BY <1>1, <1>5, TargetsAssumption
  <2>2. CASE SysBlock(p)
    BY <1>0, <2>1, <2>2, BlockPhases DEF SysBlock
  <2>3. CASE SysUnblock(p)
    BY <1>0, <2>1, <2>3, UnblockPhases DEF SysUnblock
  <2> QED BY <1>5, <2>2, <2>3
<1>6. ASSUME NEW p \in Targets, NEW prio \in Prios, SysBeNice(p, prio)
      PROVE  \E r : /\ KernelBecomes(r) /\ Settled(r) /\ IdleLives(r)
                   /\ Phases(r) = Phases(Kernel)
                   /\ Untouched(Kernel, r, SHELL_PID)
  <2> DEFINE r == BeNice(Kernel, p, prio)
  <2>1. KernelBecomes(r) /\ Settled(r)
    BY <1>0, <1>6, BeNiceFacts, TargetsAssumption DEF SysBeNice
  <2>2. r.state = Kernel.state /\ r.blocks_amount = Kernel.blocks_amount
    BY <1>0 DEF BeNice, Settled, KernelType
  <2> HIDE DEF r
  <2>3. IdleLives(r) /\ Phases(r) = Phases(Kernel) /\ Untouched(Kernel, r, SHELL_PID)
    BY <2>2 DEF IdleLives, Phases, Untouched
  <2> QED BY <2>1, <2>3
<1> QED BY <1>3, <1>4, <1>5, <1>6 DEF SchedStep

-----------------------------------------------------------------------------
(* The processes around a kill.                                            *)

\* The zombies a kill makes: the process, and with the shell those after it.
Dying(k, p) == {p} \cup (IF p = SHELL_PID
                        THEN {q \in Slots : q > SHELL_PID /\ k.state[q] # "INVALID"}
                        ELSE {})

\* Whoever waits for the process is the shell, in its wait() and nowhere else.
WakesOnlyShell(k, f, p) ==
  f.dad_blocked[p] = 1 => /\ p # SHELL_PID
                          /\ f.parent_pid[p] = SHELL_PID
                          /\ k.state[SHELL_PID] = "BLOCKED"
                          /\ k.blocks_amount[SHELL_PID] = 1

\* What kill_process() has made of the table before its context switch.
Marked(k, f, p, z) ==
  /\ Coherent(z)
  /\ KillKernel(k, f, p) = LastWish(z, p)
  /\ IdleLives(z)
  /\ \A q \in Slots \ {IDLE_PID} : q \in Dying(k, p) => z.state[q] = "ZOMBIE"
  /\ \A q \in Slots \ {IDLE_PID} : q \notin Dying(k, p) =>
       IF f.dad_blocked[p] = 1 /\ q = SHELL_PID
       THEN z.state[q] = "READY"
       ELSE z.state[q] = k.state[q] /\ z.blocks_amount[q] = k.blocks_amount[q]

LEMMA KillMarks ==
  ASSUME NEW k, Coherent(k), IdleLives(k), NEW f, NEW p \in Slots \ {IDLE_PID},
         WakesOnlyShell(k, f, p)
  PROVE  \E z : Marked(k, f, p, z)
<1> DEFINE d == [k EXCEPT !.state[p] = "ZOMBIE"]
           w == WakeParent(d, f, p)
           z == IF p = SHELL_PID THEN Sweep(w) ELSE w
<1>1. k \in KernelType
  BY DEF Coherent
<1>2. /\ Coherent(d)
      /\ d.state[p] = "ZOMBIE" /\ d.blocks_amount = k.blocks_amount
      /\ \A q \in Slots \ {p} : d.state[q] = k.state[q]
  <2>1. Coherent([k EXCEPT !.state = [q \in Slots |-> IF q \in {p} THEN "ZOMBIE"
                                                      ELSE k.state[q]]])
    BY ZombiesCoherent
  <2>2. [q \in Slots |-> IF q \in {p} THEN "ZOMBIE" ELSE k.state[q]]
          = [k.state EXCEPT ![p] = "ZOMBIE"]
    BY <1>1 DEF KernelType
  <2>3. d = [k EXCEPT !.state = [k.state EXCEPT ![p] = "ZOMBIE"]]
    OBVIOUS
  <2> QED BY <1>1, <2>1, <2>2, <2>3 DEF KernelType
<1> HIDE DEF d
<1>3. /\ Coherent(w)
      /\ \A q \in Slots : IF f.dad_blocked[p] = 1 /\ q = SHELL_PID
                         THEN w.state[q] = "READY"
                         ELSE w.state[q] = d.state[q] /\ w.blocks_amount[q] = d.blocks_amount[q]
  <2>1. Coherent(w)
    BY <1>2, WakeParentFacts
  <2>2. CASE f.dad_blocked[p] = 1
    <3>1. w = UnblockProcess(d, SHELL_PID)
      BY <2>2 DEF WakeParent, WakesOnlyShell
    <3>2. d.state[SHELL_PID] = "BLOCKED" /\ d.blocks_amount[SHELL_PID] = 1
      BY <1>2, <2>2, ShellIsNotIdle DEF WakesOnlyShell
    <3> DEFINE u == UnblockProcess(d, SHELL_PID)
    <3>3. /\ u.state[SHELL_PID] = IF d.blocks_amount[SHELL_PID] > 1
                                   THEN "BLOCKED" ELSE "READY"
          /\ \A q \in Slots \ {SHELL_PID} : /\ u.state[q] = d.state[q]
                                            /\ u.blocks_amount[q] = d.blocks_amount[q]
      <4>1. d \in KernelType /\ Counted(d) /\ SHELL_PID \in Slots
        BY <1>2, ShellIsNotIdle DEF Coherent
      <4> QED BY <3>2, <4>1, UnblockProcessFacts, Zenon
    <3> HIDE DEF u
    <3>4. u.state[SHELL_PID] = "READY"
      BY <3>2, <3>3
    <3>5. w = u
      BY <3>1 DEF u
    <3> HIDE DEF w
    <3> QED BY <2>1, <2>2, <3>3, <3>4, <3>5
  <2>3. CASE f.dad_blocked[p] # 1
    <3>1. w = d
      BY <2>3 DEF WakeParent
    <3> QED BY <1>2, <2>3, <3>1
  <2> QED BY <2>1, <2>2, <2>3
<1> HIDE DEF w
<1>4. /\ Coherent(z)
      /\ \A q \in Slots : IF p = SHELL_PID /\ q > SHELL_PID /\ w.state[q] # "INVALID"
                         THEN z.state[q] = "ZOMBIE"
                         ELSE z.state[q] = w.state[q] /\ z.blocks_amount[q] = w.blocks_amount[q]
  <2>1. CASE p = SHELL_PID
    <3> DEFINE Z == {q \in Slots : q > SHELL_PID /\ w.state[q] # "INVALID"}
               s == [q \in Slots |-> IF q \in Z THEN "ZOMBIE" ELSE w.state[q]]
    <3>1. Coherent([w EXCEPT !.state = s])
      BY <1>3, ZombiesCoherent
    <3>2. z = [w EXCEPT !.state = s]
      <4>1. \A q \in Slots : q \in Z <=> q > SHELL_PID /\ w.state[q] # "INVALID"
        OBVIOUS
      <4> HIDE DEF Z
      <4> QED BY <2>1, <4>1 DEF Sweep
    <3> QED BY <1>3, <2>1, <3>1, <3>2 DEF Coherent, KernelType
  <2>2. CASE p # SHELL_PID
    BY <1>3, <2>2
  <2> QED BY <2>1, <2>2
<1>5. KillKernel(k, f, p) = LastWish(z, p)
  BY DEF KillKernel, z, w, d
<1> HIDE DEF z
<1>6. IdleLives(z)
  BY <1>2, <1>3, <1>4, ShellIsNotIdle, ShellAssumption DEF IdleLives, Slots
<1>7. \A q \in Slots \ {IDLE_PID} : q \in Dying(k, p) => z.state[q] = "ZOMBIE"
  BY <1>2, <1>3, <1>4 DEF Dying, WakesOnlyShell
<1>8. \A q \in Slots \ {IDLE_PID} : q \notin Dying(k, p) =>
        IF f.dad_blocked[p] = 1 /\ q = SHELL_PID
        THEN z.state[q] = "READY"
        ELSE z.state[q] = k.state[q] /\ z.blocks_amount[q] = k.blocks_amount[q]
  BY <1>2, <1>3, <1>4 DEF Dying
<1> QED BY <1>4, <1>5, <1>6, <1>7, <1>8 DEF Marked

LEMMA LastWishSleepers ==
  ASSUME NEW k, Coherent(k), NEW p \in Slots
  PROVE  Settled(LastWish(k, p)) /\ SameSleepers(k, LastWish(k, p))
<1> DEFINE y == [k EXCEPT !.yielding[p] = 1]
<1>1. /\ y \in KernelType
      /\ y.state = k.state
      /\ y.blocks_amount = k.blocks_amount
      /\ y.current_index = k.current_index
  BY DEF Coherent, KernelType
<1> HIDE DEF y
<1>2. Coherent(y)
  BY <1>1 DEF Coherent, NoOtherRuns, RunningSlots, Counted
<1>3. SameSleepers(y, Scheduling(y))
  BY <1>2, SchedulingSleepers
<1>4. SameSleepers(k, Scheduling(y))
  BY <1>1, <1>3 DEF SameSleepers, Untouched, IdleLives
<1> QED BY <1>4, LastWishFacts DEF LastWish, y

\* kill_process() to its end: it ends the processes it should, wakes up the
\* shell that waits for the dying one, and does nothing to anybody else.
LEMMA KillOutcome ==
  ASSUME NEW k, Coherent(k), IdleLives(k), NEW f, NEW p \in Slots \ {IDLE_PID},
         WakesOnlyShell(k, f, p)
  PROVE  LET r == KillKernel(k, f, p)
         IN  /\ Settled(r) /\ IdleLives(r)
             /\ \A q \in Slots \ {IDLE_PID} : q \in Dying(k, p) => r.state[q] = "ZOMBIE"
             /\ \A q \in Slots \ {IDLE_PID} : q \notin Dying(k, p) =>
                  IF f.dad_blocked[p] = 1 /\ q = SHELL_PID
                  THEN r.state[q] \in {"READY", "RUNNING"}
                  ELSE Untouched(k, r, q)
<1> DEFINE r == KillKernel(k, f, p)
<1>1. PICK z : Marked(k, f, p, z)
  BY KillMarks
<1>2. Settled(r) /\ SameSleepers(z, r)
  BY <1>1, LastWishSleepers DEF Marked
<1> HIDE DEF r
<1>3. \A q \in Slots \ {IDLE_PID} : Untouched(z, r, q)
  BY <1>2 DEF SameSleepers
<1>4. IdleLives(r)
  BY <1>1, <1>2 DEF SameSleepers, Marked
<1>5. \A q \in Slots \ {IDLE_PID} : q \in Dying(k, p) => r.state[q] = "ZOMBIE"
  BY <1>1, <1>3 DEF Untouched, Marked
<1>6. \A q \in Slots \ {IDLE_PID} : q \notin Dying(k, p) =>
        IF f.dad_blocked[p] = 1 /\ q = SHELL_PID
        THEN r.state[q] \in {"READY", "RUNNING"}
        ELSE Untouched(k, r, q)
  BY <1>1, <1>3 DEF Untouched, Marked
<1> QED BY <1>2, <1>4, <1>5, <1>6 DEF r

\* The fields of the PCBs that relate processes.
FamilyShape(f) ==
  /\ f = [parent_pid |-> f.parent_pid, childs |-> f.childs,
          child_amount |-> f.child_amount, dad_blocked |-> f.dad_blocked,
          active_processes |-> f.active_processes]
  /\ f.parent_pid \in [Slots -> {IDLE_PID, SHELL_PID, NoPid}]
  /\ f.child_amount \in [Slots -> Int]
  /\ f.dad_blocked \in [Slots -> {0, 1}]

\* A list of children with q in it, and what becomes of it without q.
ListHas(f, p, q) == \E i \in Slots : f.childs[p][i] = q
ListLoses(f, g, p, q) ==
  \E i \in Slots :
    /\ f.childs[p][i] = q
    /\ g.childs = [f.childs EXCEPT ![p] = [f.childs[p] EXCEPT ![i] = NoPid]]
    /\ g.child_amount = [f.child_amount EXCEPT ![p] = f.child_amount[p] - 1]

LEMMA RemoveChildFacts ==
  ASSUME NEW k, NEW f, FamilyShape(f), NEW p \in Slots
  PROVE  LET g == RemoveChild(k, f, p)
         IN  /\ FamilyShape(g)
             /\ g.parent_pid = f.parent_pid /\ g.dad_blocked = f.dad_blocked
             /\ g.active_processes = f.active_processes
             /\ \A q \in Programs : g.child_amount[q] = f.child_amount[q]
             /\ ListHas(f, f.parent_pid[p], p) /\ IsPidValid(k, f.parent_pid[p])
                  => ListLoses(f, g, f.parent_pid[p], p)
<1> DEFINE g == RemoveChild(k, f, p)
           dad == f.parent_pid[p]
           at == {i \in Slots : f.childs[dad][i] = p}
<1>1. CASE ~IsPidValid(k, dad) \/ at = {}
  <2>1. g = f
    BY <1>1 DEF RemoveChild
  <2> QED BY <1>1, <2>1 DEF ListHas
<1>2. CASE ~(~IsPidValid(k, dad) \/ at = {})
  <2>1. dad \in Slots /\ dad \in {IDLE_PID, SHELL_PID}
    BY <1>2, ShellIsNotIdle DEF IsPidValid, FamilyShape
  <2>2. g = [f EXCEPT !.childs[dad][Least(at)] = NoPid,
                      !.child_amount[dad] = f.child_amount[dad] - 1]
    BY <1>2 DEF RemoveChild
  <2> HIDE DEF g, at, dad
  <2>a. Least(at) \in at
    <3>1. at \in SUBSET Nat /\ at # {}
      BY <1>2 DEF at, Slots
    <3> QED BY <3>1, LeastIsLeast
  <2> DEFINE b == [f.childs EXCEPT ![dad] = [f.childs[dad] EXCEPT ![Least(at)] = NoPid]]
  <2>3. g = [f EXCEPT !.childs = b,
                      !.child_amount = [f.child_amount EXCEPT
                                          ![dad] = f.child_amount[dad] - 1]]
    BY <2>2 DEF FamilyShape
  <2> DEFINE c == [f.child_amount EXCEPT ![dad] = f.child_amount[dad] - 1]
  <2>4. c \in [Slots -> Int] /\ \A q \in Programs : c[q] = f.child_amount[q]
    BY <2>1 DEF FamilyShape, Programs
  <2> HIDE DEF b, c
  <2>5. g = [parent_pid |-> f.parent_pid, childs |-> b, child_amount |-> c,
             dad_blocked |-> f.dad_blocked, active_processes |-> f.active_processes]
    BY <2>3 DEF FamilyShape, c
  <2>6. /\ g.parent_pid = f.parent_pid /\ g.dad_blocked = f.dad_blocked
        /\ g.active_processes = f.active_processes
        /\ g.childs = b /\ g.child_amount = c
    BY <2>5
  <2>7. FamilyShape(g)
    BY <2>4, <2>5, <2>6 DEF FamilyShape
  <2>8. ListLoses(f, g, dad, p)
    BY <2>a, <2>6 DEF ListLoses, at, b, c
  <2> QED BY <2>4, <2>6, <2>7, <2>8 DEF g, dad
<1> QED BY <1>1, <1>2

\* An adoption of nobody leaves the idle process's list and count alone.
Adopted(f, g, p) ==
  /\ FamilyShape(g)
  /\ \A q \in Slots : \/ g.parent_pid[q] = f.parent_pid[q]
                      \/ p \notin Programs
                      \/ f.child_amount[p] # 0
  /\ g.dad_blocked = f.dad_blocked
  /\ g.active_processes = f.active_processes
  /\ \A q \in Programs : g.child_amount[q] = f.child_amount[q]
  /\ f.child_amount[p] = 0 /\ f.childs \in [Slots -> [Slots -> Int]]
       => g.childs = f.childs /\ g.child_amount = f.child_amount

LEMMA AdoptFacts ==
  ASSUME NEW k, NEW f, FamilyShape(f), NEW p \in Slots
  PROVE  Adopted(f, Adopt(k, f, p), p)
<1> DEFINE g == Adopt(k, f, p)
           first == {f.childs[p][i] : i \in {j \in Slots : j < f.child_amount[p]}}
           a == [q \in Slots |-> IF q \in first /\ IsPidValid(k, q)
                                 THEN IDLE_PID ELSE f.parent_pid[q]]
           b == [f.childs EXCEPT ![IDLE_PID] =
                  [i \in Slots |-> IF i >= f.child_amount[IDLE_PID]
                                       /\ i < f.child_amount[IDLE_PID] + f.child_amount[p]
                                    THEN f.childs[p][i - f.child_amount[IDLE_PID]]
                                    ELSE f.childs[IDLE_PID][i]]]
<1>1. g = [f EXCEPT !.parent_pid = a, !.childs = b,
                    !.child_amount = [f.child_amount EXCEPT
                      ![IDLE_PID] = f.child_amount[IDLE_PID] + f.child_amount[p]]]
  BY DEF Adopt, FamilyShape
<1>2. a \in [Slots -> {IDLE_PID, SHELL_PID, NoPid}]
  BY DEF FamilyShape
<1>3. \A q \in Slots : a[q] = f.parent_pid[q] \/ f.child_amount[p] # 0
  <2>1. f.child_amount[p] = 0 => first = {}
    BY DEF Slots
  <2> QED BY <2>1
<1> DEFINE c == [f.child_amount EXCEPT
                   ![IDLE_PID] = f.child_amount[IDLE_PID] + f.child_amount[p]]
<1>4. c \in [Slots -> Int] /\ \A q \in Programs : c[q] = f.child_amount[q]
  BY ShellIsNotIdle DEF FamilyShape, Programs
<1>b. ASSUME f.child_amount[p] = 0, f.childs \in [Slots -> [Slots -> Int]]
      PROVE  b = f.childs /\ c = f.child_amount
  <2>1. f.child_amount[IDLE_PID] \in Int /\ IDLE_PID \in Slots
    BY SlotsAssumption DEF FamilyShape
  <2>2. \A i \in Slots : ~(/\ i >= f.child_amount[IDLE_PID]
                          /\ i < f.child_amount[IDLE_PID] + f.child_amount[p])
    BY <1>b, <2>1 DEF Slots
  <2>3. [i \in Slots |-> IF i >= f.child_amount[IDLE_PID]
                              /\ i < f.child_amount[IDLE_PID] + f.child_amount[p]
                           THEN f.childs[p][i - f.child_amount[IDLE_PID]]
                           ELSE f.childs[IDLE_PID][i]] = f.childs[IDLE_PID]
    BY <1>b, <2>1, <2>2
  <2>4. b = f.childs
    BY <1>b, <2>1, <2>3
  <2>5. c = f.child_amount
    BY <1>b, <2>1 DEF FamilyShape
  <2> QED BY <2>4, <2>5
<1> HIDE DEF g, a, b, c
<1>5. g = [parent_pid |-> a, childs |-> b, child_amount |-> c,
           dad_blocked |-> f.dad_blocked, active_processes |-> f.active_processes]
  BY <1>1 DEF FamilyShape, c
<1>6. /\ g.parent_pid = a /\ g.dad_blocked = f.dad_blocked
      /\ g.active_processes = f.active_processes
      /\ g.childs = b /\ g.child_amount = c
  BY <1>5
<1>7. FamilyShape(g)
  BY <1>2, <1>4, <1>5, <1>6 DEF FamilyShape
<1> QED BY <1>3, <1>4, <1>6, <1>7, <1>b DEF g, Adopted

\* The relations after p has died: nobody else's, but for its parent's list.
Bereft(k, f, g, p) ==
  /\ FamilyShape(g)
  /\ \A q \in Programs : g.child_amount[q] = 0
  /\ g.dad_blocked = f.dad_blocked
  /\ p \in Programs => \A q \in Slots : g.parent_pid[q] = f.parent_pid[q]
  /\ g.active_processes = f.active_processes - 1
  /\ (/\ p \in Programs /\ f.childs \in [Slots -> [Slots -> Int]]
      /\ ListHas(f, f.parent_pid[p], p) /\ IsPidValid(k, f.parent_pid[p]))
       => ListLoses(f, g, f.parent_pid[p], p)

LEMMA KillFamilyFacts ==
  ASSUME NEW k, NEW f, FamilyShape(f), NEW p \in Slots,
         \A q \in Programs : f.child_amount[q] = 0
  PROVE  Bereft(k, f, KillFamily(k, f, p), p)
<1> DEFINE r == RemoveChild(k, f, p)
           a == Adopt(k, r, p)
           g == [a EXCEPT !.child_amount[p] = 0,
                          !.active_processes = a.active_processes - 1]
<1>1. /\ FamilyShape(r)
      /\ r.parent_pid = f.parent_pid /\ r.dad_blocked = f.dad_blocked
      /\ \A q \in Programs : r.child_amount[q] = 0
      /\ r.active_processes = f.active_processes
      /\ ListHas(f, f.parent_pid[p], p) /\ IsPidValid(k, f.parent_pid[p])
           => ListLoses(f, r, f.parent_pid[p], p)
  BY RemoveChildFacts
<1> HIDE DEF r
<1>2. /\ FamilyShape(a)
      /\ p \in Programs => \A q \in Slots : a.parent_pid[q] = f.parent_pid[q]
      /\ a.dad_blocked = f.dad_blocked
      /\ \A q \in Programs : a.child_amount[q] = 0
      /\ a.active_processes = r.active_processes
      /\ r.child_amount[p] = 0 /\ r.childs \in [Slots -> [Slots -> Int]]
           => a.childs = r.childs /\ a.child_amount = r.child_amount
  <2>1. Adopted(r, a, p)
    BY <1>1, AdoptFacts
  <2> HIDE DEF a
  <2> QED BY <1>1, <2>1 DEF Adopted
<1>3. KillFamily(k, f, p) = g
  BY DEF KillFamily, r
<1> DEFINE c == [a.child_amount EXCEPT ![p] = 0]
<1> HIDE DEF a
<1>4. c \in [Slots -> Int] /\ \A q \in Programs : c[q] = 0
  BY <1>2 DEF FamilyShape, Programs
<1> HIDE DEF g
<1>5. g = [parent_pid |-> a.parent_pid, childs |-> a.childs, child_amount |-> c,
           dad_blocked |-> a.dad_blocked,
           active_processes |-> a.active_processes - 1]
  <2>1. PICK P, C, N, D, A : a = [parent_pid |-> P, childs |-> C, child_amount |-> N,
                                  dad_blocked |-> D, active_processes |-> A]
    BY <1>2 DEF FamilyShape
  <2>2. g = [a EXCEPT !.child_amount[p] = 0,
                      !.active_processes = a.active_processes - 1]
    BY DEF g
  <2> QED BY <2>1, <2>2
<1>8. ASSUME p \in Programs, f.childs \in [Slots -> [Slots -> Int]],
             ListHas(f, f.parent_pid[p], p), IsPidValid(k, f.parent_pid[p])
      PROVE  ListLoses(f, g, f.parent_pid[p], p)
  <2>1. PICK i \in Slots :
          /\ f.childs[f.parent_pid[p]][i] = p
          /\ r.childs = [f.childs EXCEPT ![f.parent_pid[p]] =
                           [f.childs[f.parent_pid[p]] EXCEPT ![i] = NoPid]]
          /\ r.child_amount = [f.child_amount EXCEPT
                                 ![f.parent_pid[p]] = f.child_amount[f.parent_pid[p]] - 1]
    BY <1>1, <1>8 DEF ListLoses
  <2>2. f.parent_pid[p] \in Slots
    BY <1>8 DEF IsPidValid
  <2>3. r.childs \in [Slots -> [Slots -> Int]] /\ r.child_amount[p] = 0
    <3>1. f.childs[f.parent_pid[p]] \in [Slots -> Int] /\ NoPid \in Int
      BY <1>8, <2>2 DEF NoPid
    <3> QED BY <1>1, <1>8, <2>1, <2>2, <3>1
  <2>4. a.childs = r.childs /\ a.child_amount = r.child_amount
    BY <1>2, <2>3
  <2>5. c = r.child_amount
    BY <1>1, <2>3, <2>4 DEF FamilyShape
  <2>6. g.childs = r.childs /\ g.child_amount = c
    BY <1>5, <2>4
  <2> QED BY <2>1, <2>5, <2>6 DEF ListLoses
<1> HIDE DEF c
<1>6. /\ g.parent_pid = a.parent_pid /\ g.dad_blocked = a.dad_blocked
      /\ g.child_amount = c /\ g.childs = a.childs
      /\ g.active_processes = a.active_processes - 1
  BY <1>5
<1>7. FamilyShape(g)
  BY <1>2, <1>4, <1>5, <1>6 DEF FamilyShape
<1>9. g.active_processes = f.active_processes - 1
  BY <1>1, <1>2, <1>6
<1>10. /\ \A q \in Programs : g.child_amount[q] = 0
       /\ g.dad_blocked = f.dad_blocked
       /\ p \in Programs => \A q \in Slots : g.parent_pid[q] = f.parent_pid[q]
  BY <1>1, <1>2, <1>4, <1>6
<1>11. Bereft(k, f, g, p)
  BY <1>7, <1>8, <1>9, <1>10 DEF Bereft
<1> QED BY <1>3, <1>11

\* The relations of a process that is no more, in place of those of q.
Emptied(f, g, q) ==
  /\ FamilyShape(g)
  /\ g.active_processes = f.active_processes
  /\ g.childs = [f.childs EXCEPT ![q] = NoChilds]
  /\ g.parent_pid[q] = NoPid /\ g.child_amount[q] = 0 /\ g.dad_blocked[q] = 0
  /\ \A p \in Slots \ {q} : /\ g.parent_pid[p] = f.parent_pid[p]
                            /\ g.child_amount[p] = f.child_amount[p]
                            /\ g.dad_blocked[p] = f.dad_blocked[p]

LEMMA FreeFamilyFacts ==
  ASSUME NEW f, FamilyShape(f), NEW q \in Slots
  PROVE  Emptied(f, FreeFamily(f, q), q)
<1> DEFINE g == FreeFamily(f, q)
           a == [f.parent_pid EXCEPT ![q] = NoPid]
           b == [f.childs EXCEPT ![q] = NoChilds]
           c == [f.child_amount EXCEPT ![q] = 0]
           d == [f.dad_blocked EXCEPT ![q] = 0]
<1>1. g = [parent_pid |-> a, childs |-> b, child_amount |-> c, dad_blocked |-> d,
           active_processes |-> f.active_processes]
  <2>1. PICK P, C, N, D, A : f = [parent_pid |-> P, childs |-> C, child_amount |-> N,
                                  dad_blocked |-> D, active_processes |-> A]
    BY DEF FamilyShape
  <2>2. g = [f EXCEPT !.parent_pid[q] = NoPid, !.childs[q] = NoChilds,
                      !.child_amount[q] = 0, !.dad_blocked[q] = 0]
    BY DEF FreeFamily
  <2> HIDE DEF g
  <2> QED BY <2>1, <2>2
<1>2. /\ a \in [Slots -> {IDLE_PID, SHELL_PID, NoPid}]
      /\ c \in [Slots -> Int] /\ d \in [Slots -> {0, 1}]
      /\ a[q] = NoPid /\ c[q] = 0 /\ d[q] = 0
      /\ \A p \in Slots \ {q} : /\ a[p] = f.parent_pid[p]
                                /\ c[p] = f.child_amount[p]
                                /\ d[p] = f.dad_blocked[p]
  BY DEF FamilyShape
<1> HIDE DEF a, b, c, d, g
<1>3. /\ g.parent_pid = a /\ g.childs = b /\ g.child_amount = c
      /\ g.dad_blocked = d /\ g.active_processes = f.active_processes
  BY <1>1
<1>4. FamilyShape(g)
  BY <1>1, <1>2, <1>3 DEF FamilyShape
<1> QED BY <1>2, <1>3, <1>4 DEF g, b, Emptied

\* The first free entry of the shell's list takes the new child.
ListGains(f, g, p, q) ==
  \E i \in Slots :
    /\ f.childs[p][i] = NoPid
    /\ g.childs = [f.childs EXCEPT ![p] = [f.childs[p] EXCEPT ![i] = q]]
    /\ g.child_amount = [f.child_amount EXCEPT ![p] = f.child_amount[p] + 1]

LEMMA AddChildFacts ==
  ASSUME NEW f, FamilyShape(f), NEW p \in Slots \ Programs, NEW q \in Slots
  PROVE  LET g == AddChild(f, p, q)
         IN  /\ FamilyShape(g)
             /\ g.parent_pid = f.parent_pid /\ g.dad_blocked = f.dad_blocked
             /\ g.active_processes = f.active_processes
             /\ \A r \in Programs : g.child_amount[r] = f.child_amount[r]
             /\ ListHas(f, p, NoPid) => ListGains(f, g, p, q)
<1> DEFINE g == AddChild(f, p, q)
           free == {i \in Slots : f.childs[p][i] = NoPid}
<1>1. CASE free = {}
  <2>1. g = f
    BY <1>1 DEF AddChild
  <2> QED BY <1>1, <2>1 DEF ListHas
<1>2. CASE free # {}
  <2> DEFINE b == [f.childs EXCEPT ![p] = [f.childs[p] EXCEPT ![Least(free)] = q]]
             c == [f.child_amount EXCEPT ![p] = f.child_amount[p] + 1]
  <2>1. g = [parent_pid |-> f.parent_pid, childs |-> b, child_amount |-> c,
             dad_blocked |-> f.dad_blocked, active_processes |-> f.active_processes]
    <3>1. g = [f EXCEPT !.childs[p][Least(free)] = q,
                        !.child_amount[p] = f.child_amount[p] + 1]
      BY <1>2 DEF AddChild
    <3> HIDE DEF g, free
    <3> QED BY <3>1 DEF FamilyShape
  <2>2. c \in [Slots -> Int] /\ \A r \in Programs : c[r] = f.child_amount[r]
    BY DEF FamilyShape, Programs
  <2> HIDE DEF g, b, c
  <2>3. /\ g.parent_pid = f.parent_pid /\ g.dad_blocked = f.dad_blocked
        /\ g.active_processes = f.active_processes
        /\ g.childs = b /\ g.child_amount = c
    BY <2>1
  <2>4. FamilyShape(g)
    BY <2>1, <2>2, <2>3 DEF FamilyShape
  <2>5. Least(free) \in free
    <3>1. free \in SUBSET Nat
      BY DEF Slots
    <3> QED BY <1>2, <3>1, LeastIsLeast
  <2>6. ListGains(f, g, p, q)
    BY <2>3, <2>5 DEF ListGains, b, c
  <2> QED BY <2>2, <2>3, <2>4, <2>6 DEF g
<1> QED BY <1>1, <1>2

\* The relations with q as a new child of the shell.
Grown(f, g, q) ==
  /\ FamilyShape(g)
  /\ g.parent_pid[q] = SHELL_PID /\ g.dad_blocked[q] = 0
  /\ g.child_amount[q] = 0
  /\ \A p \in Slots \ {q} : /\ g.parent_pid[p] = f.parent_pid[p]
                            /\ g.dad_blocked[p] = f.dad_blocked[p]
  /\ \A p \in Programs \ {q} : g.child_amount[p] = f.child_amount[p]
  /\ ListHas(f, SHELL_PID, NoPid)
       => \E n : /\ n.childs = [f.childs EXCEPT ![q] = NoChilds]
                /\ n.child_amount = [f.child_amount EXCEPT ![q] = 0]
                /\ ListGains(n, g, SHELL_PID, q)
  /\ g.active_processes = f.active_processes + 1

LEMMA NewFamilyFacts ==
  ASSUME NEW k, NEW f, FamilyShape(f), NEW q \in Programs,
         GetPid(k) = SHELL_PID, IsPidValid(k, SHELL_PID)
  PROVE  Grown(f, NewFamily(k, f, q), q)
<1> DEFINE e == FreeFamily(f, q)
           n == [e EXCEPT !.parent_pid[q] = SHELL_PID,
                          !.active_processes = e.active_processes + 1]
           g == AddChild(n, SHELL_PID, q)
<1>0. q \in Slots /\ SHELL_PID \in Slots \ Programs
  BY ShellIsNotIdle DEF Programs
<1>1. /\ FamilyShape(e)
      /\ e.dad_blocked[q] = 0 /\ e.child_amount[q] = 0
      /\ \A p \in Slots \ {q} : /\ e.parent_pid[p] = f.parent_pid[p]
                                /\ e.child_amount[p] = f.child_amount[p]
                                /\ e.dad_blocked[p] = f.dad_blocked[p]
      /\ e.childs = [f.childs EXCEPT ![q] = NoChilds]
      /\ e.active_processes = f.active_processes
  BY <1>0, FreeFamilyFacts DEF Emptied
<1>e. e.child_amount = [f.child_amount EXCEPT ![q] = 0]
  BY <1>1 DEF FamilyShape
<1>2. NewFamily(k, f, q) = g
  BY DEF NewFamily
<1> HIDE DEF e
<1>3. /\ FamilyShape(n)
      /\ n.dad_blocked = e.dad_blocked /\ n.child_amount = e.child_amount
      /\ n.childs = e.childs /\ n.active_processes = e.active_processes + 1
      /\ n.parent_pid[q] = SHELL_PID
      /\ \A p \in Slots \ {q} : n.parent_pid[p] = e.parent_pid[p]
  <2>1. n = [e EXCEPT !.parent_pid[q] = SHELL_PID,
                      !.active_processes = e.active_processes + 1]
    OBVIOUS
  <2> HIDE DEF n
  <2>2. PICK P, C, N, D, A : e = [parent_pid |-> P, childs |-> C, child_amount |-> N,
                                  dad_blocked |-> D, active_processes |-> A]
    BY <1>1 DEF FamilyShape
  <2>3. n = [parent_pid |-> [P EXCEPT ![q] = SHELL_PID], childs |-> C,
             child_amount |-> N, dad_blocked |-> D, active_processes |-> A + 1]
    BY <2>1, <2>2
  <2>4. P \in [Slots -> {IDLE_PID, SHELL_PID, NoPid}] /\ P = e.parent_pid
    BY <1>1, <2>2 DEF FamilyShape
  <2>5. /\ n.dad_blocked = e.dad_blocked /\ n.child_amount = e.child_amount
        /\ n.childs = e.childs /\ n.active_processes = e.active_processes + 1
        /\ n.parent_pid = [P EXCEPT ![q] = SHELL_PID]
        /\ n = [parent_pid |-> n.parent_pid, childs |-> n.childs,
                child_amount |-> n.child_amount, dad_blocked |-> n.dad_blocked,
                active_processes |-> n.active_processes]
    BY <2>2, <2>3
  <2>6. [P EXCEPT ![q] = SHELL_PID] \in [Slots -> {IDLE_PID, SHELL_PID, NoPid}]
    BY <2>4
  <2>7. FamilyShape(n)
    BY <1>1, <2>5, <2>6 DEF FamilyShape
  <2> QED BY <1>0, <2>4, <2>5, <2>7
<1> HIDE DEF n
<1>4. /\ FamilyShape(g)
      /\ g.parent_pid = n.parent_pid /\ g.dad_blocked = n.dad_blocked
      /\ \A r \in Programs : g.child_amount[r] = n.child_amount[r]
      /\ ListHas(n, SHELL_PID, NoPid) => ListGains(n, g, SHELL_PID, q)
      /\ g.active_processes = n.active_processes
  BY <1>0, <1>3, AddChildFacts
<1>5. ListHas(f, SHELL_PID, NoPid) => ListHas(n, SHELL_PID, NoPid)
  <2>1. n.childs[SHELL_PID] = f.childs[SHELL_PID]
    BY <1>0, <1>1, <1>3 DEF Programs
  <2> QED BY <2>1 DEF ListHas
<1> HIDE DEF g
<1> QED BY <1>0, <1>1, <1>2, <1>3, <1>4, <1>5, <1>e DEF Programs, Grown

-----------------------------------------------------------------------------
(* The invariant of wait().                                                *)

\* The record of the table's family fields, and what the next one is.
LEMMA FamilyIs ==
  /\ Family.parent_pid = parent_pid /\ Family.childs = childs
  /\ Family.child_amount = child_amount /\ Family.dad_blocked = dad_blocked
  /\ Family.active_processes = active_processes
  /\ FamilyTypeOK => FamilyShape(Family)
BY DEF Family, FamilyTypeOK, FamilyShape

LEMMA FamilyBecomesType ==
  ASSUME NEW g, FamilyShape(g), FamilyBecomes(g), dangling' \in [Slots -> BOOLEAN]
  PROVE  /\ FamilyTypeOK'
         /\ parent_pid' = g.parent_pid /\ child_amount' = g.child_amount
         /\ dad_blocked' = g.dad_blocked /\ childs' = g.childs
         /\ active_processes' = g.active_processes
BY DEF FamilyBecomes, FamilyShape, FamilyTypeOK

\* Phase and state of a process.
LEMMA PhaseOfSlot ==
  ASSUME SchedInv, NEW p \in Slots
  PROVE  /\ state[p] \in ProcessState
         /\ PhaseOf(state[p]) = "free" <=> state[p] = "INVALID"
         /\ PhaseOf(state[p]) = "exited" <=> state[p] = "ZOMBIE"
         /\ PhaseOf(state[p]) = "live" <=> Live(p)
<1>1. state[p] \in ProcessState
  BY DEF SchedInv, Settled, KernelType, Kernel
<1> QED BY <1>1, PhaseFacts DEF Live

LEMMA KernelNext ==
  ASSUME NEW r, KernelBecomes(r), Settled(r)
  PROVE  /\ SchedInv'
         /\ state' = r.state /\ blocks_amount' = r.blocks_amount
         /\ IdleLives(Kernel)' <=> IdleLives(r)
<1>1. SchedInv'
  BY KernelBecomesSettled
<1>2. state' = r.state /\ blocks_amount' = r.blocks_amount
  BY DEF KernelBecomes
<1>3. IdleLives(Kernel)' <=> IdleLives(r)
  BY <1>2 DEF IdleLives, Kernel
<1> QED BY <1>1, <1>2, <1>3

LEMMA SamePhases ==
  ASSUME SchedInv, NEW r, KernelBecomes(r), Settled(r), Phases(r) = Phases(Kernel),
         NEW p \in Slots
  PROVE  /\ Live(p)' <=> Live(p)
         /\ state'[p] = "INVALID" <=> state[p] = "INVALID"
         /\ state'[p] = "ZOMBIE" <=> state[p] = "ZOMBIE"
<1>1. r.state = state' /\ r \in KernelType
  BY KernelNext DEF Settled
<1>2. PhaseOf(state'[p]) = PhaseOf(state[p])
  BY <1>1 DEF Phases, Kernel
<1>3. state'[p] \in ProcessState
  BY <1>1 DEF KernelType
<1>4. /\ PhaseOf(state'[p]) = "free" <=> state'[p] = "INVALID"
      /\ PhaseOf(state'[p]) = "exited" <=> state'[p] = "ZOMBIE"
      /\ PhaseOf(state'[p]) = "live" <=> Live(p)'
  BY <1>3, PhaseFacts DEF Live
<1> QED BY <1>2, <1>4, PhaseOfSlot

LEMMA WaitInitInv == ProcInit => WaitInv
<1> SUFFICES ASSUME ProcInit
             PROVE  WaitInv
  OBVIOUS
<1>1. ProcInv
  BY ProcInitInv
<1>2. /\ waiting = [p \in Slots |-> NoPid] /\ dangling = [p \in Slots |-> FALSE]
      /\ dad_blocked = [p \in Slots |-> 0]
      /\ child_amount = [p \in Slots |-> IF p = IDLE_PID THEN 1 ELSE 0]
      /\ parent_pid = [p \in Slots |-> IF p = SHELL_PID THEN IDLE_PID ELSE NoPid]
  BY DEF ProcInit
<1>S. /\ FirstProc = SHELL_PID /\ SHELL_PID # IDLE_PID
      /\ state = [p \in Slots |-> CASE p = IDLE_PID -> "BLOCKED"
                                    [] p = FirstProc -> "RUNNING"
                                    [] p \in Procs \ {FirstProc} -> "READY"
                                    [] OTHER         -> "INVALID"]
  BY FirstIsAClient, ShellAssumption, ShellIsNotIdle DEF ProcInit, SchedInit
<1>P. /\ state[IDLE_PID] = "BLOCKED" /\ state[SHELL_PID] = "RUNNING"
      /\ \A p \in Programs : state[p] = "INVALID"
  BY <1>S, ShellAssumption, ShellIsNotIdle DEF Programs
<1>3. FamilyTypeOK /\ IdleLives(Kernel)
  BY <1>2, <1>P DEF FamilyTypeOK, IdleLives, Kernel
<1>4. /\ \A p \in Programs : child_amount[p] = 0
      /\ \A p \in Slots : ~dangling[p] /\ (p # SHELL_PID => waiting[p] = NoPid)
      /\ \A q \in Slots : dad_blocked[q] = 1 => waiting[SHELL_PID] = q
      /\ waiting[SHELL_PID] = NoPid
  BY <1>2, ShellIsNotIdle DEF Programs
<1> QED BY <1>1, <1>3, <1>4 DEF WaitInv

\* A step that moves no process from one phase to another, and leaves a shell
\* that waits as blocked as it was, leaves wait() as it was.
LEMMA PhasesWaits ==
  ASSUME WaitInv, UNCHANGED <<familyVars, waiting, dangling>>,
         NEW r, KernelBecomes(r), Settled(r), IdleLives(r), Phases(r) = Phases(Kernel),
         waiting[SHELL_PID] = NoPid \/ Untouched(Kernel, r, SHELL_PID)
  PROVE  WaitInv'
<1>0. SchedInv
  BY DEF WaitInv, ProcInv
<1>1. ProcInv'
  BY KernelNext DEF WaitInv, ProcInv
<1>2. /\ state' = r.state /\ blocks_amount' = r.blocks_amount
      /\ IdleLives(Kernel)'
  BY KernelNext
<1>3. \A p \in Slots : /\ Live(p)' <=> Live(p)
                       /\ state'[p] = "INVALID" <=> state[p] = "INVALID"
  BY <1>0, SamePhases
<1>4. ASSUME waiting[SHELL_PID] # NoPid
      PROVE  Awaits(waiting[SHELL_PID])'
  <2> DEFINE q == waiting[SHELL_PID]
  <2>1. q \in Slots /\ Awaits(q) /\ q = q'
    BY <1>4, ShellIsNotIdle DEF WaitInv, ProcInv
  <2> HIDE DEF q
  <2>2. /\ state[SHELL_PID] = "BLOCKED" /\ blocks_amount[SHELL_PID] = 1
             => state'[SHELL_PID] = "BLOCKED" /\ blocks_amount'[SHELL_PID] = 1
        /\ state[SHELL_PID] \in {"READY", "RUNNING"}
             => state'[SHELL_PID] \in {"READY", "RUNNING"}
    BY <1>2, <1>4 DEF Untouched, Kernel
  <2>3. Awaits(q)'
    BY <1>3, <2>1, <2>2 DEF Awaits, familyVars
  <2> QED BY <2>3 DEF q
<1> QED BY <1>1, <1>2, <1>3, <1>4 DEF WaitInv, FamilyTypeOK, familyVars

LEMMA SchedStepWaits ==
  ASSUME WaitInv, SHELL_PID \notin Targets, SchedStep
  PROVE  WaitInv'
<1>1. PICK r : /\ KernelBecomes(r) /\ Settled(r) /\ IdleLives(r)
               /\ Phases(r) = Phases(Kernel)
               /\ Untouched(Kernel, r, SHELL_PID)
  BY SchedStepFacts DEF WaitInv, ProcInv
<1>2. UNCHANGED <<familyVars, waiting, dangling>>
  BY DEF SchedStep
<1> QED BY <1>1, <1>2, PhasesWaits

\* A slot that is given to a new process, or emptied, by the shell on the CPU.
LEMMA SlotWaits ==
  ASSUME WaitInv, ProcInv', Caller = SHELL_PID, waiting[SHELL_PID] = NoPid,
         NEW q \in Programs, NEW g, FamilyShape(g), FamilyBecomes(g),
         g.dad_blocked[q] = 0, g.child_amount[q] = 0,
         \A p \in Slots \ {q} : g.dad_blocked[p] = dad_blocked[p],
         \A p \in Programs \ {q} : g.child_amount[p] = child_amount[p],
         NEW r, KernelBecomes(r), Settled(r),
         \A p \in Slots \ {q} : r.state[p] = state[p],
         Freed(q), waiting' = waiting
  PROVE  WaitInv'
<1>1. \A p \in Slots : waiting[p] = NoPid /\ ~dangling[p]
  BY ShellIsNotIdle DEF WaitInv
<1>2. dangling' \in [Slots -> BOOLEAN] /\ \A p \in Slots : ~dangling'[p]
  BY <1>1, ShellIsNotIdle DEF Freed, Programs, WaitInv, FamilyTypeOK
<1>3. FamilyTypeOK' /\ child_amount' = g.child_amount /\ dad_blocked' = g.dad_blocked
  BY <1>2, FamilyBecomesType
<1>4. IdleLives(Kernel)'
  BY KernelNext, ShellIsNotIdle DEF WaitInv, IdleLives, Kernel, Programs
<1>5. \A p \in Programs : child_amount'[p] = 0
  BY <1>3 DEF WaitInv
<1>6. \A p \in Slots : dad_blocked'[p] = 1 => waiting'[SHELL_PID] = p
  BY <1>3 DEF WaitInv
<1> QED BY <1>1, <1>2, <1>3, <1>4, <1>5, <1>6 DEF WaitInv

LEMMA CreateWaits ==
  ASSUME WaitInv, ProcInv', SysCreate, Caller = SHELL_PID
  PROVE  WaitInv'
<1>0. /\ SchedInv /\ IdleLives(Kernel) /\ FamilyShape(Family)
      /\ Settled(Kernel) /\ Kernel.current_index = Caller
      /\ state[Caller] = "RUNNING" /\ GetPid(Kernel) = Caller /\ Kernel.state = state
  BY RunnerFacts, FamilyIs DEF WaitInv, ProcInv, Kernel
<1>1. Caller = SHELL_PID /\ waiting[SHELL_PID] = NoPid /\ waiting' = waiting
  BY <1>0 DEF SysCreate, InWait, UserRuns, Caller
<1>2. PICK q \in FreeSlots(Kernel) :
        /\ Freed(q)
        /\ \/ /\ KernelBecomes(NewKernel(Kernel, q))
              /\ FamilyBecomes(NewFamily(Kernel, Family, q))
           \/ /\ KernelBecomes(FreeKernel(Kernel, q))
              /\ FamilyBecomes(FreeFamily(Family, q))
  <2>1. FreeSlots(Kernel) \in SUBSET Nat /\ FreeSlots(Kernel) # {}
    BY DEF SysCreate, FreeSlots, Slots
  <2>2. Least(FreeSlots(Kernel)) \in FreeSlots(Kernel)
    BY <2>1, LeastIsLeast
  <2> QED BY <2>2 DEF SysCreate
<1>3. q \in Programs /\ q \in Slots /\ q # Kernel.current_index
  BY <1>0, <1>1 DEF FreeSlots, Programs, IdleLives
<1>4. IsPidValid(Kernel, SHELL_PID)
  BY <1>0, <1>1, ShellIsNotIdle DEF IsPidValid
<1>5. CASE KernelBecomes(NewKernel(Kernel, q)) /\ FamilyBecomes(NewFamily(Kernel, Family, q))
  <2> DEFINE g == NewFamily(Kernel, Family, q)
             r == NewKernel(Kernel, q)
  <2>1. /\ FamilyShape(g)
        /\ g.dad_blocked[q] = 0 /\ g.child_amount[q] = 0
        /\ \A p \in Slots \ {q} : g.dad_blocked[p] = dad_blocked[p]
        /\ \A p \in Programs \ {q} : g.child_amount[p] = child_amount[p]
    <3>1. Grown(Family, g, q)
      BY <1>0, <1>1, <1>3, <1>4, NewFamilyFacts
    <3> HIDE DEF g
    <3> QED BY <3>1, FamilyIs DEF Grown, Programs
  <2>2. Settled(r) /\ \A p \in Slots \ {q} : r.state[p] = state[p]
    BY <1>0, <1>3, NewKernelFacts
  <2> HIDE DEF g, r
  <2> QED BY <1>1, <1>2, <1>3, <1>5, <2>1, <2>2, SlotWaits DEF g, r
<1>6. CASE KernelBecomes(FreeKernel(Kernel, q)) /\ FamilyBecomes(FreeFamily(Family, q))
  <2> DEFINE g == FreeFamily(Family, q)
             r == FreeKernel(Kernel, q)
  <2>1. /\ FamilyShape(g)
        /\ g.dad_blocked[q] = 0 /\ g.child_amount[q] = 0
        /\ \A p \in Slots \ {q} : g.dad_blocked[p] = dad_blocked[p]
        /\ \A p \in Programs \ {q} : g.child_amount[p] = child_amount[p]
    <3>1. q \in Slots
      BY <1>3
    <3>2. Emptied(Family, g, q)
      BY <1>0, <3>1, FreeFamilyFacts
    <3> HIDE DEF g
    <3>3. Family.child_amount = child_amount /\ Family.dad_blocked = dad_blocked
      BY FamilyIs
    <3> QED BY <1>3, <3>2, <3>3 DEF Emptied, Programs
  <2>2. Settled(r) /\ \A p \in Slots \ {q} : r.state[p] = state[p]
    BY <1>0, <1>3, FreeKernelFacts
  <2> HIDE DEF g, r
  <2> QED BY <1>1, <1>2, <1>3, <1>6, <2>1, <2>2, SlotWaits DEF g, r
<1> QED BY <1>2, <1>5, <1>6

\* What a kill makes of the states: the processes that end, the shell woken up
\* by the end of the one it waits for, and the others as they were.
LEMMA KillStates ==
  ASSUME WaitInv, NEW p \in Slots \ {IDLE_PID}, Kill(p)
  PROVE  /\ Live(p) /\ SchedInv' /\ IdleLives(Kernel)'
         /\ \A q \in Slots \ {IDLE_PID} : q \in Dying(Kernel, p) => state'[q] = "ZOMBIE"
         /\ \A q \in Slots \ {IDLE_PID} : q \notin Dying(Kernel, p) =>
              IF dad_blocked[p] = 1 /\ q = SHELL_PID
              THEN state'[q] \in {"READY", "RUNNING"} /\ waiting[SHELL_PID] = p
              ELSE Untouched(Kernel, Kernel', q)
<1> DEFINE r == KillKernel(Kernel, Family, p)
<1>0. /\ SchedInv /\ Coherent(Kernel) /\ IdleLives(Kernel)
      /\ Kernel.state = state /\ Kernel.blocks_amount = blocks_amount
      /\ Family.dad_blocked = dad_blocked /\ Family.parent_pid = parent_pid
  BY RunnerFacts, SettledCoherent, FamilyIs DEF WaitInv, ProcInv, Kernel
<1>1. KernelBecomes(r) /\ Live(p)
  <2>1. IsPidValid(Kernel, p) /\ state[p] # "ZOMBIE"
    BY DEF Kill
  <2>2. Live(p)
    BY <1>0, <2>1, PhaseOfSlot DEF IsPidValid, Live, ProcessState
  <2> QED BY <2>2 DEF Kill
<1>2. dad_blocked[p] = 1 => waiting[SHELL_PID] = p
  BY DEF WaitInv
<1>3. WakesOnlyShell(Kernel, Family, p)
  <2> SUFFICES ASSUME dad_blocked[p] = 1
               PROVE  /\ p # SHELL_PID /\ parent_pid[p] = SHELL_PID
                      /\ state[SHELL_PID] = "BLOCKED" /\ blocks_amount[SHELL_PID] = 1
    BY <1>0 DEF WakesOnlyShell
  <2>1. Awaits(p)
    BY <1>2, ShellIsNotIdle DEF WaitInv
  <2>2. p # SHELL_PID
    BY <1>2, ShellIsNotIdle DEF WaitInv, ProcInv
  <2> QED BY <1>1, <2>1, <2>2 DEF Awaits
<1>4. /\ Settled(r) /\ IdleLives(r)
      /\ \A q \in Slots \ {IDLE_PID} : q \in Dying(Kernel, p) => r.state[q] = "ZOMBIE"
      /\ \A q \in Slots \ {IDLE_PID} : q \notin Dying(Kernel, p) =>
           IF Family.dad_blocked[p] = 1 /\ q = SHELL_PID
           THEN r.state[q] \in {"READY", "RUNNING"}
           ELSE Untouched(Kernel, r, q)
  BY <1>0, <1>3, KillOutcome
<1> HIDE DEF r
<1>5. /\ state' = r.state /\ blocks_amount' = r.blocks_amount
      /\ IdleLives(Kernel)' /\ SchedInv'
      /\ Kernel'.state = state' /\ Kernel'.blocks_amount = blocks_amount'
  BY <1>1, <1>4, KernelNext DEF Kernel
<1> QED BY <1>0, <1>1, <1>2, <1>4, <1>5 DEF Untouched

\* Whoever is killed, the shell that waits for it wakes up, and the shell that
\* waits for somebody else sleeps on.
LEMMA KillWaits ==
  ASSUME WaitInv, ProcInv', NEW p \in Slots \ {IDLE_PID}, Kill(p),
         p = SHELL_PID => waiting[SHELL_PID] = NoPid
  PROVE  WaitInv'
<1> DEFINE g == KillFamily(Kernel, Family, p)
<1>w. PICK w : w = waiting[SHELL_PID]
  OBVIOUS
<1>0. /\ SchedInv /\ IdleLives(Kernel) /\ FamilyShape(Family)
      /\ Kernel.state = state /\ Kernel.blocks_amount = blocks_amount
      /\ Kernel'.state = state' /\ Kernel'.blocks_amount = blocks_amount'
      /\ w \in Slots \cup {NoPid} /\ w # SHELL_PID
  BY <1>w, FamilyIs, ShellIsNotIdle DEF WaitInv, ProcInv, Kernel
<1>K. /\ FamilyBecomes(g)
      /\ waiting' = [q \in Slots |-> IF state'[q] = "ZOMBIE" THEN NoPid ELSE waiting[q]]
      /\ dangling' = [q \in Slots |-> state'[q] # "ZOMBIE" /\ dangling[q]]
  BY DEF Kill
<1>2. /\ IdleLives(Kernel)' /\ SchedInv'
      /\ \A q \in Slots \ {IDLE_PID} : q \in Dying(Kernel, p) => state'[q] = "ZOMBIE"
      /\ \A q \in Slots \ {IDLE_PID} : q \notin Dying(Kernel, p) =>
           IF dad_blocked[p] = 1 /\ q = SHELL_PID
           THEN state'[q] \in {"READY", "RUNNING"}
           ELSE Untouched(Kernel, Kernel', q)
  BY KillStates
<1>3. /\ FamilyShape(g)
      /\ \A q \in Programs : g.child_amount[q] = 0
      /\ g.dad_blocked = dad_blocked
      /\ p \in Programs => \A q \in Slots : g.parent_pid[q] = parent_pid[q]
  <2>1. \A q \in Programs : Family.child_amount[q] = 0
    BY FamilyIs DEF WaitInv
  <2>2. Bereft(Kernel, Family, g, p)
    BY <1>0, <2>1, KillFamilyFacts
  <2> HIDE DEF g
  <2>3. Family.dad_blocked = dad_blocked /\ Family.parent_pid = parent_pid
    BY FamilyIs
  <2> QED BY <2>2, <2>3 DEF Bereft
<1> HIDE DEF g
<1>5. dangling' \in [Slots -> BOOLEAN] /\ \A q \in Slots : ~dangling'[q]
  BY <1>K DEF WaitInv, FamilyTypeOK
<1>6. /\ FamilyTypeOK' /\ child_amount' = g.child_amount
      /\ dad_blocked' = g.dad_blocked /\ parent_pid' = g.parent_pid
  BY <1>3, <1>5, <1>K, FamilyBecomesType
<1>7. CASE p = SHELL_PID
  <2>1. waiting'[SHELL_PID] = NoPid /\ w = NoPid
    BY <1>7, <1>w, <1>K, ShellIsNotIdle
  <2>2. \A q \in Slots : dad_blocked'[q] # 1
    BY <1>3, <1>6, <1>w, <2>1, ShellIsNotIdle DEF WaitInv
  <2>3. \A q \in Slots \ {SHELL_PID} : waiting'[q] = NoPid
    BY <1>K DEF WaitInv
  <2> QED BY <1>2, <1>3, <1>5, <1>6, <2>1, <2>2, <2>3 DEF WaitInv
<1>8. CASE p # SHELL_PID
  <2>0. p \in Programs /\ Dying(Kernel, p) = {p} /\ SHELL_PID \in Slots \ {IDLE_PID}
    BY <1>8, ShellIsNotIdle DEF Programs, Dying
  <2>1. ASSUME w # NoPid
        PROVE  Awaits(w)' /\ state'[SHELL_PID] # "ZOMBIE"
    <3>0. w \in Slots /\ Awaits(w)
      BY <1>0, <1>w, <2>1 DEF WaitInv
    <3>1. CASE dad_blocked[p] = 1
      <4>1. w = p
        BY <1>w, <3>1 DEF WaitInv
      <4>2. state'[SHELL_PID] \in {"READY", "RUNNING"} /\ state'[p] = "ZOMBIE"
        BY <1>2, <1>8, <2>0, <3>1
      <4>3. ~Live(p)'
        BY <4>2 DEF Live
      <4>4. parent_pid'[w] = SHELL_PID /\ dad_blocked'[w] = 1
        BY <1>3, <1>6, <2>0, <3>0 DEF Awaits
      <4> QED BY <4>1, <4>2, <4>3, <4>4 DEF Awaits
    <3>2. CASE dad_blocked[p] # 1
      <4>1. w # p
        BY <3>0, <3>2 DEF Awaits
      <4>2. Untouched(Kernel, Kernel', SHELL_PID)
        BY <1>2, <1>8, <2>0, <3>2
      <4>3. /\ Live(w)' <=> Live(w)
            /\ state'[w] # "INVALID"
        <5>1. CASE w = IDLE_PID
          <6>1. state[w] \in ProcessState /\ state'[w] \in ProcessState
            BY <1>0, <1>2, <3>0, PhaseOfSlot, SlotsAssumption DEF SchedInv, Settled, KernelType, Kernel
          <6> QED BY <1>0, <1>2, <5>1, <6>1 DEF IdleLives, Kernel, Live, ProcessState
        <5>2. CASE w # IDLE_PID
          <6>1. Untouched(Kernel, Kernel', w) /\ w \in Slots
            BY <1>0, <1>2, <2>0, <3>0, <4>1, <5>2
          <6>2. state[w] \in ProcessState /\ state'[w] \in ProcessState
            BY <1>0, <1>2, <6>1 DEF SchedInv, Settled, KernelType, Kernel
          <6>3. state[w] # "INVALID"
            BY <3>0 DEF Awaits
          <6> QED BY <1>0, <6>1, <6>2, <6>3 DEF Untouched, Live, ProcessState
        <5> QED BY <5>1, <5>2
      <4>4. parent_pid'[w] = SHELL_PID /\ dad_blocked'[w] = 1
        BY <1>3, <1>6, <2>0, <3>0 DEF Awaits
      <4>5. /\ Live(w)' => state'[SHELL_PID] = "BLOCKED" /\ blocks_amount'[SHELL_PID] = 1
            /\ ~Live(w)' => state'[SHELL_PID] \in {"READY", "RUNNING"}
        BY <1>0, <3>0, <4>2, <4>3 DEF Awaits, Untouched
      <4>6. state'[SHELL_PID] # "ZOMBIE"
        BY <4>5
      <4> QED BY <4>3, <4>4, <4>5, <4>6 DEF Awaits
    <3> QED BY <3>1, <3>2
  <2>2. waiting'[SHELL_PID] = w
    BY <1>w, <1>K, <2>0, <2>1
  <2>3. \A q \in Slots \ {SHELL_PID} : waiting'[q] = NoPid
    BY <1>K DEF WaitInv
  <2>4. \A q \in Slots : dad_blocked'[q] = 1 => waiting'[SHELL_PID] = q
    BY <1>3, <1>6, <1>w, <2>2 DEF WaitInv
  <2>5. waiting'[SHELL_PID] # NoPid => Awaits(waiting[SHELL_PID])'
    BY <2>1, <2>2 DEF Awaits, Live
  <2> QED BY <1>2, <1>3, <1>5, <1>6, <2>3, <2>4, <2>5 DEF WaitInv
<1> QED BY <1>7, <1>8

\* The call of wait() that finds its child alive.
LEMMA WaitStarts ==
  ASSUME WaitInv, NEW q \in Slots, SysWait(q), state[q] # "ZOMBIE"
  PROVE  /\ Caller = SHELL_PID /\ waiting[SHELL_PID] = NoPid
         /\ Live(q) /\ q # SHELL_PID
         /\ parent_pid[q] = SHELL_PID
         /\ waiting' = [waiting EXCEPT ![SHELL_PID] = q] /\ dangling' = dangling
         /\ IdleLives(Kernel)'
         /\ state'[SHELL_PID] = "BLOCKED" /\ blocks_amount'[SHELL_PID] = 1
         /\ \A p \in Slots : /\ Live(p)' <=> Live(p)
                             /\ state'[p] = "INVALID" <=> state[p] = "INVALID"
                             /\ state'[p] = "ZOMBIE" <=> state[p] = "ZOMBIE"
         /\ UNCHANGED <<parent_pid, childs, child_amount, active_processes>>
         /\ dad_blocked' = [dad_blocked EXCEPT ![q] = 1]
<1>0. /\ SchedInv /\ Settled(Kernel) /\ Kernel.current_index = Caller
      /\ IdleLives(Kernel) /\ Kernel.state = state
  BY RunnerFacts DEF WaitInv, ProcInv, Kernel
<1>1. Caller = SHELL_PID /\ waiting[SHELL_PID] = NoPid /\ parent_pid[q] = SHELL_PID
  <2>1. /\ parent_pid[q] = Caller /\ Caller # IDLE_PID /\ Caller \in Slots
        /\ waiting[Caller] = NoPid
    BY <1>0, RunnerFacts DEF SysWait, UserRuns, InWait
  <2> QED BY <2>1, ShellIsNotIdle DEF WaitInv, FamilyTypeOK
<1>2. Live(q)
  BY <1>0, PhaseOfSlot DEF SysWait, IsPidValid, Live, ProcessState
<1>3. /\ KernelBecomes(BlockProcess(Kernel, SHELL_PID))
      /\ FamilyBecomes([Family EXCEPT !.dad_blocked[q] = 1])
      /\ waiting' = [waiting EXCEPT ![SHELL_PID] = q] /\ dangling' = dangling
      /\ q # SHELL_PID
  BY <1>1 DEF SysWait
<1>4. UNCHANGED <<parent_pid, childs, child_amount, active_processes>>
      /\ dad_blocked' = [dad_blocked EXCEPT ![q] = 1]
  BY <1>3 DEF FamilyBecomes, Family
<1> DEFINE r == BlockProcess(Kernel, SHELL_PID)
<1>5. r.state[SHELL_PID] = "BLOCKED" /\ r.blocks_amount[SHELL_PID] = 1
  BY <1>0, <1>1, BlockSelf, ShellIsNotIdle
<1>6. Settled(r) /\ IdleLives(r) /\ Phases(r) = Phases(Kernel)
  BY <1>0, BlockPhases, ShellIsNotIdle
<1> HIDE DEF r
<1>7. KernelBecomes(r)
  BY <1>3 DEF r
<1>8. IdleLives(Kernel)' /\ state' = r.state /\ blocks_amount' = r.blocks_amount
  BY <1>6, <1>7, KernelNext
<1>9. \A p \in Slots : /\ Live(p)' <=> Live(p)
                       /\ state'[p] = "INVALID" <=> state[p] = "INVALID"
                       /\ state'[p] = "ZOMBIE" <=> state[p] = "ZOMBIE"
  BY <1>0, <1>6, <1>7, SamePhases
<1> QED BY <1>1, <1>2, <1>3, <1>4, <1>5, <1>8, <1>9

LEMMA SysWaitWaits ==
  ASSUME WaitInv, ProcInv', NEW q \in Slots, SysWait(q)
  PROVE  WaitInv'
<1>0. /\ SchedInv /\ Settled(Kernel) /\ Kernel.current_index = Caller
      /\ IdleLives(Kernel) /\ Kernel.state = state /\ FamilyShape(Family)
      /\ Caller \in Slots /\ GetPid(Kernel) = Caller
  BY RunnerFacts, FamilyIs DEF WaitInv, ProcInv, Kernel
<1>1. CASE state[q] = "ZOMBIE"
  <2>1. Caller = SHELL_PID /\ waiting[SHELL_PID] = NoPid /\ q # SHELL_PID
    <3>1. /\ parent_pid[q] = Caller /\ Caller # IDLE_PID /\ waiting[Caller] = NoPid
          /\ q # Caller
      BY <1>0 DEF SysWait, UserRuns, InWait
    <3> QED BY <1>0, <3>1, ShellIsNotIdle DEF WaitInv, FamilyTypeOK
  <2>2. q \in Programs
    BY <1>0, <1>1, <2>1 DEF IdleLives, Programs
  <2> DEFINE g == FreeFamily(Family, q)
             r == FreeKernel(Kernel, q)
  <2>3. /\ FamilyShape(g)
        /\ g.dad_blocked[q] = 0 /\ g.child_amount[q] = 0
        /\ \A p \in Slots \ {q} : g.dad_blocked[p] = dad_blocked[p]
        /\ \A p \in Programs \ {q} : g.child_amount[p] = child_amount[p]
    <3>1. Emptied(Family, g, q)
      BY <1>0, FreeFamilyFacts
    <3> HIDE DEF g
    <3> QED BY <3>1, FamilyIs DEF Emptied, Programs
  <2>4. Settled(r) /\ \A p \in Slots \ {q} : r.state[p] = state[p]
    BY <1>0, <2>1, FreeKernelFacts
  <2>5. /\ KernelBecomes(r) /\ FamilyBecomes(g)
        /\ Freed(q) /\ waiting' = waiting
    BY <1>1 DEF SysWait
  <2> HIDE DEF g, r
  <2> QED BY <2>1, <2>2, <2>3, <2>4, <2>5, SlotWaits
<1>2. CASE state[q] # "ZOMBIE"
  <2>1. /\ waiting[SHELL_PID] = NoPid
        /\ Live(q) /\ q # SHELL_PID
        /\ parent_pid[q] = SHELL_PID
        /\ waiting' = [waiting EXCEPT ![SHELL_PID] = q] /\ dangling' = dangling
        /\ IdleLives(Kernel)'
        /\ state'[SHELL_PID] = "BLOCKED" /\ blocks_amount'[SHELL_PID] = 1
        /\ Live(q)' /\ state'[q] # "INVALID"
        /\ UNCHANGED <<parent_pid, childs, child_amount, active_processes>>
        /\ dad_blocked' = [dad_blocked EXCEPT ![q] = 1]
    <3>1. state[q] # "INVALID"
      BY <1>0 DEF SysWait, IsPidValid
    <3> QED BY <1>2, <3>1, WaitStarts
  <2>2. waiting'[SHELL_PID] = q /\ \A p \in Slots \ {SHELL_PID} : waiting'[p] = NoPid
    BY <2>1, ShellIsNotIdle DEF WaitInv, ProcInv
  <2>3. \A p \in Slots : dad_blocked[p] # 1
    BY <2>1, ShellIsNotIdle DEF WaitInv
  <2>4. dad_blocked'[q] = 1 /\ \A p \in Slots : dad_blocked'[p] = 1 => p = q
    BY <2>1, <2>3 DEF WaitInv, FamilyTypeOK
  <2>5. Awaits(q)'
    BY <2>1, <2>4 DEF Awaits
  <2>6. Awaits(waiting[SHELL_PID])'
    BY <2>2, <2>5 DEF Awaits, Live
  <2>7. FamilyTypeOK'
    BY <2>1 DEF WaitInv, FamilyTypeOK
  <2> QED BY <2>1, <2>2, <2>4, <2>6, <2>7 DEF WaitInv
<1> QED BY <1>1, <1>2

\* The shell comes back from its wait(), to a child that has exited.
LEMMA ReturnFacts ==
  ASSUME WaitInv, WaitReturns
  PROVE  /\ Caller = SHELL_PID
         /\ waiting[SHELL_PID] \in Programs
         /\ state[waiting[SHELL_PID]] = "ZOMBIE"
<1>0. /\ SchedInv /\ IdleLives(Kernel) /\ Kernel.state = state
      /\ Caller \in Slots /\ state[Caller] = "RUNNING"
  BY RunnerFacts DEF WaitInv, ProcInv, Kernel
<1>1. Caller = SHELL_PID /\ waiting[SHELL_PID] # NoPid
  BY <1>0 DEF WaitReturns, InWait, WaitInv
<1> DEFINE q == waiting[SHELL_PID]
<1>2. q \in Slots /\ q # SHELL_PID /\ Awaits(q)
  BY <1>1, ShellIsNotIdle DEF WaitInv, ProcInv
<1> HIDE DEF q
<1>3. ~Live(q) /\ state[q] # "INVALID"
  BY <1>0, <1>1, <1>2 DEF Awaits
<1>4. state[q] = "ZOMBIE"
  BY <1>0, <1>2, <1>3, PhaseOfSlot DEF Live, ProcessState
<1>5. q # IDLE_PID
  BY <1>0, <1>4 DEF IdleLives
<1> QED BY <1>1, <1>2, <1>4, <1>5 DEF Programs, q

LEMMA ReturnWaits ==
  ASSUME WaitInv, ProcInv', WaitReturns
  PROVE  WaitInv'
<1> DEFINE q == waiting[SHELL_PID]
           g == FreeFamily(Family, q)
           r == FreeKernel(Kernel, q)
<1>0. /\ SchedInv /\ Settled(Kernel) /\ Kernel.current_index = Caller
      /\ IdleLives(Kernel) /\ Kernel.state = state /\ FamilyShape(Family)
  BY RunnerFacts, FamilyIs DEF WaitInv, ProcInv, Kernel
<1>1. Caller = SHELL_PID /\ q \in Programs /\ q \in Slots /\ q # SHELL_PID /\ q # IDLE_PID
  BY ReturnFacts DEF Programs
<1>2. /\ KernelBecomes(r) /\ FamilyBecomes(g)
      /\ waiting' = [waiting EXCEPT ![SHELL_PID] = NoPid, ![q] = NoPid]
      /\ dangling' = [p \in Slots |-> /\ p \notin {SHELL_PID, q}
                                      /\ dangling[p] \/ waiting[p] = q]
  BY <1>1 DEF WaitReturns
<1>3. Emptied(Family, g, q)
  BY <1>0, <1>1, FreeFamilyFacts
<1>4. Settled(r) /\ \A p \in Slots \ {q} : r.state[p] = state[p]
  BY <1>0, <1>1, FreeKernelFacts
<1> HIDE DEF g, r
<1>w. PICK w : w = q
  OBVIOUS
<1> HIDE DEF q
<1>5. /\ \A p \in Slots : waiting'[p] = NoPid
      /\ dangling' \in [Slots -> BOOLEAN] /\ \A p \in Slots : ~dangling'[p]
  BY <1>1, <1>2, ShellIsNotIdle DEF WaitInv, ProcInv
<1>6. FamilyTypeOK' /\ child_amount' = g.child_amount /\ dad_blocked' = g.dad_blocked
  BY <1>2, <1>3, <1>5, FamilyBecomesType DEF Emptied
<1>7. IdleLives(Kernel)'
  BY <1>1, <1>2, <1>4, KernelNext, ShellIsNotIdle DEF WaitInv, IdleLives, Kernel
<1>8. \A p \in Programs : child_amount'[p] = 0
  BY <1>1, <1>3, <1>6, FamilyIs DEF WaitInv, Emptied, Programs
<1>9. \A p \in Slots : dad_blocked'[p] # 1
  <2>1. \A p \in Slots \ {q} : dad_blocked[p] # 1
    BY DEF WaitInv, q
  <2> QED BY <1>1, <1>3, <1>6, <2>1, FamilyIs DEF Emptied
<1> QED BY <1>5, <1>6, <1>7, <1>8, <1>9, ShellIsNotIdle DEF WaitInv

LEMMA WaitNextInv ==
  OnlyShellCreates /\ WaitInv /\ [ProcNext]_procVars => WaitInv'
<1> SUFFICES ASSUME OnlyShellCreates, WaitInv, [ProcNext]_procVars
             PROVE  WaitInv'
  OBVIOUS
<1>0. ProcInv'
  BY ProcNextInv DEF WaitInv
<1>1. CASE SchedStep
  BY <1>1, SchedStepWaits DEF OnlyShellCreates
<1>2. CASE SysCreate
  BY <1>0, <1>2, CreateWaits DEF SysCreate, OnlyShellCreates
<1>3. CASE SysExit
  <2>1. /\ Caller \in Slots \ {IDLE_PID} /\ Kill(Caller)
        /\ waiting[Caller] = NoPid
    BY <1>3, RunnerFacts DEF SysExit, UserRuns, Kill, InWait, WaitInv, ProcInv
  <2> QED BY <1>0, <2>1, KillWaits
<1>4. ASSUME NEW p \in Targets, SysKill(p) \/ CtrlC(p)
      PROVE  WaitInv'
  <2>1. Kill(p) /\ p \in Slots \ {IDLE_PID} /\ p # SHELL_PID
    BY <1>4, TargetsAssumption DEF SysKill, CtrlC
  <2> QED BY <1>0, <2>1, KillWaits
<1>5. ASSUME NEW q \in Slots, SysWait(q)
      PROVE  WaitInv'
  BY <1>0, <1>5, SysWaitWaits
<1>6. CASE WaitReturns
  BY <1>0, <1>6, ReturnWaits
<1>7. CASE UNCHANGED procVars
  BY <1>0, <1>7 DEF procVars, schedVars, familyVars, WaitInv, FamilyTypeOK, Awaits, Live,
                    IdleLives, Kernel
<1> QED BY <1>1, <1>2, <1>3, <1>4, <1>5, <1>6, <1>7 DEF ProcNext

LEMMA WaitInvHolds ==
  ASSUME OnlyShellCreates
  PROVE  ProcSpec => []WaitInv
BY WaitInitInv, WaitNextInv, PTL DEF ProcSpec

\* The PCB that wait() took before its block is the one in the table when it
\* returns, and its parent is still the process that waits.
THEOREM WaitKeepsItsTarget ==
  ASSUME OnlyShellCreates
  PROVE  ProcSpec => []WaitTargetKept
<1>1. WaitInv => WaitTargetKept
  <2> SUFFICES ASSUME WaitInv, NEW p \in Slots, Waits(p)
               PROVE  /\ ~dangling[p] /\ state[waiting[p]] # "INVALID"
                      /\ parent_pid[waiting[p]] = p
    BY DEF WaitTargetKept
  <2>1. p = SHELL_PID /\ Awaits(waiting[SHELL_PID])
    BY DEF Waits, WaitInv
  <2> QED BY <2>1 DEF Awaits, WaitInv
<1> QED BY <1>1, WaitInvHolds, PTL

\* No wake-up of wait() is lost and none comes too soon: it sleeps exactly as
\* long as the process it waits for lives.
THEOREM WaitSleepsWhileLive ==
  ASSUME OnlyShellCreates
  PROVE  ProcSpec => []WaitBlocksWhileLive
<1>1. WaitInv => WaitBlocksWhileLive
  <2> SUFFICES ASSUME WaitInv, NEW p \in Slots, Waits(p)
               PROVE  state[p] = "BLOCKED" <=> Live(waiting[p])
    BY DEF WaitBlocksWhileLive
  <2>1. p = SHELL_PID /\ Awaits(waiting[SHELL_PID])
    BY DEF Waits, WaitInv
  <2> QED BY <2>1 DEF Awaits
<1> QED BY <1>1, WaitInvHolds, PTL

\* What wait() frees when it returns has exited.
THEOREM WaitFreesOnlyExited ==
  ASSUME OnlyShellCreates
  PROVE  ProcSpec => WaitFreesExited
<1>1. WaitInv /\ WaitReturns => state[waiting[Caller]] = "ZOMBIE"
  BY ReturnFacts
<1> QED BY <1>1, WaitInvHolds, PTL DEF ProcSpec, WaitFreesExited

-----------------------------------------------------------------------------
(* The process calls implement the life cycle of Lifecycle.                *)

PhaseNow == [p \in Slots |-> PhaseOf(state[p])]
LifeStep == [Life!Next]_<<PhaseNow, waiting>>

LEMMA PhaseFactsNow ==
  ASSUME WaitInv
  PROVE  \A p \in Slots : /\ PhaseNow[p] = "free" <=> state[p] = "INVALID"
                          /\ PhaseNow[p] = "exited" <=> state[p] = "ZOMBIE"
                          /\ PhaseNow[p] = "live" <=> Live(p)
                          /\ PhaseNow[p] \in {"free", "exited", "live"}
<1>1. SchedInv
  BY DEF WaitInv, ProcInv
<1>2. \A p \in Slots : PhaseNow[p] \in {"free", "exited", "live"}
  BY DEF PhaseNow, PhaseOf
<1>3. \A p \in Slots : PhaseNow[p] = PhaseOf(state[p])
  BY DEF PhaseNow
<1> QED BY <1>1, <1>2, <1>3, PhaseOfSlot

\* One slot changes hands, by a step of which nobody's wait() is a part.
LEMMA SlotLives ==
  ASSUME WaitInv, waiting[SHELL_PID] = NoPid, waiting' = waiting,
         NEW q \in Slots, ~Live(q), state' \in [Slots -> ProcessState],
         \A p \in Slots \ {q} : state'[p] = state[p],
         \/ state'[q] = "READY"
         \/ state'[q] = "INVALID"
  PROVE  LifeStep
<1> DEFINE J == {waiting[p] : p \in Slots} \ {NoPid}
<1>1. J = {}
  BY ShellIsNotIdle DEF WaitInv
<1>2. PhaseNow' = [PhaseNow EXCEPT ![q] = PhaseOf(state'[q])]
  BY DEF PhaseNow
<1>3. PhaseNow[q] # "live" /\ (PhaseNow[q] # "exited" => PhaseNow[q] = "free")
  BY PhaseFactsNow
<1>4. CASE state'[q] = "READY"
  <2>1. PhaseNow' = [PhaseNow EXCEPT ![q] = "live"]
    BY <1>2, <1>4 DEF PhaseOf
  <2>2. Life!Spawn(q)
    BY <1>1, <1>3, <2>1 DEF Life!Spawn, Life!Joined, Life!NoPid, NoPid, PhaseNow
  <2> QED BY <2>2 DEF LifeStep, Life!Next
<1>5. CASE state'[q] = "INVALID"
  <2>1. PhaseNow' = [PhaseNow EXCEPT ![q] = "free"]
    BY <1>2, <1>5 DEF PhaseOf
  <2>2. CASE PhaseNow[q] = "exited"
    <3>1. Life!Release(q)
      BY <1>1, <2>1, <2>2 DEF Life!Release, Life!Joined, Life!NoPid, NoPid, PhaseNow
    <3> QED BY <3>1 DEF LifeStep, Life!Next
  <2>3. CASE PhaseNow[q] = "free"
    <3>1. PhaseNow' = PhaseNow
      BY <2>1, <2>3 DEF PhaseNow
    <3> QED BY <3>1 DEF LifeStep
  <2> QED BY <1>3, <2>2, <2>3
<1> QED BY <1>4, <1>5

LEMMA CreateLives ==
  ASSUME WaitInv, OnlyShellCreates, SysCreate
  PROVE  LifeStep
<1>0. /\ SchedInv /\ Settled(Kernel) /\ Kernel.current_index = Caller
      /\ state[Caller] = "RUNNING" /\ Kernel.state = state
  BY RunnerFacts DEF WaitInv, ProcInv, Kernel
<1>1. Caller = SHELL_PID /\ waiting[SHELL_PID] = NoPid /\ waiting' = waiting
  BY <1>0 DEF SysCreate, OnlyShellCreates, InWait, UserRuns, Caller
<1>2. PICK q \in FreeSlots(Kernel) :
        \/ KernelBecomes(NewKernel(Kernel, q))
        \/ KernelBecomes(FreeKernel(Kernel, q))
  <2>1. FreeSlots(Kernel) \in SUBSET Nat /\ FreeSlots(Kernel) # {}
    BY DEF SysCreate, FreeSlots, Slots
  <2>2. Least(FreeSlots(Kernel)) \in FreeSlots(Kernel)
    BY <2>1, LeastIsLeast
  <2> QED BY <2>2 DEF SysCreate
<1>3. q \in Slots /\ ~Live(q) /\ q # Kernel.current_index
  BY <1>0 DEF FreeSlots, Live
<1>4. PICK r : /\ KernelBecomes(r) /\ Settled(r)
               /\ \A p \in Slots \ {q} : r.state[p] = state[p]
               /\ r.state[q] = "READY" \/ r.state[q] = "INVALID"
  <2>1. CASE KernelBecomes(NewKernel(Kernel, q))
    BY <1>0, <1>3, <2>1, NewKernelFacts
  <2>2. CASE KernelBecomes(FreeKernel(Kernel, q))
    BY <1>0, <1>3, <2>2, FreeKernelFacts
  <2> QED BY <1>2, <2>1, <2>2
<1>5. state' = r.state /\ state' \in [Slots -> ProcessState]
  BY <1>4, KernelNext DEF Settled, KernelType
<1> QED BY <1>1, <1>3, <1>4, <1>5, SlotLives

LEMMA KillLives ==
  ASSUME WaitInv, WaitInv', NEW p \in Slots \ {IDLE_PID}, Kill(p)
  PROVE  LifeStep
<1> DEFINE S == {q \in Slots : Live(q) /\ state'[q] = "ZOMBIE"}
<1>0. \A q \in Slots : state[q] \in ProcessState /\ state'[q] \in ProcessState
  BY DEF WaitInv, ProcInv, SchedInv, Settled, KernelType, Kernel
<1>1. \A q \in Slots : \/ q \in S
                       \/ Live(q) /\ Live(q)' /\ state'[q] # "ZOMBIE"
                       \/ ~Live(q) /\ state'[q] = state[q]
  <2> SUFFICES ASSUME NEW q \in Slots
               PROVE  \/ Live(q) /\ state'[q] = "ZOMBIE"
                      \/ Live(q) /\ Live(q)' /\ state'[q] # "ZOMBIE"
                      \/ ~Live(q) /\ state'[q] = state[q]
    OBVIOUS
  <2>0. Kernel.state = state /\ Kernel'.state = state'
    BY DEF Kernel
  <2>1. CASE q = IDLE_PID
    BY <1>0, <2>0, <2>1, KillStates DEF WaitInv, IdleLives, Kernel, Live, ProcessState
  <2>2. CASE q # IDLE_PID /\ q \in Dying(Kernel, p)
    <3>1. state'[q] = "ZOMBIE" /\ state[q] # "INVALID"
      BY <2>0, <2>2, KillStates DEF Dying, Live
    <3> QED BY <1>0, <3>1 DEF Live, ProcessState
  <2>3. CASE q # IDLE_PID /\ q \notin Dying(Kernel, p)
    <3>1. CASE dad_blocked[p] = 1 /\ q = SHELL_PID
      <4>1. state'[q] \in {"READY", "RUNNING"} /\ waiting[SHELL_PID] = p
        BY <2>3, <3>1, KillStates
      <4>2. Awaits(p) /\ Live(p)
        BY <4>1, KillStates, ShellIsNotIdle DEF WaitInv
      <4> QED BY <3>1, <4>1, <4>2 DEF Awaits, Live
    <3>2. CASE ~(dad_blocked[p] = 1 /\ q = SHELL_PID)
      <4>1. Untouched(Kernel, Kernel', q)
        BY <2>3, <3>2, KillStates
      <4> QED BY <1>0, <2>0, <4>1 DEF Untouched, Live, ProcessState
    <3> QED BY <3>1, <3>2
  <2> QED BY <2>1, <2>2, <2>3
<1>2. waiting' = [q \in Slots |-> IF state'[q] = "ZOMBIE" THEN NoPid ELSE waiting[q]]
  BY DEF Kill
<1>3. \A q \in Slots : ~Live(q) => waiting[q] = NoPid
  <2>1. waiting[SHELL_PID] # NoPid => Live(SHELL_PID)
    BY DEF WaitInv, Awaits, Live
  <2> QED BY <2>1 DEF WaitInv
<1>4. waiting' = [q \in Slots |-> IF q \in S THEN Life!NoPid ELSE waiting[q]]
  BY <1>1, <1>2, <1>3 DEF NoPid, Life!NoPid
<1>5. PhaseNow' = [q \in Slots |-> IF q \in S THEN "exited" ELSE PhaseNow[q]]
  <2>1. \A q \in Slots : PhaseOf(state'[q]) = IF q \in S THEN "exited" ELSE PhaseOf(state[q])
    BY <1>1 DEF PhaseOf, Live
  <2> HIDE DEF S
  <2> QED BY <2>1 DEF PhaseNow
<1>6. S \in SUBSET Slots /\ S \subseteq {q \in Slots : PhaseNow[q] = "live"}
  BY PhaseFactsNow
<1> HIDE DEF S
<1>7. Life!Exit(S)
  BY <1>4, <1>5, <1>6 DEF Life!Exit, PhaseNow
<1> QED BY <1>6, <1>7 DEF LifeStep, Life!Next

LEMMA SysWaitLives ==
  ASSUME WaitInv, NEW q \in Slots, SysWait(q)
  PROVE  LifeStep
<1>0. /\ SchedInv /\ Settled(Kernel) /\ Kernel.current_index = Caller
      /\ state[Caller] = "RUNNING" /\ Kernel.state = state /\ Caller \in Slots
  BY RunnerFacts DEF WaitInv, ProcInv, Kernel
<1>1. CASE state[q] = "ZOMBIE"
  <2>1. q # Caller /\ waiting[SHELL_PID] = NoPid /\ waiting' = waiting
    <3>1. /\ parent_pid[q] = Caller /\ Caller # IDLE_PID /\ waiting[Caller] = NoPid
          /\ q # Caller /\ waiting' = waiting
      BY <1>0, <1>1 DEF SysWait, UserRuns, InWait
    <3> QED BY <1>0, <3>1, ShellIsNotIdle DEF WaitInv, FamilyTypeOK
  <2> DEFINE r == FreeKernel(Kernel, q)
  <2>2. /\ Settled(r) /\ r.state[q] = "INVALID"
        /\ \A p \in Slots \ {q} : r.state[p] = state[p]
    BY <1>0, <2>1, FreeKernelFacts
  <2>3. KernelBecomes(r)
    BY <1>1 DEF SysWait
  <2> HIDE DEF r
  <2>4. state' = r.state /\ state' \in [Slots -> ProcessState]
    BY <2>2, <2>3, KernelNext DEF Settled, KernelType
  <2> QED BY <1>1, <2>1, <2>2, <2>4, SlotLives DEF Live
<1>2. CASE state[q] # "ZOMBIE"
  <2>1. PhaseNow' = PhaseNow
    <3>1. \A p \in Slots : PhaseOf(state'[p]) = PhaseOf(state[p])
      BY <1>2, WaitStarts DEF PhaseOf
    <3> QED BY <3>1 DEF PhaseNow
  <2>2. /\ Live(q) /\ Live(SHELL_PID)
        /\ waiting[SHELL_PID] = NoPid /\ waiting' = [waiting EXCEPT ![SHELL_PID] = q]
    BY <1>0, <1>2, WaitStarts DEF Live
  <2>3. PhaseNow[SHELL_PID] = "live" /\ PhaseNow[q] = "live"
    BY <2>2, PhaseFactsNow, ShellIsNotIdle
  <2>4. Life!Join(SHELL_PID, q)
    BY <2>1, <2>2, <2>3 DEF Life!Join, Life!NoPid, NoPid, PhaseNow
  <2> QED BY <2>4, ShellIsNotIdle DEF LifeStep, Life!Next
<1> QED BY <1>1, <1>2

LEMMA ReturnLives ==
  ASSUME WaitInv, WaitReturns
  PROVE  LifeStep
<1> DEFINE q == waiting[SHELL_PID]
           r == FreeKernel(Kernel, q)
<1>0. /\ SchedInv /\ Settled(Kernel) /\ Kernel.current_index = Caller
      /\ Kernel.state = state
  BY RunnerFacts DEF WaitInv, ProcInv, Kernel
<1>1. Caller = SHELL_PID /\ q \in Slots /\ q # SHELL_PID /\ state[q] = "ZOMBIE" /\ q # NoPid
  BY ReturnFacts, ShellIsNotIdle DEF Programs
<1>2. /\ KernelBecomes(r)
      /\ waiting' = [waiting EXCEPT ![SHELL_PID] = NoPid, ![q] = NoPid]
  BY <1>1 DEF WaitReturns
<1>3. /\ Settled(r) /\ r.state[q] = "INVALID"
      /\ \A p \in Slots \ {q} : r.state[p] = state[p]
  BY <1>0, <1>1, FreeKernelFacts
<1> HIDE DEF r
<1>4. state' = r.state
  BY <1>2, <1>3, KernelNext
<1>5. waiting' = [waiting EXCEPT ![SHELL_PID] = NoPid]
  <2>1. waiting[q] = NoPid
    BY <1>1 DEF WaitInv
  <2>2. \A p \in Slots : [waiting EXCEPT ![SHELL_PID] = NoPid, ![q] = NoPid][p]
                           = [waiting EXCEPT ![SHELL_PID] = NoPid][p]
    BY <1>1, <2>1, ShellIsNotIdle DEF WaitInv, ProcInv
  <2> HIDE DEF q
  <2> QED BY <1>2, <2>2 DEF WaitInv, ProcInv
<1>6. PhaseNow' = [PhaseNow EXCEPT ![q] = "free"]
  <2>1. \A p \in Slots : PhaseOf(state'[p]) = IF p = q THEN "free" ELSE PhaseOf(state[p])
    BY <1>3, <1>4 DEF PhaseOf
  <2> HIDE DEF q
  <2> QED BY <2>1 DEF PhaseNow
<1>7. PhaseNow[q] = "exited"
  BY <1>1, PhaseFactsNow
<1>8. Life!JoinReturns(SHELL_PID)
  BY <1>1, <1>5, <1>6, <1>7 DEF Life!JoinReturns, Life!NoPid, NoPid, PhaseNow
<1> QED BY <1>8, ShellIsNotIdle DEF LifeStep, Life!Next

LEMMA LifeStepHolds ==
  OnlyShellCreates /\ WaitInv /\ WaitInv' /\ [ProcNext]_procVars => LifeStep
<1> SUFFICES ASSUME OnlyShellCreates, WaitInv, WaitInv', [ProcNext]_procVars
             PROVE  LifeStep
  OBVIOUS
<1>1. CASE SchedStep
  <2>0. SchedInv /\ IdleLives(Kernel)
    BY DEF WaitInv, ProcInv
  <2>1. PICK r : KernelBecomes(r) /\ Settled(r) /\ Phases(r) = Phases(Kernel)
    BY <1>1, <2>0, SchedStepFacts DEF OnlyShellCreates
  <2>2. \A p \in Slots : PhaseOf(state'[p]) = PhaseOf(state[p])
    BY <2>0, <2>1, SamePhases DEF PhaseOf
  <2>3. PhaseNow' = PhaseNow /\ waiting' = waiting
    BY <1>1, <2>2 DEF PhaseNow, SchedStep
  <2> QED BY <2>3 DEF LifeStep
<1>2. CASE SysCreate
  BY <1>2, CreateLives
<1>3. CASE SysExit
  <2>1. Caller \in Slots \ {IDLE_PID} /\ Kill(Caller)
    BY <1>3, RunnerFacts DEF SysExit, UserRuns, WaitInv, ProcInv
  <2> QED BY <2>1, KillLives
<1>4. ASSUME NEW p \in Targets, SysKill(p) \/ CtrlC(p)
      PROVE  LifeStep
  <2>1. Kill(p) /\ p \in Slots \ {IDLE_PID}
    BY <1>4, TargetsAssumption DEF SysKill, CtrlC
  <2> QED BY <2>1, KillLives
<1>5. ASSUME NEW q \in Slots, SysWait(q)
      PROVE  LifeStep
  BY <1>5, SysWaitLives
<1>6. CASE WaitReturns
  BY <1>6, ReturnLives
<1>7. CASE UNCHANGED procVars
  BY <1>7 DEF procVars, schedVars, LifeStep, PhaseNow
<1> QED BY <1>1, <1>2, <1>3, <1>4, <1>5, <1>6, <1>7 DEF ProcNext

\* Seen by its users the process table is the life cycle of Lifecycle: a pid
\* is given away only when its process has exited and nobody waits for it.
THEOREM LifecycleImplemented ==
  ASSUME OnlyShellCreates
  PROVE  ProcSpec => ImplementsLifecycle
<1>1. ProcInit => Life!Init
  <2> SUFFICES ASSUME ProcInit
               PROVE  Life!Init
    OBVIOUS
  <2>1. /\ FirstProc = SHELL_PID
        /\ state = [p \in Slots |-> CASE p = IDLE_PID -> "BLOCKED"
                                      [] p = FirstProc -> "RUNNING"
                                      [] p \in Procs \ {FirstProc} -> "READY"
                                      [] OTHER         -> "INVALID"]
        /\ waiting = [p \in Slots |-> NoPid]
    BY FirstIsAClient, ShellAssumption DEF ProcInit, SchedInit
  <2>2. \A p \in Slots : state[p] \in {"BLOCKED", "RUNNING", "INVALID"}
    BY <2>1, ShellAssumption
  <2>3. \A p \in Slots : PhaseOf(state[p]) \in {"free", "live"}
    BY <2>2 DEF PhaseOf
  <2> QED BY <2>1, <2>3 DEF Life!Init, Life!NoPid, NoPid
<1>2. LifeStep => [Life!Next]_<<[p \in Slots |-> PhaseOf(state[p])], waiting>>
  BY DEF LifeStep, PhaseNow
<1> QED BY <1>1, <1>2, LifeStepHolds, WaitInvHolds, PTL
        DEF ProcSpec, ImplementsLifecycle, Life!Spec

-----------------------------------------------------------------------------
(* While the shell stays: its list of children, and the counts.            *)

LEMMA JobsFinite ==
  ASSUME NEW J \in SUBSET Programs
  PROVE  IsFiniteSet(J) /\ Cardinality(J) \in Nat /\ J \in SUBSET Slots
<1>1. IsFiniteSet(Slots) /\ J \in SUBSET Slots
  BY FS_Interval, SlotsAssumption DEF Slots, Programs
<1> QED BY <1>1, FS_Subset, FS_CardinalityType

\* A list of MAX_PCS entries has room for one more: the idle process is in none.
LEMMA ListHasRoom ==
  ASSUME NEW f, NEW J \in SUBSET Programs, Related(f, J)
  PROVE  ListHas(f, SHELL_PID, NoPid)
<1> SUFFICES ASSUME ~ListHas(f, SHELL_PID, NoPid)
             PROVE  FALSE
  OBVIOUS
<1>1. IsFiniteSet(Slots) /\ Cardinality(Slots) \in Nat
  BY FS_Interval, FS_CardinalityType, SlotsAssumption DEF Slots
<1> DEFINE T == Slots \ {IDLE_PID}
           c == f.childs[SHELL_PID]
<1>2. IsFiniteSet(T) /\ Cardinality(T) = Cardinality(Slots) - 1
  BY <1>1, FS_RemoveElement, ShellIsNotIdle
<1>3. c \in [Slots -> T]
  <2>1. c \in [Slots -> Slots \cup {NoPid}]
    BY ShellIsNotIdle DEF Related
  <2>2. \A i \in Slots : c[i] \in J \cup {NoPid} /\ c[i] # NoPid
    BY DEF Related, ListHas
  <2> QED BY <2>1, <2>2 DEF Programs
<1>4. \A i, j \in Slots : c[i] = c[j] /\ c[i] # NoPid => i = j
  BY DEF Related
<1>5. \A i \in Slots : c[i] # NoPid
  BY DEF ListHas
<1> HIDE DEF T, c
<1>6. Cardinality(T) < Cardinality(Slots)
  BY <1>1, <1>2
<1>7. \E x, y \in Slots : x # y /\ c[x] = c[y]
  BY <1>1, <1>2, <1>3, <1>6, FS_PigeonHole
<1> QED BY <1>4, <1>5, <1>7

LEMMA RelatedFree ==
  ASSUME NEW f, NEW g, NEW J \in SUBSET Programs, Related(f, J),
         NEW q \in Programs \ J, Emptied(f, g, q)
  PROVE  Related(g, J)
<1>1. g.childs = f.childs
  <2>1. f.childs[q] = NoChilds /\ f.childs \in [Slots -> [Slots -> Slots \cup {NoPid}]]
    BY DEF Related
  <2> QED BY <2>1 DEF Emptied
<1>2. q \in Slots /\ q # SHELL_PID /\ q # IDLE_PID
  BY DEF Programs
<1>3. \A p \in Slots \ {q} : /\ g.parent_pid[p] = f.parent_pid[p]
                             /\ g.child_amount[p] = f.child_amount[p]
  BY DEF Emptied
<1>4. /\ g.child_amount[q] = 0 /\ g.active_processes = f.active_processes
  BY DEF Emptied
<1>5. \A p \in Programs : g.child_amount[p] = 0
  BY <1>3, <1>4 DEF Related, Programs
<1>6. /\ g.parent_pid[SHELL_PID] = IDLE_PID /\ g.parent_pid[IDLE_PID] = NoPid
      /\ g.child_amount[IDLE_PID] = 1 /\ g.child_amount[SHELL_PID] = Cardinality(J)
      /\ \A p \in J : g.parent_pid[p] = SHELL_PID
  BY <1>2, <1>3, ShellIsNotIdle DEF Related, Programs
<1> QED BY <1>1, <1>4, <1>5, <1>6 DEF Related

LEMMA RelatedGrows ==
  ASSUME NEW f, NEW g, NEW J \in SUBSET Programs, FamilyShape(f), Related(f, J),
         NEW q \in Programs \ J, Grown(f, g, q)
  PROVE  Related(g, J \cup {q})
<1>0. /\ q \in Slots /\ q # SHELL_PID /\ q # IDLE_PID /\ q # NoPid
      /\ SHELL_PID \in Slots /\ IDLE_PID \in Slots /\ SHELL_PID # IDLE_PID
  BY ShellIsNotIdle DEF Programs
<1>1. PICK n : /\ n.childs = [f.childs EXCEPT ![q] = NoChilds]
               /\ n.child_amount = [f.child_amount EXCEPT ![q] = 0]
               /\ ListGains(n, g, SHELL_PID, q)
  BY ListHasRoom DEF Grown
<1>2. n.childs = f.childs /\ n.child_amount = f.child_amount
  <2>1. f.childs[q] = NoChilds /\ f.childs \in [Slots -> [Slots -> Slots \cup {NoPid}]]
        /\ f.child_amount[q] = 0 /\ f.child_amount \in [Slots -> Int]
    BY DEF Related, FamilyShape
  <2> QED BY <1>1, <2>1
<1>3. PICK i \in Slots :
        /\ f.childs[SHELL_PID][i] = NoPid
        /\ g.childs = [f.childs EXCEPT ![SHELL_PID] = [f.childs[SHELL_PID] EXCEPT ![i] = q]]
        /\ g.child_amount = [f.child_amount EXCEPT ![SHELL_PID] = f.child_amount[SHELL_PID] + 1]
  BY <1>1, <1>2 DEF ListGains
<1>4. Cardinality(J \cup {q}) = Cardinality(J) + 1 /\ Cardinality(J) \in Nat
  BY JobsFinite, FS_AddElement
<1>5. f.childs \in [Slots -> [Slots -> Slots \cup {NoPid}]] /\ f.child_amount \in [Slots -> Int]
  BY DEF Related, FamilyShape
<1>6. /\ g.childs \in [Slots -> [Slots -> Slots \cup {NoPid}]]
      /\ \A p \in Slots \ {SHELL_PID} : /\ g.childs[p] = f.childs[p]
                                        /\ g.child_amount[p] = f.child_amount[p]
      /\ g.childs[SHELL_PID] = [f.childs[SHELL_PID] EXCEPT ![i] = q]
      /\ g.child_amount[SHELL_PID] = f.child_amount[SHELL_PID] + 1
  BY <1>0, <1>3, <1>5
<1>7. \A j \in Slots : g.childs[SHELL_PID][j] = IF j = i THEN q ELSE f.childs[SHELL_PID][j]
  BY <1>0, <1>5, <1>6
<1>8. /\ \A j \in Slots : f.childs[SHELL_PID][j] \in J \cup {NoPid}
      /\ \A p \in J : \E j \in Slots : f.childs[SHELL_PID][j] = p
      /\ \A j, l \in Slots : f.childs[SHELL_PID][j] = f.childs[SHELL_PID][l]
                             /\ f.childs[SHELL_PID][j] # NoPid => j = l
  BY DEF Related
<1>9. /\ \A j \in Slots : g.childs[SHELL_PID][j] \in (J \cup {q}) \cup {NoPid}
      /\ \A p \in J \cup {q} : \E j \in Slots : g.childs[SHELL_PID][j] = p
      /\ \A j, l \in Slots : g.childs[SHELL_PID][j] = g.childs[SHELL_PID][l]
                             /\ g.childs[SHELL_PID][j] # NoPid => j = l
  <2>1. \A j \in Slots : g.childs[SHELL_PID][j] \in (J \cup {q}) \cup {NoPid}
    BY <1>7, <1>8
  <2>2. \A p \in J \cup {q} : \E j \in Slots : g.childs[SHELL_PID][j] = p
    <3>1. ASSUME NEW p \in J
          PROVE  \E j \in Slots : g.childs[SHELL_PID][j] = p
      <4>1. PICK j \in Slots : f.childs[SHELL_PID][j] = p
        BY <1>8
      <4>2. j # i
        BY <1>3, <3>1, <4>1, ShellIsNotIdle DEF Programs
      <4> QED BY <1>7, <4>1, <4>2
    <3> QED BY <1>7, <3>1
  <2>3. ASSUME NEW j \in Slots, NEW l \in Slots,
               g.childs[SHELL_PID][j] = g.childs[SHELL_PID][l],
               g.childs[SHELL_PID][j] # NoPid
        PROVE  j = l
    <3>1. \A m \in Slots : f.childs[SHELL_PID][m] # q
      BY <1>0, <1>8
    <3> QED BY <1>7, <1>8, <2>3, <3>1
  <2> QED BY <2>1, <2>2, <2>3
<1>10. /\ g.parent_pid[SHELL_PID] = IDLE_PID /\ g.parent_pid[IDLE_PID] = NoPid
       /\ \A p \in J \cup {q} : g.parent_pid[p] = SHELL_PID
  BY <1>0 DEF Grown, Related, Programs
<1>11. /\ g.childs[IDLE_PID] = [NoChilds EXCEPT ![0] = SHELL_PID]
       /\ g.child_amount[IDLE_PID] = 1
       /\ \A p \in Programs : g.childs[p] = NoChilds /\ g.child_amount[p] = 0
  BY <1>0, <1>6 DEF Related, Programs
<1>12. /\ g.child_amount[SHELL_PID] = Cardinality(J \cup {q})
       /\ g.active_processes = Cardinality(J \cup {q}) + 2
  BY <1>4, <1>6 DEF Related, Grown
<1> QED BY <1>6, <1>9, <1>10, <1>11, <1>12 DEF Related

LEMMA RelatedLoses ==
  ASSUME NEW k, NEW f, NEW g, NEW J \in SUBSET Programs, FamilyShape(f), Related(f, J),
         NEW p \in J, IsPidValid(k, SHELL_PID), Bereft(k, f, g, p)
  PROVE  Related(g, J \ {p})
<1>0. /\ p \in Slots /\ p \in Programs /\ p # SHELL_PID /\ p # IDLE_PID /\ p # NoPid
      /\ SHELL_PID \in Slots /\ IDLE_PID \in Slots /\ SHELL_PID # IDLE_PID
  BY ShellIsNotIdle DEF Programs
<1>5. f.childs \in [Slots -> [Slots -> Slots \cup {NoPid}]] /\ f.child_amount \in [Slots -> Int]
  BY DEF Related, FamilyShape
<1>1. ListLoses(f, g, SHELL_PID, p)
  <2>1. f.parent_pid[p] = SHELL_PID /\ ListHas(f, SHELL_PID, p)
    BY DEF Related, ListHas
  <2>2. f.childs \in [Slots -> [Slots -> Int]]
    <3>1. Slots \cup {NoPid} \subseteq Int
      BY DEF Slots, NoPid
    <3> QED BY <1>5, <3>1
  <2> QED BY <1>0, <2>1, <2>2 DEF Bereft
<1>3. PICK i \in Slots :
        /\ f.childs[SHELL_PID][i] = p
        /\ g.childs = [f.childs EXCEPT ![SHELL_PID] = [f.childs[SHELL_PID] EXCEPT ![i] = NoPid]]
        /\ g.child_amount = [f.child_amount EXCEPT ![SHELL_PID] = f.child_amount[SHELL_PID] - 1]
  BY <1>1 DEF ListLoses
<1>4. Cardinality(J \ {p}) = Cardinality(J) - 1 /\ Cardinality(J) \in Nat
  BY JobsFinite, FS_RemoveElement
<1>6. /\ g.childs \in [Slots -> [Slots -> Slots \cup {NoPid}]]
      /\ \A q \in Slots \ {SHELL_PID} : /\ g.childs[q] = f.childs[q]
                                        /\ g.child_amount[q] = f.child_amount[q]
      /\ g.childs[SHELL_PID] = [f.childs[SHELL_PID] EXCEPT ![i] = NoPid]
      /\ g.child_amount[SHELL_PID] = f.child_amount[SHELL_PID] - 1
  BY <1>0, <1>3, <1>5
<1>7. \A j \in Slots : g.childs[SHELL_PID][j] = IF j = i THEN NoPid ELSE f.childs[SHELL_PID][j]
  BY <1>0, <1>5, <1>6
<1>8. /\ \A j \in Slots : f.childs[SHELL_PID][j] \in J \cup {NoPid}
      /\ \A q \in J : \E j \in Slots : f.childs[SHELL_PID][j] = q
      /\ \A j, l \in Slots : f.childs[SHELL_PID][j] = f.childs[SHELL_PID][l]
                             /\ f.childs[SHELL_PID][j] # NoPid => j = l
  BY DEF Related
<1>9. /\ \A j \in Slots : g.childs[SHELL_PID][j] \in (J \ {p}) \cup {NoPid}
      /\ \A q \in J \ {p} : \E j \in Slots : g.childs[SHELL_PID][j] = q
      /\ \A j, l \in Slots : g.childs[SHELL_PID][j] = g.childs[SHELL_PID][l]
                             /\ g.childs[SHELL_PID][j] # NoPid => j = l
  <2>1. \A j \in Slots : g.childs[SHELL_PID][j] \in (J \ {p}) \cup {NoPid}
    BY <1>0, <1>3, <1>7, <1>8
  <2>2. ASSUME NEW q \in J \ {p}
        PROVE  \E j \in Slots : g.childs[SHELL_PID][j] = q
    <3>1. PICK j \in Slots : f.childs[SHELL_PID][j] = q
      BY <1>8
    <3>2. j # i
      BY <1>3, <3>1
    <3> QED BY <1>7, <3>1, <3>2
  <2>3. ASSUME NEW j \in Slots, NEW l \in Slots,
               g.childs[SHELL_PID][j] = g.childs[SHELL_PID][l],
               g.childs[SHELL_PID][j] # NoPid
        PROVE  j = l
    BY <1>7, <1>8, <2>3
  <2> QED BY <2>1, <2>2, <2>3
<1>10. /\ g.parent_pid[SHELL_PID] = IDLE_PID /\ g.parent_pid[IDLE_PID] = NoPid
       /\ \A q \in J \ {p} : g.parent_pid[q] = SHELL_PID
  BY <1>0 DEF Bereft, Related, Programs
<1>11. /\ g.childs[IDLE_PID] = [NoChilds EXCEPT ![0] = SHELL_PID]
       /\ g.child_amount[IDLE_PID] = 1
       /\ \A q \in Programs : g.childs[q] = NoChilds /\ g.child_amount[q] = 0
  BY <1>0, <1>6 DEF Related, Programs
<1>12. /\ g.child_amount[SHELL_PID] = Cardinality(J \ {p})
       /\ g.active_processes = Cardinality(J \ {p}) + 2
  BY <1>4, <1>6 DEF Related, Bereft
<1> QED BY <1>6, <1>9, <1>10, <1>11, <1>12 DEF Related

LEMMA RelatedNext ==
  ASSUME NEW g, FamilyShape(g), FamilyBecomes(g), NEW J, Related(g, J), Jobs' = J
  PROVE  Related(Family, Jobs)'
<1>1. Family' = g
  BY DEF FamilyBecomes, Family, FamilyShape
<1>2. Related(Family', Jobs')
  BY <1>1
<1> QED BY <1>2 DEF Related

LEMMA FamInitInv == ProcInit => FamInv
<1> SUFFICES ASSUME ProcInit
             PROVE  FamInv
  OBVIOUS
<1>1. WaitInv
  BY WaitInitInv
<1>2. /\ dad_blocked = [p \in Slots |-> 0]
      /\ childs = [p \in Slots |-> IF p = IDLE_PID THEN [NoChilds EXCEPT ![0] = SHELL_PID]
                                   ELSE NoChilds]
      /\ child_amount = [p \in Slots |-> IF p = IDLE_PID THEN 1 ELSE 0]
      /\ parent_pid = [p \in Slots |-> IF p = SHELL_PID THEN IDLE_PID ELSE NoPid]
      /\ active_processes = 2
  BY DEF ProcInit
<1>3. /\ FirstProc = SHELL_PID
      /\ state = [p \in Slots |-> CASE p = IDLE_PID -> "BLOCKED"
                                    [] p = FirstProc -> "RUNNING"
                                    [] p \in Procs \ {FirstProc} -> "READY"
                                    [] OTHER         -> "INVALID"]
  BY FirstIsAClient, ShellAssumption DEF ProcInit, SchedInit
<1>4. state[SHELL_PID] = "RUNNING" /\ \A p \in Programs : state[p] = "INVALID"
  BY <1>3, ShellAssumption, ShellIsNotIdle DEF Programs
<1>5. Jobs = {} /\ Live(SHELL_PID)
  BY <1>4 DEF Jobs, Live
<1>6. /\ childs \in [Slots -> [Slots -> Slots \cup {NoPid}]]
      /\ childs[IDLE_PID] = [NoChilds EXCEPT ![0] = SHELL_PID]
      /\ childs[SHELL_PID] = NoChilds
      /\ \A p \in Programs : childs[p] = NoChilds /\ child_amount[p] = 0
      /\ \A i \in Slots : NoChilds[i] = NoPid
  BY <1>2, ShellIsNotIdle DEF NoChilds, Programs
<1>7. /\ parent_pid[SHELL_PID] = IDLE_PID /\ parent_pid[IDLE_PID] = NoPid
      /\ child_amount[IDLE_PID] = 1 /\ child_amount[SHELL_PID] = 0
  BY <1>2, ShellIsNotIdle
<1>8. Related(Family, {})
  BY <1>2, <1>6, <1>7, FS_EmptySet, FamilyIs DEF Related
<1> QED BY <1>1, <1>5, <1>8 DEF FamInv

LEMMA KillRelated ==
  ASSUME FamInv, WaitInv', NEW p \in Programs, Kill(p)
  PROVE  FamInv'
<1> DEFINE g == KillFamily(Kernel, Family, p)
<1>0. /\ p \in Slots \ {IDLE_PID} /\ p # SHELL_PID /\ SHELL_PID \in Slots \ {IDLE_PID}
      /\ WaitInv /\ FamilyShape(Family) /\ Kernel.state = state /\ Kernel'.state = state'
      /\ Dying(Kernel, p) = {p}
  BY ShellIsNotIdle, FamilyIs DEF FamInv, WaitInv, Programs, Kernel, Dying
<1>1. Live(p) /\ p \in Jobs /\ Jobs \in SUBSET Programs
  BY <1>0, KillStates DEF Jobs
<1>2. state'[p] = "ZOMBIE"
  BY <1>0, KillStates
<1>3. ASSUME NEW q \in Slots \ {IDLE_PID}, q # p
      PROVE  Live(q)' <=> Live(q)
  <2>0. state[q] \in ProcessState /\ state'[q] \in ProcessState
    BY <1>0, <1>3 DEF WaitInv, ProcInv, SchedInv, Settled, KernelType, Kernel
  <2>1. q \notin Dying(Kernel, p)
    BY <1>0, <1>3
  <2>2. CASE dad_blocked[p] = 1 /\ q = SHELL_PID
    <3>1. state'[q] \in {"READY", "RUNNING"}
      BY <1>0, <2>1, <2>2, KillStates
    <3> QED BY <2>2, <3>1 DEF Live, FamInv
  <2>3. CASE ~(dad_blocked[p] = 1 /\ q = SHELL_PID)
    <3>1. Untouched(Kernel, Kernel', q)
      BY <1>0, <1>3, <2>1, <2>3, KillStates
    <3> QED BY <1>0, <2>0, <3>1 DEF Untouched, Live, ProcessState
  <2> QED BY <2>2, <2>3
<1>4. Jobs' = Jobs \ {p} /\ Live(SHELL_PID)'
  <2>1. ~Live(p)'
    BY <1>2 DEF Live
  <2>2. \A q \in Programs \ {p} : Live(q)' <=> Live(q)
    BY <1>3 DEF Programs
  <2>3. Jobs' = Jobs \ {p}
    BY <2>1, <2>2 DEF Jobs
  <2>4. Live(SHELL_PID)'
    BY <1>0, <1>3 DEF FamInv
  <2> QED BY <2>3, <2>4
<1>5. Bereft(Kernel, Family, g, p)
  <2>1. \A q \in Programs : Family.child_amount[q] = 0
    BY FamilyIs DEF FamInv, WaitInv
  <2> QED BY <1>0, <2>1, KillFamilyFacts
<1>6. FamilyBecomes(g)
  BY DEF Kill
<1> HIDE DEF g
<1>7. IsPidValid(Kernel, SHELL_PID)
  BY <1>0 DEF IsPidValid, FamInv, Live
<1>8. Related(Family, Jobs)
  BY DEF FamInv
<1>9. FamilyShape(g)
  BY <1>5 DEF Bereft
<1>J. PICK J : J = Jobs
  OBVIOUS
<1>10. Related(g, J \ {p})
  BY <1>0, <1>1, <1>5, <1>7, <1>8, <1>J, RelatedLoses
<1>11. Jobs' = J \ {p}
  BY <1>4, <1>J
<1>12. Related(Family, Jobs)'
  BY <1>6, <1>9, <1>10, <1>11, RelatedNext
<1> QED BY <1>4, <1>12 DEF FamInv

\* A slot that no job has is emptied.
LEMMA FreeRelated ==
  ASSUME FamInv, WaitInv', NEW q \in Programs, ~Live(q),
         NEW r, KernelBecomes(r), Settled(r), r.state[q] = "INVALID",
         \A p \in Slots \ {q} : r.state[p] = state[p],
         FamilyBecomes(FreeFamily(Family, q))
  PROVE  FamInv'
<1> DEFINE g == FreeFamily(Family, q)
<1>0. q \in Slots /\ FamilyShape(Family) /\ SHELL_PID \in Slots \ {q}
  BY FamilyIs, ShellIsNotIdle DEF Programs, FamInv, WaitInv
<1>1. Emptied(Family, g, q)
  BY <1>0, FreeFamilyFacts
<1> HIDE DEF g
<1>2. state' = r.state
  BY KernelNext
<1>3. Jobs' = Jobs /\ Live(SHELL_PID)'
  <2>1. \A p \in Programs : Live(p)' <=> Live(p)
    BY <1>2 DEF Live, Programs
  <2>2. Live(SHELL_PID)'
    BY <1>0, <1>2 DEF Live, FamInv
  <2> QED BY <2>1, <2>2 DEF Jobs
<1>J. PICK J : J = Jobs
  OBVIOUS
<1>4. J \in SUBSET Programs /\ q \in Programs \ J /\ Related(Family, J)
  BY <1>J DEF Jobs, FamInv
<1>5. Related(g, J) /\ FamilyShape(g)
  BY <1>1, <1>4, RelatedFree DEF Emptied
<1>6. FamilyBecomes(g)
  BY DEF g
<1>7. Related(Family, Jobs)'
  BY <1>3, <1>5, <1>6, <1>J, RelatedNext
<1> QED BY <1>3, <1>7 DEF FamInv

LEMMA CreateRelated ==
  ASSUME FamInv, WaitInv', OnlyShellCreates, SysCreate
  PROVE  FamInv'
<1>0. /\ SchedInv /\ IdleLives(Kernel) /\ FamilyShape(Family)
      /\ Settled(Kernel) /\ Kernel.current_index = Caller
      /\ state[Caller] = "RUNNING" /\ GetPid(Kernel) = Caller /\ Kernel.state = state
  BY RunnerFacts, FamilyIs DEF FamInv, WaitInv, ProcInv, Kernel
<1>1. Caller = SHELL_PID
  BY <1>0 DEF SysCreate, OnlyShellCreates
<1>2. PICK q \in FreeSlots(Kernel) :
        \/ /\ KernelBecomes(NewKernel(Kernel, q))
           /\ FamilyBecomes(NewFamily(Kernel, Family, q))
        \/ /\ KernelBecomes(FreeKernel(Kernel, q))
           /\ FamilyBecomes(FreeFamily(Family, q))
  <2>1. FreeSlots(Kernel) \in SUBSET Nat /\ FreeSlots(Kernel) # {}
    BY DEF SysCreate, FreeSlots, Slots
  <2>2. Least(FreeSlots(Kernel)) \in FreeSlots(Kernel)
    BY <2>1, LeastIsLeast
  <2> QED BY <2>2 DEF SysCreate
<1>3. q \in Programs /\ q \in Slots /\ q # Kernel.current_index /\ ~Live(q)
  BY <1>0, <1>1 DEF FreeSlots, Programs, IdleLives, Live
<1>4. CASE /\ KernelBecomes(NewKernel(Kernel, q))
           /\ FamilyBecomes(NewFamily(Kernel, Family, q))
  <2> DEFINE g == NewFamily(Kernel, Family, q)
             r == NewKernel(Kernel, q)
  <2>1. Grown(Family, g, q)
    <3>1. IsPidValid(Kernel, SHELL_PID)
      BY <1>0, <1>1, ShellIsNotIdle DEF IsPidValid
    <3> QED BY <1>0, <1>1, <1>3, <3>1, NewFamilyFacts
  <2>2. /\ Settled(r) /\ r.state[q] = "READY"
        /\ \A p \in Slots \ {q} : r.state[p] = state[p]
    BY <1>0, <1>3, NewKernelFacts
  <2>3. KernelBecomes(r) /\ FamilyBecomes(g)
    BY <1>4
  <2> HIDE DEF g, r
  <2>4. state' = r.state
    BY <2>2, <2>3, KernelNext
  <2>J. PICK J : J = Jobs
    OBVIOUS
  <2>5. J \in SUBSET Programs /\ q \in Programs \ J /\ Related(Family, J)
    BY <1>3, <2>J DEF Jobs, FamInv
  <2>6. Jobs' = J \cup {q} /\ Live(SHELL_PID)'
    <3>1. \A p \in Programs \ {q} : Live(p)' <=> Live(p)
      BY <2>2, <2>4 DEF Live, Programs
    <3>2. Live(q)'
      BY <2>2, <2>4 DEF Live
    <3>3. Live(SHELL_PID)'
      BY <1>3, <2>2, <2>4, ShellIsNotIdle DEF Live, FamInv, Programs
    <3> QED BY <1>3, <2>J, <3>1, <3>2, <3>3 DEF Jobs
  <2>7. Related(g, J \cup {q}) /\ FamilyShape(g)
    <3>1. FamilyShape(g)
      BY <2>1 DEF Grown
    <3> QED BY <1>0, <2>1, <2>5, <3>1, RelatedGrows
  <2>8. Related(Family, Jobs)'
    BY <2>3, <2>6, <2>7, RelatedNext
  <2> QED BY <2>6, <2>8 DEF FamInv
<1>5. CASE /\ KernelBecomes(FreeKernel(Kernel, q))
           /\ FamilyBecomes(FreeFamily(Family, q))
  <2> DEFINE r == FreeKernel(Kernel, q)
  <2>1. /\ Settled(r) /\ r.state[q] = "INVALID"
        /\ \A p \in Slots \ {q} : r.state[p] = state[p]
    BY <1>0, <1>3, FreeKernelFacts
  <2> HIDE DEF r
  <2>2. KernelBecomes(r)
    BY <1>5 DEF r
  <2> QED BY <1>3, <1>5, <2>1, <2>2, FreeRelated
<1> QED BY <1>2, <1>4, <1>5

\* The relations and the jobs are as they were; who is waited for may be new.
LEMMA SameRelated ==
  ASSUME FamInv, WaitInv', \A p \in Slots : Live(p)' <=> Live(p),
         UNCHANGED <<parent_pid, childs, child_amount, active_processes>>
  PROVE  FamInv'
<1>1. Jobs' = Jobs /\ Live(SHELL_PID)'
  <2>1. \A p \in Programs : Live(p)' <=> Live(p)
    BY DEF Programs
  <2> QED BY <2>1, ShellIsNotIdle DEF Jobs, FamInv
<1>2. /\ Family'.parent_pid = Family.parent_pid /\ Family'.childs = Family.childs
      /\ Family'.child_amount = Family.child_amount
      /\ Family'.active_processes = Family.active_processes
  BY DEF Family
<1>3. Related(Family', Jobs')
  BY <1>1, <1>2 DEF Related, FamInv
<1> QED BY <1>1, <1>3 DEF Related, FamInv

LEMMA FamNextInv ==
  OnlyShellCreates /\ ~ShellExits /\ FamInv /\ [ProcNext]_procVars => FamInv'
<1> SUFFICES ASSUME OnlyShellCreates, ~ShellExits, FamInv, [ProcNext]_procVars
             PROVE  FamInv'
  OBVIOUS
<1>0. /\ WaitInv /\ WaitInv' /\ SchedInv /\ IdleLives(Kernel)
      /\ Settled(Kernel) /\ Kernel.current_index = Caller /\ Kernel.state = state
      /\ state[Caller] = "RUNNING" /\ Caller \in Slots
  <2>1. WaitInv /\ WaitInv'
    BY WaitNextInv DEF FamInv
  <2> QED BY <2>1, RunnerFacts DEF WaitInv, ProcInv, Kernel
<1>1. CASE SchedStep
  <2>1. PICK r : KernelBecomes(r) /\ Settled(r) /\ Phases(r) = Phases(Kernel)
    BY <1>0, <1>1, SchedStepFacts DEF OnlyShellCreates
  <2>2. \A p \in Slots : Live(p)' <=> Live(p)
    BY <1>0, <2>1, SamePhases
  <2> QED BY <1>0, <1>1, <2>2, SameRelated DEF SchedStep, familyVars
<1>2. CASE SysCreate
  BY <1>0, <1>2, CreateRelated
<1>3. CASE SysExit
  <2>1. Kill(Caller) /\ Caller \in Programs
    BY <1>0, <1>3 DEF SysExit, UserRuns, Programs
  <2> QED BY <1>0, <2>1, KillRelated
<1>4. ASSUME NEW p \in Targets, SysKill(p) \/ CtrlC(p)
      PROVE  FamInv'
  <2>1. Kill(p) /\ p \in Programs
    BY <1>4, TargetsAssumption DEF SysKill, CtrlC, Programs
  <2> QED BY <1>0, <2>1, KillRelated
<1>5. ASSUME NEW q \in Slots, SysWait(q)
      PROVE  FamInv'
  <2>1. CASE state[q] = "ZOMBIE"
    <3>1. q # Caller /\ q \in Programs /\ ~Live(q)
      <4>1. /\ parent_pid[q] = Caller /\ Caller # IDLE_PID /\ q # Caller
        BY <1>5 DEF SysWait, UserRuns
      <4>2. Caller = SHELL_PID
        BY <1>0, <4>1, ShellIsNotIdle DEF WaitInv, FamilyTypeOK
      <4> QED BY <1>0, <2>1, <4>1, <4>2 DEF Live, Programs, IdleLives
    <3> DEFINE r == FreeKernel(Kernel, q)
    <3>2. /\ Settled(r) /\ r.state[q] = "INVALID"
          /\ \A p \in Slots \ {q} : r.state[p] = state[p]
      BY <1>0, <3>1, FreeKernelFacts
    <3>3. KernelBecomes(r) /\ FamilyBecomes(FreeFamily(Family, q))
      BY <1>5, <2>1 DEF SysWait
    <3> HIDE DEF r
    <3> QED BY <1>0, <3>1, <3>2, <3>3, FreeRelated
  <2>2. CASE state[q] # "ZOMBIE"
    <3>1. /\ \A p \in Slots : Live(p)' <=> Live(p)
          /\ UNCHANGED <<parent_pid, childs, child_amount, active_processes>>
      BY <1>0, <1>5, <2>2, WaitStarts
    <3> QED BY <1>0, <3>1, SameRelated
  <2> QED BY <2>1, <2>2
<1>6. CASE WaitReturns
  <2> DEFINE q == waiting[SHELL_PID]
             r == FreeKernel(Kernel, q)
  <2>1. Caller = SHELL_PID /\ q \in Programs /\ ~Live(q)
    BY <1>0, <1>6, ReturnFacts DEF Live
  <2>2. KernelBecomes(r) /\ FamilyBecomes(FreeFamily(Family, q))
    BY <1>6, <2>1 DEF WaitReturns
  <2>3. /\ Settled(r) /\ r.state[q] = "INVALID"
        /\ \A p \in Slots \ {q} : r.state[p] = state[p]
    BY <1>0, <2>1, FreeKernelFacts DEF Programs
  <2>w. PICK w : w = q
    OBVIOUS
  <2> HIDE DEF q, r
  <2>4. w \in Programs /\ ~Live(w) /\ FamilyBecomes(FreeFamily(Family, w))
    BY <2>1, <2>2, <2>w
  <2> QED BY <1>0, <2>2, <2>3, <2>4, <2>w, FreeRelated
<1>7. CASE UNCHANGED procVars
  BY <1>0, <1>7, SameRelated DEF procVars, schedVars, familyVars, Live
<1> QED BY <1>1, <1>2, <1>3, <1>4, <1>5, <1>6, <1>7 DEF ProcNext

LEMMA FamInvHolds ==
  ASSUME OnlyShellCreates, ~ShellExits
  PROVE  ProcSpec => []FamInv
BY FamInitInv, FamNextInv, PTL DEF ProcSpec

\* The lists of children, their lengths and the parents name the same
\* processes, each once, whatever is created, killed and waited for.
THEOREM FamiliesAgree ==
  ASSUME OnlyShellCreates, ~ShellExits
  PROVE  ProcSpec => []FamilyAgrees
<1>1. FamInv => FamilyAgrees
  <2> SUFFICES ASSUME FamInv
               PROVE  FamilyAgrees
    OBVIOUS
  <2>0. /\ Related(Family, Jobs) /\ Live(SHELL_PID) /\ Jobs \in SUBSET Programs
        /\ \A p \in Slots : p = IDLE_PID \/ p = SHELL_PID \/ p \in Programs
        /\ Family.parent_pid = parent_pid /\ Family.childs = childs
        /\ Family.child_amount = child_amount
    BY FamilyIs DEF FamInv, Jobs, Programs
  <2> DEFINE held(p) == {childs[p][i] : i \in Slots} \ {NoPid}
  <2>1. ASSUME NEW p \in Slots, Live(p), parent_pid[p] # NoPid
        PROVE  \E i \in Slots : \A j \in Slots : (childs[parent_pid[p]][j] = p) <=> (i = j)
    <3>1. CASE p = SHELL_PID
      <4>1. parent_pid[p] = IDLE_PID /\ childs[IDLE_PID] = [NoChilds EXCEPT ![0] = SHELL_PID]
        BY <2>0, <3>1 DEF Related
      <4>2. 0 \in Slots
        BY SlotsAssumption DEF Slots
      <4> QED BY <3>1, <4>1, <4>2, ShellIsNotIdle DEF NoChilds
    <3>2. CASE p \in Programs
      <4>1. p \in Jobs /\ p # NoPid
        BY <2>1, <3>2, ShellIsNotIdle DEF Jobs
      <4>2. parent_pid[p] = SHELL_PID /\ \E i \in Slots : childs[SHELL_PID][i] = p
        BY <2>0, <4>1 DEF Related
      <4>3. \A i, j \in Slots : childs[SHELL_PID][i] = childs[SHELL_PID][j]
                                /\ childs[SHELL_PID][i] # NoPid => i = j
        BY <2>0 DEF Related
      <4> QED BY <4>1, <4>2, <4>3
    <3>3. p # IDLE_PID
      BY <2>0, <2>1 DEF Related
    <3> QED BY <2>0, <3>1, <3>2, <3>3
  <2>2. ASSUME NEW p \in Slots, Live(p)
        PROVE  /\ held(p) \in SUBSET Slots
               /\ \A q \in held(p) : Live(q) /\ parent_pid[q] = p
               /\ child_amount[p] = Cardinality(held(p))
    <3>1. CASE p = IDLE_PID
      <4>1. childs[p] = [NoChilds EXCEPT ![0] = SHELL_PID] /\ 0 \in Slots
        BY <2>0, <3>1, SlotsAssumption DEF Related, Slots
      <4>2. held(p) = {SHELL_PID}
        BY <4>1, ShellIsNotIdle DEF NoChilds
      <4>3. Cardinality(held(p)) = 1
        BY <4>2, FS_Singleton
      <4> QED BY <2>0, <3>1, <4>2, <4>3, ShellIsNotIdle DEF Related
    <3>2. CASE p = SHELL_PID
      <4>1. held(p) = Jobs
        <5>1. /\ \A i \in Slots : childs[p][i] \in Jobs \cup {NoPid}
              /\ \A q \in Jobs : \E i \in Slots : childs[p][i] = q
          BY <2>0, <3>2 DEF Related
        <5>2. NoPid \notin Jobs
          BY <2>0, ShellIsNotIdle DEF Programs
        <5> QED BY <5>1, <5>2
      <4>2. \A q \in Jobs : q \in Slots /\ Live(q) /\ parent_pid[q] = p
        BY <2>0, <3>2 DEF Related, Jobs, Programs
      <4> QED BY <2>0, <3>2, <4>1, <4>2 DEF Related
    <3>3. CASE p \in Programs
      <4>1. childs[p] = NoChilds /\ child_amount[p] = 0
        BY <2>0, <3>3 DEF Related
      <4>2. held(p) = {}
        BY <4>1 DEF NoChilds
      <4> QED BY <4>1, <4>2, FS_EmptySet
    <3> QED BY <2>0, <3>1, <3>2, <3>3
  <2> QED BY <2>1, <2>2 DEF FamilyAgrees
<1> QED BY <1>1, FamInvHolds, PTL

\* active_processes counts the processes that are not ZOMBIE.
THEOREM ActiveProcessesCount ==
  ASSUME OnlyShellCreates, ~ShellExits
  PROVE  ProcSpec => []ActiveCount
<1>1. FamInv => ActiveCount
  <2> SUFFICES ASSUME FamInv
               PROVE  ActiveCount
    OBVIOUS
  <2>1. {p \in Slots : Live(p)} = (Jobs \cup {SHELL_PID}) \cup {IDLE_PID}
    <3>1. Live(IDLE_PID) /\ Live(SHELL_PID)
      <4>1. state[IDLE_PID] \in ProcessState
        BY PhaseOfSlot, SlotsAssumption DEF FamInv, WaitInv, ProcInv
      <4> QED BY <4>1 DEF FamInv, WaitInv, IdleLives, Kernel, Live, ProcessState
    <3> QED BY <3>1, ShellIsNotIdle DEF Jobs, Programs
  <2>2. /\ IsFiniteSet(Jobs) /\ Cardinality(Jobs) \in Nat
        /\ SHELL_PID \notin Jobs /\ IDLE_PID \notin Jobs \cup {SHELL_PID}
    BY JobsFinite, ShellIsNotIdle DEF Jobs, Programs
  <2>3. /\ IsFiniteSet(Jobs \cup {SHELL_PID})
        /\ Cardinality(Jobs \cup {SHELL_PID}) = Cardinality(Jobs) + 1
    BY <2>2, FS_AddElement
  <2>4. Cardinality((Jobs \cup {SHELL_PID}) \cup {IDLE_PID}) = Cardinality(Jobs) + 2
    <3>1. PICK T : T = Jobs \cup {SHELL_PID}
      OBVIOUS
    <3>2. IsFiniteSet(T) /\ IDLE_PID \notin T /\ Cardinality(T) = Cardinality(Jobs) + 1
      BY <2>2, <2>3, <3>1
    <3>3. Cardinality(T \cup {IDLE_PID}) = Cardinality(T) + 1
      BY <3>2, FS_AddElement
    <3> QED BY <2>2, <3>1, <3>2, <3>3
  <2>5. active_processes = Cardinality(Jobs) + 2
    BY FamilyIs DEF FamInv, Related
  <2> QED BY <2>1, <2>4, <2>5 DEF ActiveCount
<1> QED BY <1>1, FamInvHolds, PTL

=============================================================================
