--------------------------- MODULE SchedulerProofs ---------------------------
(***************************************************************************)
(* What Scheduler promises, for every size of the process table and every  *)
(* quantum.  The C functions are operators on a kernel record, so the      *)
(* proofs are lemmas about those operators: what each one needs of the     *)
(* record it is given and what it leaves true of the one it returns.       *)
(***************************************************************************)
EXTENDS Scheduler, WellFoundedInduction, TLAPS

KernelType == [state : [Slots -> ProcessState],
               blocks_amount : [Slots -> Int],
               time_used : [Slots -> Nat],
               my_max_time : [Slots -> Nat \ {0}],
               yielding : [Slots -> {0, 1}],
               current_index : Slots]

\* At most the process current_index names is RUNNING: what holds between
\* the marking half of a system call and its context switch.
NoOtherRuns(k) == RunningSlots(k) \subseteq {k.current_index}

\* BlockedIffCounted, of a kernel record.
Counted(k) ==
  \A p \in Slots \ {IDLE_PID} :
    /\ k.state[p] = "BLOCKED" => k.blocks_amount[p] > 0
    /\ k.state[p] \in {"READY", "RUNNING"} => k.blocks_amount[p] = 0

\* What every operator that is given the CPU to hand over can rely on.
Coherent(k) == k \in KernelType /\ NoOtherRuns(k) /\ Counted(k)

\* What the context switch restores.
Settled(k) == /\ k \in KernelType
              /\ RunningSlots(k) = {k.current_index}
              /\ Counted(k)

-----------------------------------------------------------------------------
\* The search for a minimum that the scan of the table makes.
LEMMA LeastIsLeast ==
  ASSUME NEW D \in SUBSET Nat, D # {}
  PROVE  /\ Least(D) \in D
         /\ \A e \in D : Least(D) <= e
<1> DEFINE R == OpToRel(<, Nat)
<1>1. IsWellFoundedOn(R, Nat)
  BY NatLessThanWellFounded
<1>2. \A d, e \in Nat : <<e, d>> \in R <=> e < d
  BY DEF OpToRel
<1> HIDE DEF R
<1>3. PICK d \in D : \A e \in D : <<e, d>> \notin R
  BY <1>1, WFMin
<1>4. \A e \in D : d <= e
  <2> TAKE e \in D
  <2>1. d \in Nat /\ e \in Nat
    OBVIOUS
  <2>2. ~(e < d)
    BY <1>2, <1>3, <2>1, Zenon
  <2> QED BY <2>1, <2>2
<1> QED BY <1>4 DEF Least

LEMMA ModSlot ==
  ASSUME NEW n \in Nat
  PROVE  n % MAX_PCS \in Slots
BY SlotsAssumption DEF Slots

\* Every slot lies at one distance from current_index.
LEMMA EverySlotIsScanned ==
  ASSUME NEW c \in Slots, NEW p \in Slots
  PROVE  \E d \in 1 .. MAX_PCS : (c + d) % MAX_PCS = p
<1>1. CASE c < p
  <2>1. p - c \in 1 .. MAX_PCS /\ c + (p - c) = p
    BY <1>1, SlotsAssumption DEF Slots
  <2>2. p % MAX_PCS = p
    BY SlotsAssumption DEF Slots
  <2> QED BY <2>1, <2>2
<1>2. CASE p <= c
  <2>1. p - c + MAX_PCS \in 1 .. MAX_PCS /\ c + (p - c + MAX_PCS) = p + MAX_PCS
    BY <1>2, SlotsAssumption DEF Slots
  <2>2. (p + MAX_PCS) % MAX_PCS = p
    BY SlotsAssumption DEF Slots
  <2> QED BY <2>1, <2>2
<1> QED BY <1>1, <1>2 DEF Slots

-----------------------------------------------------------------------------
LEMMA NextIndexFacts ==
  ASSUME NEW k \in KernelType
  PROVE  /\ NextIndex(k) \in Slots
         /\ k.state[NextIndex(k)] = "READY" \/ NextIndex(k) = IDLE_PID
         /\ k.state[NextIndex(k)] = "READY" \/ \A p \in Slots : k.state[p] # "READY"
<1> DEFINE R == ReadyDistances(k)
           n == (k.current_index + Least(R)) % MAX_PCS
<1>1. k.current_index \in Slots
  BY DEF KernelType
<1>2. CASE R = {}
  <2>1. NextIndex(k) = IDLE_PID
    BY <1>2 DEF NextIndex
  <2>2. ASSUME NEW p \in Slots
        PROVE  k.state[p] # "READY"
    <3>1. PICK d \in 1 .. MAX_PCS : (k.current_index + d) % MAX_PCS = p
      BY <1>1, EverySlotIsScanned
    <3> QED BY <1>2, <3>1 DEF ReadyDistances
  <2> QED BY <2>1, <2>2, SlotsAssumption
<1>3. CASE R # {}
  <2>1. R \in SUBSET Nat
    BY DEF ReadyDistances
  <2>2. Least(R) \in R
    BY <1>3, <2>1, LeastIsLeast
  <2>3. NextIndex(k) = n
    BY <1>3 DEF NextIndex
  <2>4. k.state[n] = "READY"
    BY <2>2 DEF ReadyDistances
  <2>5. n \in Slots
    <3>1. k.current_index + Least(R) \in Nat
      BY <1>1, <2>1, <2>2 DEF Slots
    <3> QED BY <3>1, ModSlot
  <2> QED BY <2>3, <2>4, <2>5
<1> QED BY <1>2, <1>3

\* Charging the running process stops it or lets it run, and touches nothing
\* else of the table.
LEMMA ChargeFacts ==
  ASSUME NEW k, Coherent(k), CurrentRuns(k)
  PROVE  /\ Coherent(Charge(k))
         /\ \A p \in Slots \ {k.current_index} : Charge(k).state[p] = k.state[p]
<1> DEFINE c == k.current_index
           a == Charge(k)
<1>1. k \in KernelType /\ c \in Slots /\ k.state[c] = "RUNNING"
  BY DEF Coherent, CurrentRuns
<1>2. /\ a \in KernelType
      /\ a.current_index = c
      /\ a.blocks_amount = k.blocks_amount
      /\ a.state[c] \in {"RUNNING", "READY", "BLOCKED"}
      /\ a.state[c] = "BLOCKED" => c = IDLE_PID
      /\ \A p \in Slots \ {c} : a.state[p] = k.state[p]
  <2>1. CASE k.time_used[c] + 1 >= k.my_max_time[c]
    <3>1. a = [k EXCEPT !.time_used[c] = 0,
                        !.state[c] = IF c = IDLE_PID THEN "BLOCKED" ELSE "READY"]
      BY <2>1 DEF Charge
    <3> HIDE DEF a
    <3> QED BY <1>1, <3>1 DEF KernelType, ProcessState
  <2>2. CASE ~(k.time_used[c] + 1 >= k.my_max_time[c]) /\ k.yielding[c] = 1
    <3>1. a = [k EXCEPT !.time_used[c] = 0, !.yielding[c] = 0,
                        !.state[c] = "READY"]
      BY <2>2 DEF Charge
    <3> HIDE DEF a
    <3> QED BY <1>1, <3>1 DEF KernelType, ProcessState
  <2>3. CASE ~(k.time_used[c] + 1 >= k.my_max_time[c]) /\ ~(k.yielding[c] = 1)
    <3>1. a = [k EXCEPT !.time_used[c] = k.time_used[c] + 1]
      BY <2>3 DEF Charge
    <3> HIDE DEF a
    <3> QED BY <1>1, <3>1 DEF KernelType, ProcessState
  <2> QED BY <2>1, <2>2, <2>3
<1> HIDE DEF a
<1>3. NoOtherRuns(a)
  BY <1>2 DEF Coherent, NoOtherRuns, RunningSlots
<1>4. Counted(a)
  <2> SUFFICES ASSUME NEW p \in Slots \ {IDLE_PID}
               PROVE  /\ a.state[p] = "BLOCKED" => a.blocks_amount[p] > 0
                      /\ a.state[p] \in {"READY", "RUNNING"} => a.blocks_amount[p] = 0
    BY DEF Counted
  <2>1. CASE p = c
    BY <1>1, <1>2, <2>1 DEF Coherent, Counted
  <2>2. CASE p # c
    BY <1>2, <2>2 DEF Coherent, Counted
  <2> QED BY <2>1, <2>2
<1> QED BY <1>2, <1>3, <1>4 DEF Coherent, a

LEMMA DispatchFacts ==
  ASSUME NEW k, Coherent(k), ~CurrentRuns(k)
  PROVE  Settled(Dispatch(k))
<1> DEFINE n == NextIndex(k)
<1>1. k \in KernelType
  BY DEF Coherent
<1>2. n \in Slots /\ (k.state[n] = "READY" \/ n = IDLE_PID)
  BY <1>1, NextIndexFacts
<1>3. RunningSlots(k) = {}
  BY DEF Coherent, NoOtherRuns, CurrentRuns, RunningSlots
<1> HIDE DEF n
<1> DEFINE h == [k EXCEPT !.state[n] = "RUNNING", !.current_index = n]
<1>4. h \in KernelType
  BY <1>1, <1>2 DEF KernelType, ProcessState
<1>5. \A p \in Slots : h.state[p] = IF p = n THEN "RUNNING" ELSE k.state[p]
  BY <1>1, <1>2 DEF KernelType
<1>6. RunningSlots(h) = {h.current_index}
  BY <1>1, <1>2, <1>3, <1>5 DEF RunningSlots, KernelType
<1>7. Counted(h)
  BY <1>1, <1>2, <1>5 DEF Coherent, Counted, KernelType
<1> QED BY <1>4, <1>6, <1>7 DEF Settled, Dispatch, n

\* The context switch: whatever the system call left, the CPU is with exactly
\* the process current_index names when it is over.
LEMMA SchedulingFacts ==
  ASSUME NEW k, Coherent(k)
  PROVE  Settled(Scheduling(k))
<1> DEFINE a == IF CurrentRuns(k) THEN Charge(k) ELSE k
<1>1. Coherent(a)
  BY ChargeFacts
<1> HIDE DEF a
<1>2. Scheduling(k) = IF CurrentRuns(a) THEN a ELSE Dispatch(a)
  BY DEF Scheduling, a
<1>3. CurrentRuns(a) => Settled(a)
  BY <1>1 DEF Coherent, Settled, NoOtherRuns, CurrentRuns, RunningSlots
<1>4. ~CurrentRuns(a) => Settled(Dispatch(a))
  BY <1>1, DispatchFacts
<1>5. CASE CurrentRuns(a)
  <2>1. Scheduling(k) = a
    BY <1>2, <1>5
  <2> QED BY <1>3, <1>5, <2>1
<1>6. CASE ~CurrentRuns(a)
  <2>1. Scheduling(k) = Dispatch(a)
    BY <1>2, <1>6
  <2> QED BY <1>4, <1>6, <2>1
<1> QED BY <1>5, <1>6

\* The system calls leave, before their context switch, a table that
\* scheduling() can be given.
LEMMA YieldIsATick ==
  ASSUME NEW k, Coherent(k)
  PROVE  \E y : /\ Coherent(y)
               /\ y.state = k.state
               /\ y.blocks_amount = k.blocks_amount
               /\ Yield(k) = Scheduling(y)
<1> DEFINE p == GetPid(k)
           y == [k EXCEPT !.yielding[p] = 1]
<1>1. CASE RunningSlots(k) = {}
  <2>1. p = -1
    BY <1>1 DEF GetPid
  <2>2. Yield(k) = Scheduling(k)
    BY <2>1 DEF Yield
  <2> QED BY <2>2
<1>2. CASE RunningSlots(k) # {}
  <2>1. RunningSlots(k) = {k.current_index} /\ k.current_index \in Slots
    BY <1>2 DEF Coherent, NoOtherRuns, KernelType
  <2>2. p = k.current_index
    <3>1. \A q \in RunningSlots(k) : q = k.current_index
      BY <2>1
    <3>2. p \in RunningSlots(k)
      BY <2>1 DEF GetPid, Slots
    <3> QED BY <3>1, <3>2
  <2>3. p \in Slots /\ p # -1
    BY <2>1, <2>2 DEF Slots
  <2>4. Yield(k) = Scheduling(y)
    BY <2>3 DEF Yield
  <2> HIDE DEF p
  <2>5. y \in KernelType
    BY <2>3 DEF Coherent, KernelType
  <2>6. y.state = k.state /\ y.blocks_amount = k.blocks_amount
        /\ y.current_index = k.current_index
    BY DEF Coherent, KernelType
  <2> HIDE DEF y
  <2>7. Coherent(y)
    BY <2>5, <2>6 DEF Coherent, NoOtherRuns, RunningSlots, Counted
  <2> QED BY <2>4, <2>6, <2>7
<1> QED BY <1>1, <1>2

LEMMA YieldFacts ==
  ASSUME NEW k, Coherent(k)
  PROVE  Settled(Yield(k))
BY YieldIsATick, SchedulingFacts

\* A BLOCKED idle process that a context switch gives the CPU to finds no
\* READY process in the table.
LEMMA SchedulingIdle ==
  ASSUME NEW k, Coherent(k), k.state[IDLE_PID] = "BLOCKED",
         Scheduling(k).state[IDLE_PID] = "RUNNING"
  PROVE  \A p \in Slots : Scheduling(k).state[p] # "READY"
<1> DEFINE a == IF CurrentRuns(k) THEN Charge(k) ELSE k
           n == NextIndex(a)
<1>1. Coherent(a) /\ a \in KernelType
  BY ChargeFacts DEF Coherent
<1>2. a.state[IDLE_PID] = "BLOCKED"
  BY ChargeFacts, SlotsAssumption DEF CurrentRuns
<1>3. Scheduling(k) = IF CurrentRuns(a) THEN a ELSE Dispatch(a)
  BY DEF Scheduling, a
<1> HIDE DEF a
<1>4. ~CurrentRuns(a)
  BY <1>2, <1>3
<1>5. Scheduling(k) = [a EXCEPT !.state[n] = "RUNNING", !.current_index = n]
  BY <1>3, <1>4 DEF Dispatch
<1>6. /\ n \in Slots
      /\ a.state[n] = "READY" \/ \A p \in Slots : a.state[p] # "READY"
  BY <1>1, NextIndexFacts
<1> HIDE DEF n
<1>7. \A p \in Slots :
        Scheduling(k).state[p] = IF p = n THEN "RUNNING" ELSE a.state[p]
  BY <1>1, <1>5, <1>6 DEF KernelType
<1>8. n = IDLE_PID
  BY <1>2, <1>7, SlotsAssumption
<1> QED BY <1>2, <1>6, <1>7, <1>8

LEMMA YieldIdle ==
  ASSUME NEW k, Coherent(k), k.state[IDLE_PID] = "BLOCKED",
         Yield(k).state[IDLE_PID] = "RUNNING"
  PROVE  \A p \in Slots : Yield(k).state[p] # "READY"
<1>1. PICK y : Coherent(y) /\ y.state = k.state /\ Yield(k) = Scheduling(y)
  BY YieldIsATick
<1> QED BY <1>1, SchedulingIdle

\* block_process() either refuses or ends in the yield() of a coherent table,
\* in which nobody but the blocked process has changed state.
LEMMA BlockProcessCases ==
  ASSUME NEW k, Settled(k), NEW p \in Slots
  PROVE  \/ BlockProcess(k, p) = k /\ k.state[p] \in {"INVALID", "ZOMBIE"}
         \/ \E m : /\ Coherent(m)
                   /\ BlockProcess(k, p) = Yield(m)
                   /\ k.state[p] \notin {"INVALID", "ZOMBIE"}
                   /\ m.state[p] = "BLOCKED"
                   /\ m.blocks_amount[p] = k.blocks_amount[p] + 1
                   /\ \A q \in Slots \ {p} : /\ m.state[q] = k.state[q]
                                             /\ m.blocks_amount[q] = k.blocks_amount[q]
<1> DEFINE m == MarkBlocked(k, p)
<1>1. CASE ~(IsPidValid(k, p) /\ k.state[p] # "ZOMBIE")
  <2>1. BlockProcess(k, p) = k
    BY <1>1 DEF BlockProcess
  <2>2. k.state[p] \in {"INVALID", "ZOMBIE"}
    BY <1>1 DEF IsPidValid
  <2> QED BY <2>1, <2>2
<1>2. CASE IsPidValid(k, p) /\ k.state[p] # "ZOMBIE"
  <2>1. BlockProcess(k, p) = Yield(m)
    BY <1>2 DEF BlockProcess
  <2>2. k \in KernelType /\ k.blocks_amount[p] \in Int
    BY DEF Settled, KernelType
  <2>3. /\ m \in KernelType
        /\ m.current_index = k.current_index
        /\ m.state[p] = "BLOCKED"
        /\ m.blocks_amount[p] = k.blocks_amount[p] + 1
        /\ \A q \in Slots \ {p} : /\ m.state[q] = k.state[q]
                                  /\ m.blocks_amount[q] = k.blocks_amount[q]
    <3> DEFINE s == [k.state EXCEPT ![p] = "BLOCKED"]
               b == [k.blocks_amount EXCEPT ![p] = k.blocks_amount[p] + 1]
    <3>1. s \in [Slots -> ProcessState] /\ b \in [Slots -> Int]
      BY <2>2 DEF KernelType, ProcessState
    <3>2. m = [k EXCEPT !.state = s, !.blocks_amount = b]
      BY <2>2 DEF MarkBlocked, KernelType
    <3>3. /\ s[p] = "BLOCKED" /\ b[p] = k.blocks_amount[p] + 1
          /\ \A q \in Slots \ {p} : s[q] = k.state[q] /\ b[q] = k.blocks_amount[q]
      BY <2>2 DEF KernelType
    <3> HIDE DEF m, s, b
    <3> QED BY <2>2, <3>1, <3>2, <3>3 DEF KernelType
  <2> HIDE DEF m
  <2>4. NoOtherRuns(m)
    BY <2>3 DEF Settled, NoOtherRuns, RunningSlots
  <2>5. Counted(m)
    <3> SUFFICES ASSUME NEW q \in Slots \ {IDLE_PID}
                 PROVE  /\ m.state[q] = "BLOCKED" => m.blocks_amount[q] > 0
                        /\ m.state[q] \in {"READY", "RUNNING"} => m.blocks_amount[q] = 0
      BY DEF Counted
    <3>1. CASE q = p
      <4>1. k.state[p] \in {"READY", "RUNNING", "BLOCKED"}
        BY <1>2, <2>2 DEF IsPidValid, KernelType, ProcessState
      <4>2. k.blocks_amount[p] >= 0
        BY <2>2, <3>1, <4>1 DEF Settled, Counted
      <4> QED BY <2>2, <2>3, <3>1, <4>2
    <3>2. CASE q # p
      BY <2>3, <3>2 DEF Settled, Counted
    <3> QED BY <3>1, <3>2
  <2>6. Coherent(m)
    BY <2>3, <2>4, <2>5 DEF Coherent
  <2>7. k.state[p] \notin {"INVALID", "ZOMBIE"}
    BY <1>2 DEF IsPidValid
  <2> QED BY <2>1, <2>3, <2>6, <2>7
<1> QED BY <1>1, <1>2

LEMMA BlockProcessFacts ==
  ASSUME NEW k, Settled(k), NEW p \in Slots
  PROVE  Settled(BlockProcess(k, p))
BY BlockProcessCases, YieldFacts

LEMMA UnblockProcessFacts ==
  ASSUME NEW k \in KernelType, Counted(k), NEW p \in Slots
  PROVE  LET u == UnblockProcess(k, p)
         IN  /\ u \in KernelType
             /\ RunningSlots(u) = RunningSlots(k)
             /\ u.current_index = k.current_index
             /\ Counted(u)
             /\ \A q \in Slots \ {p} : /\ u.state[q] = k.state[q]
                                       /\ u.blocks_amount[q] = k.blocks_amount[q]
             /\ k.state[p] # "BLOCKED" => u = k
             /\ k.state[p] = "BLOCKED" =>
                  /\ u.state[p] = IF k.blocks_amount[p] > 1 THEN "BLOCKED" ELSE "READY"
                  /\ u.blocks_amount[p] = k.blocks_amount[p] - 1
<1> DEFINE u == UnblockProcess(k, p)
<1>1. CASE k.state[p] # "BLOCKED"
  <2>1. u = k
    BY <1>1 DEF UnblockProcess
  <2> QED BY <1>1, <2>1, Zenon
<1>2. CASE k.state[p] = "BLOCKED"
  <2>1. IsPidValid(k, p)
    BY <1>2 DEF IsPidValid
  <2>2. u = [k EXCEPT !.blocks_amount[p] = k.blocks_amount[p] - 1,
                      !.state[p] = IF k.blocks_amount[p] > 1 THEN k.state[p]
                                                             ELSE "READY"]
    BY <1>2, <2>1 DEF UnblockProcess
  <2> HIDE DEF u
  <2>3. /\ u \in KernelType
        /\ u.current_index = k.current_index
        /\ u.state[p] = IF k.blocks_amount[p] > 1 THEN "BLOCKED" ELSE "READY"
        /\ u.blocks_amount[p] = k.blocks_amount[p] - 1
        /\ k.blocks_amount[p] \in Int
        /\ \A q \in Slots \ {p} : /\ u.state[q] = k.state[q]
                                  /\ u.blocks_amount[q] = k.blocks_amount[q]
    <3> DEFINE w == IF k.blocks_amount[p] > 1 THEN "BLOCKED" ELSE "READY"
               s == [k.state EXCEPT ![p] = w]
               b == [k.blocks_amount EXCEPT ![p] = k.blocks_amount[p] - 1]
    <3>1. k.blocks_amount[p] \in Int /\ w \in ProcessState
      BY DEF KernelType, ProcessState
    <3>2. u = [k EXCEPT !.state = s, !.blocks_amount = b]
      BY <1>2, <2>2 DEF KernelType
    <3> HIDE DEF w
    <3>3. s \in [Slots -> ProcessState] /\ b \in [Slots -> Int]
      BY <3>1 DEF KernelType
    <3>4. /\ s[p] = w /\ b[p] = k.blocks_amount[p] - 1
          /\ \A q \in Slots \ {p} : s[q] = k.state[q] /\ b[q] = k.blocks_amount[q]
      BY DEF KernelType
    <3> HIDE DEF s, b
    <3> QED BY <3>1, <3>2, <3>3, <3>4 DEF KernelType, w
  <2>4. RunningSlots(u) = RunningSlots(k)
    BY <1>2, <2>3 DEF RunningSlots
  <2>5. Counted(u)
    <3> SUFFICES ASSUME NEW q \in Slots \ {IDLE_PID}
                 PROVE  /\ u.state[q] = "BLOCKED" => u.blocks_amount[q] > 0
                        /\ u.state[q] \in {"READY", "RUNNING"} => u.blocks_amount[q] = 0
      BY DEF Counted
    <3>1. CASE q = p
      <4>1. k.blocks_amount[p] > 0
        BY <1>2, <3>1 DEF Counted
      <4> QED BY <2>3, <3>1, <4>1
    <3>2. CASE q # p
      BY <2>3, <3>2 DEF Counted
    <3> QED BY <3>1, <3>2
  <2> QED BY <1>2, <2>3, <2>4, <2>5 DEF u
<1> QED BY <1>1, <1>2

IdleLives(k) == k.state[IDLE_PID] \notin {"INVALID", "ZOMBIE"}

\* What a context switch leaves of a process: whether it is BLOCKED, with which
\* count, and whether it lives.
Untouched(k, r, p) ==
  /\ r.state[p] = "BLOCKED" <=> k.state[p] = "BLOCKED"
  /\ r.blocks_amount[p] = k.blocks_amount[p]
  /\ k.state[p] \in {"READY", "RUNNING"} => r.state[p] \in {"READY", "RUNNING"}
  /\ k.state[p] \in {"INVALID", "ZOMBIE"} => r.state[p] = k.state[p]

\* The idle process, which is BLOCKED whenever another one runs, stays alive.
SameSleepers(k, r) == /\ \A p \in Slots \ {IDLE_PID} : Untouched(k, r, p)
                      /\ IdleLives(k) => IdleLives(r)

LEMMA ChargeSleepers ==
  ASSUME NEW k, Coherent(k), CurrentRuns(k)
  PROVE  SameSleepers(k, Charge(k))
<1> DEFINE c == k.current_index
           a == Charge(k)
<1>1. k \in KernelType /\ c \in Slots /\ k.state[c] = "RUNNING"
  BY DEF Coherent, CurrentRuns
<1>2. /\ a.blocks_amount = k.blocks_amount
      /\ a.state[c] \in {"RUNNING", "READY", "BLOCKED"}
      /\ a.state[c] = "BLOCKED" => c = IDLE_PID
      /\ \A p \in Slots \ {c} : a.state[p] = k.state[p]
  <2>1. CASE k.time_used[c] + 1 >= k.my_max_time[c]
    <3>1. a = [k EXCEPT !.time_used[c] = 0,
                        !.state[c] = IF c = IDLE_PID THEN "BLOCKED" ELSE "READY"]
      BY <2>1 DEF Charge
    <3> HIDE DEF a
    <3> QED BY <1>1, <3>1 DEF KernelType
  <2>2. CASE ~(k.time_used[c] + 1 >= k.my_max_time[c]) /\ k.yielding[c] = 1
    <3>1. a = [k EXCEPT !.time_used[c] = 0, !.yielding[c] = 0,
                        !.state[c] = "READY"]
      BY <2>2 DEF Charge
    <3> HIDE DEF a
    <3> QED BY <1>1, <3>1 DEF KernelType
  <2>3. CASE ~(k.time_used[c] + 1 >= k.my_max_time[c]) /\ ~(k.yielding[c] = 1)
    <3>1. a = [k EXCEPT !.time_used[c] = k.time_used[c] + 1]
      BY <2>3 DEF Charge
    <3> HIDE DEF a
    <3> QED BY <1>1, <3>1 DEF KernelType
  <2> QED BY <2>1, <2>2, <2>3
<1> HIDE DEF a, c
<1>3. ASSUME NEW p \in Slots \ {IDLE_PID}
      PROVE  Untouched(k, a, p)
  <2>1. CASE p = c
    BY <1>1, <1>2, <1>3, <2>1 DEF Untouched
  <2>2. CASE p # c
    BY <1>2, <1>3, <2>2 DEF Untouched
  <2> QED BY <2>1, <2>2
<1>4. IdleLives(k) => IdleLives(a)
  BY <1>2, SlotsAssumption DEF IdleLives
<1> QED BY <1>3, <1>4 DEF SameSleepers, a

LEMMA DispatchSleepers ==
  ASSUME NEW k, Coherent(k)
  PROVE  SameSleepers(k, Dispatch(k))
<1> DEFINE n == NextIndex(k)
           h == Dispatch(k)
<1>1. k \in KernelType
  BY DEF Coherent
<1>2. n \in Slots /\ (k.state[n] = "READY" \/ n = IDLE_PID)
  BY <1>1, NextIndexFacts
<1>3. h = [k EXCEPT !.state[n] = "RUNNING", !.current_index = n]
  BY DEF Dispatch
<1> HIDE DEF n, h
<1>4. /\ h.blocks_amount = k.blocks_amount
      /\ h.state[n] = "RUNNING"
      /\ \A p \in Slots \ {n} : h.state[p] = k.state[p]
  BY <1>1, <1>2, <1>3 DEF KernelType
<1>5. IdleLives(k) => IdleLives(h)
  BY <1>4, SlotsAssumption DEF IdleLives
<1> QED BY <1>2, <1>4, <1>5 DEF SameSleepers, Untouched, h

LEMMA SchedulingSleepers ==
  ASSUME NEW k, Coherent(k)
  PROVE  SameSleepers(k, Scheduling(k))
<1> DEFINE a == IF CurrentRuns(k) THEN Charge(k) ELSE k
<1>1. Coherent(a)
  BY ChargeFacts
<1>2. SameSleepers(k, a)
  BY ChargeSleepers DEF SameSleepers, Untouched
<1> HIDE DEF a
<1>3. Scheduling(k) = IF CurrentRuns(a) THEN a ELSE Dispatch(a)
  BY DEF Scheduling, a
<1>4. SameSleepers(a, Dispatch(a))
  BY <1>1, DispatchSleepers
<1>5. SameSleepers(k, Dispatch(a))
  BY <1>2, <1>4 DEF SameSleepers, Untouched
<1> QED BY <1>2, <1>3, <1>5

LEMMA YieldSleepers ==
  ASSUME NEW k, Coherent(k)
  PROVE  SameSleepers(k, Yield(k))
<1>1. PICK y : /\ Coherent(y)
               /\ y.state = k.state
               /\ y.blocks_amount = k.blocks_amount
               /\ Yield(k) = Scheduling(y)
  BY YieldIsATick
<1>2. SameSleepers(y, Scheduling(y))
  BY <1>1, SchedulingSleepers
<1> QED BY <1>1, <1>2 DEF SameSleepers, Untouched, IdleLives

\* A running process that blocks itself is blocked once, and nobody else is.
LEMMA BlockSelf ==
  ASSUME NEW k, Settled(k), k.current_index # IDLE_PID,
         NEW p, p = k.current_index
  PROVE  LET r == BlockProcess(k, p)
         IN  /\ Settled(r)
             /\ r.state[p] = "BLOCKED" /\ r.blocks_amount[p] = 1
             /\ \A q \in Slots \ {p, IDLE_PID} : Untouched(k, r, q)
             /\ IdleLives(k) => IdleLives(r)
<1> DEFINE r == BlockProcess(k, p)
<1>1. /\ p \in Slots \ {IDLE_PID}
      /\ k.state[p] = "RUNNING" /\ k.blocks_amount[p] = 0
  BY DEF Settled, KernelType, RunningSlots, Counted
<1>2. Settled(r)
  BY <1>1, BlockProcessFacts
<1>3. PICK m : /\ Coherent(m)
               /\ r = Yield(m)
               /\ m.state[p] = "BLOCKED"
               /\ m.blocks_amount[p] = k.blocks_amount[p] + 1
               /\ \A q \in Slots \ {p} : /\ m.state[q] = k.state[q]
                                         /\ m.blocks_amount[q] = k.blocks_amount[q]
  BY <1>1, BlockProcessCases
<1> HIDE DEF r
<1>4. SameSleepers(m, r)
  BY <1>3, YieldSleepers
<1>5. IdleLives(k) => IdleLives(m)
  BY <1>3, SlotsAssumption DEF IdleLives
<1> QED BY <1>1, <1>2, <1>3, <1>4, <1>5 DEF SameSleepers, Untouched, r

-----------------------------------------------------------------------------
LEMMA MaxTimeIsPositive ==
  ASSUME NEW prio
  PROVE  MaxTimeForPriority(prio) \in Nat \ {0}
<1>1. QUANTUM \in Nat \ {0}
  BY TimeAssumption
<1>2. /\ QUANTUM * 625 \in Nat \ {0}
      /\ QUANTUM * 125 \in Nat \ {0}
      /\ QUANTUM * 25 \in Nat \ {0}
      /\ QUANTUM * 5 \in Nat \ {0}
  BY <1>1
<1> QED BY <1>1, <1>2 DEF MaxTimeForPriority

LEMMA BeNiceFacts ==
  ASSUME NEW k, Settled(k), NEW p \in Slots, NEW prio
  PROVE  Settled(BeNice(k, p, prio))
<1> DEFINE b == [k EXCEPT !.my_max_time[p] = MaxTimeForPriority(prio)]
<1>1. b \in KernelType
  BY MaxTimeIsPositive DEF Settled, KernelType
<1>2. b.state = k.state /\ b.blocks_amount = k.blocks_amount
      /\ b.current_index = k.current_index
  BY DEF Settled, KernelType
<1>3. BeNice(k, p, prio) = b \/ BeNice(k, p, prio) = k
  BY DEF BeNice
<1> HIDE DEF b
<1>4. Settled(b)
  BY <1>1, <1>2 DEF Settled, RunningSlots, Counted
<1> QED BY <1>3, <1>4

-----------------------------------------------------------------------------
\* The invariant, which the three properties follow from.
SchedInv == Settled(Kernel)

LEMMA KernelBecomesSettled ==
  ASSUME NEW k, Settled(k), KernelBecomes(k)
  PROVE  SchedInv'
<1>1. Kernel' = k
  BY DEF Kernel, KernelBecomes, Settled, KernelType
<1>2. Settled(Kernel)' <=> Settled(Kernel')
  BY DEF Settled, KernelType, RunningSlots, Counted
<1> QED BY <1>1, <1>2 DEF SchedInv

LEMMA SettledCoherent ==
  ASSUME NEW k, Settled(k)
  PROVE  Coherent(k)
BY DEF Settled, Coherent, NoOtherRuns

\* The process on the CPU is the one that get_pid() finds.
LEMMA RunnerFacts ==
  ASSUME SchedInv
  PROVE  /\ Settled(Kernel) /\ Kernel.current_index = Caller /\ Caller \in Slots
         /\ state[Caller] = "RUNNING"
         /\ GetPid(Kernel) = Caller
<1>1. /\ RunningSlots(Kernel) = {current_index} /\ current_index \in Slots
      /\ Kernel.current_index = current_index
  BY DEF SchedInv, Settled, Kernel, KernelType
<1>2. state[current_index] = "RUNNING"
  BY <1>1 DEF RunningSlots, Kernel
<1>3. GetPid(Kernel) = current_index
  <2>1. GetPid(Kernel) = CHOOSE p \in {current_index} :
                           \A q \in {current_index} : p <= q
    BY <1>1 DEF GetPid
  <2>2. current_index <= current_index
    BY <1>1 DEF Slots
  <2> QED BY <2>1, <2>2
<1> QED BY <1>1, <1>2, <1>3 DEF SchedInv, Caller

LEMMA FirstIsAClient == FirstProc \in Procs
<1>1. Procs \in SUBSET Nat /\ Procs # {}
  BY ClientAssumption DEF Slots
<1> QED BY <1>1, LeastIsLeast DEF FirstProc

LEMMA SchedInitInv == SchedInit => SchedInv
<1> SUFFICES ASSUME SchedInit
             PROVE  SchedInv
  OBVIOUS
<1>2. FirstProc \in Slots \ {IDLE_PID}
  BY FirstIsAClient, ClientAssumption
<1>3. Kernel \in KernelType
  BY <1>2, TimeAssumption DEF SchedInit, Kernel, KernelType, ProcessState
<1>4. RunningSlots(Kernel) = {Kernel.current_index}
  <2>1. current_index = FirstProc /\ state[FirstProc] = "RUNNING"
    BY <1>2 DEF SchedInit
  <2>2. \A p \in Slots : state[p] = "RUNNING" => p = FirstProc
    BY DEF SchedInit
  <2> QED BY <1>2, <2>1, <2>2 DEF Kernel, RunningSlots
<1>5. Counted(Kernel)
  BY <1>2 DEF SchedInit, Kernel, Counted
<1> QED BY <1>3, <1>4, <1>5 DEF SchedInv, Settled

LEMMA SchedNextInv == SchedInv /\ [SchedNext]_schedVars => SchedInv'
<1> SUFFICES ASSUME SchedInv, [SchedNext]_schedVars
             PROVE  SchedInv'
  OBVIOUS
<1>0. Settled(Kernel) /\ Coherent(Kernel)
  BY SettledCoherent DEF SchedInv
<1>1. CASE TimerTick
  BY <1>0, <1>1, SchedulingFacts, KernelBecomesSettled DEF TimerTick
<1>2. CASE SysYield
  BY <1>0, <1>2, YieldFacts, KernelBecomesSettled DEF SysYield
<1>3. ASSUME NEW p \in Slots, SysBlock(p)
      PROVE  SchedInv'
  BY <1>0, <1>3, BlockProcessFacts, KernelBecomesSettled DEF SysBlock
<1>4. ASSUME NEW p \in Slots, SysUnblock(p)
      PROVE  SchedInv'
  <2>1. Settled(UnblockProcess(Kernel, p))
    BY <1>0, UnblockProcessFacts DEF Settled
  <2> QED BY <1>4, <2>1, KernelBecomesSettled DEF SysUnblock
<1>5. ASSUME NEW p \in Slots, NEW prio \in Prios, SysBeNice(p, prio)
      PROVE  SchedInv'
  BY <1>0, <1>5, BeNiceFacts, KernelBecomesSettled DEF SysBeNice
<1>6. CASE UNCHANGED schedVars
  <2>1. KernelBecomes(Kernel)
    BY <1>6 DEF schedVars, Kernel, KernelBecomes
  <2> QED BY <1>0, <2>1, KernelBecomesSettled
<1> QED BY <1>1, <1>2, <1>3, <1>4, <1>5, <1>6 DEF SchedNext

LEMMA SchedInvHolds == SchedSpec => []SchedInv
BY SchedInitInv, SchedNextInv, PTL DEF SchedSpec

\* Every variable keeps its type, whatever the table's size and quanta are:
\* scheduling() never leaves current_index outside the table and be_nice()
\* never leaves a process without a quantum.
THEOREM SchedTypeCorrect == SchedSpec => []SchedTypeOK
<1>1. SchedInv => SchedTypeOK
  BY DEF SchedInv, Settled, Kernel, KernelType, SchedTypeOK
<1> QED BY <1>1, SchedInvHolds, PTL

\* After every system call and every tick the process that get_pid() finds is
\* the one scheduling() gave the CPU to, and it is the only RUNNING one.
THEOREM OneProcessRuns == SchedSpec => []GetPidIsCurrent
<1>1. SchedInv => GetPidIsCurrent
  BY DEF SchedInv, Settled, Kernel, GetPidIsCurrent
<1> QED BY <1>1, SchedInvHolds, PTL

\* block_process() and unblock_process() nest: a process other than idle is
\* BLOCKED exactly while it has blocks pending.
THEOREM BlocksNest == SchedSpec => []BlockedIffCounted
<1>1. SchedInv => BlockedIffCounted
  BY DEF SchedInv, Settled, Counted, Kernel, BlockedIffCounted
<1> QED BY <1>1, SchedInvHolds, PTL

\* A BLOCKED idle process is dispatched only when no process is READY: no
\* system call and no tick wastes the CPU while somebody could use it.
THEOREM IdleRunsLast == SchedSpec => IdleIsLastResort
<1> DEFINE A == (state[IDLE_PID] = "BLOCKED" /\ state'[IDLE_PID] = "RUNNING")
                  => \A p \in Slots : state'[p] # "READY"
<1>1. SchedInv /\ [SchedNext]_schedVars => [A]_schedVars
  <2> SUFFICES ASSUME SchedInv, SchedNext,
                      state[IDLE_PID] = "BLOCKED", state'[IDLE_PID] = "RUNNING"
               PROVE  \A p \in Slots : state'[p] # "READY"
    OBVIOUS
  <2>0. Settled(Kernel) /\ Coherent(Kernel) /\ Kernel.state = state
    BY SettledCoherent DEF SchedInv, Kernel
  <2>1. CASE TimerTick
    <3>1. state' = Scheduling(Kernel).state
      BY <2>1 DEF TimerTick, KernelBecomes
    <3> QED BY <2>0, <3>1, SchedulingIdle
  <2>2. CASE SysYield
    <3>1. state' = Yield(Kernel).state
      BY <2>2 DEF SysYield, KernelBecomes
    <3> QED BY <2>0, <3>1, YieldIdle
  <2>3. ASSUME NEW p \in Slots, SysBlock(p)
        PROVE  \A q \in Slots : state'[q] # "READY"
    <3>1. state' = BlockProcess(Kernel, p).state
      BY <2>3 DEF SysBlock, KernelBecomes
    <3>2. PICK m : /\ Coherent(m)
                   /\ BlockProcess(Kernel, p) = Yield(m)
                   /\ m.state[p] = "BLOCKED"
                   /\ \A q \in Slots \ {p} : m.state[q] = state[q]
      BY <2>0, <3>1, BlockProcessCases
    <3>3. m.state[IDLE_PID] = "BLOCKED"
      BY <3>2, SlotsAssumption
    <3> QED BY <3>1, <3>2, <3>3, YieldIdle
  <2>4. ASSUME NEW p \in Slots, SysUnblock(p)
        PROVE  FALSE
    <3>1. state' = UnblockProcess(Kernel, p).state
      BY <2>4 DEF SysUnblock, KernelBecomes
    <3>2. RunningSlots(UnblockProcess(Kernel, p)) = RunningSlots(Kernel)
      BY <2>0, UnblockProcessFacts DEF Settled
    <3> QED BY <2>0, <3>1, <3>2, SlotsAssumption DEF RunningSlots
  <2>5. ASSUME NEW p \in Slots, NEW prio \in Prios, SysBeNice(p, prio)
        PROVE  FALSE
    <3>1. state' = BeNice(Kernel, p, prio).state
      BY <2>5 DEF SysBeNice, KernelBecomes
    <3>2. BeNice(Kernel, p, prio).state = state
      BY <2>0 DEF BeNice, Settled, KernelType
    <3> QED BY <3>1, <3>2
  <2> QED BY <2>1, <2>2, <2>3, <2>4, <2>5 DEF SchedNext
<1> QED BY <1>1, SchedInvHolds, PTL DEF SchedSpec, IdleIsLastResort

=============================================================================
