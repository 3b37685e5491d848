--------------------------- MODULE SemaphoreProofs ---------------------------
(***************************************************************************)
(* What the semaphores of Kernel/sem.c keep true under any disciplined use *)
(* by any number of processes, for every table size, number of semaphores  *)
(* and value.  The invariant says who may be in a queue: a process that    *)
(* has the semaphore open.  That is why the last close, whose caller runs, *)
(* finds nobody asleep, although sem_close() does not look at the queue.   *)
(***************************************************************************)
EXTENDS SemClients, SchedulerProofs, SequenceTheorems, FiniteSetTheorems

\* The clients are alive, and only their own sem_wait() blocks them.
ClientsLive(k) ==
  \A p \in Procs : /\ k.state[p] \in {"READY", "RUNNING", "BLOCKED"}
                   /\ k.state[p] = "BLOCKED" => k.blocks_amount[p] = 1

Places(n) == 1 .. Len(sems[n].blocked)

\* In a queue of an open semaphore there are processes that have it open.
QueuesHoldUsers ==
  \A n \in SemNames : sems[n].initialized =>
    /\ Len(sems[n].blocked) <= PROCESSES_BLOCKED
    /\ \A i \in Places(n) : /\ sems[n].blocked[i] \in Procs
                            /\ opened[sems[n].blocked[i]][n]

\* A process sleeps exactly while it is in some queue.
SleepersAreQueued ==
  \A p \in Procs : state[p] = "BLOCKED" <=>
    \E n \in SemNames : /\ sems[n].initialized
                        /\ \E i \in Places(n) : sems[n].blocked[i] = p

\* Nobody is in two places of the queues.
QueuedOnce ==
  \A n, m \in SemNames : sems[n].initialized /\ sems[m].initialized =>
    \A i \in Places(n), j \in Places(m) :
      sems[n].blocked[i] = sems[m].blocked[j] => n = m /\ i = j

ClientTypeOK == /\ sems \in [SemNames -> SemType]
                /\ opened \in [Procs -> [SemNames -> BOOLEAN]]

ClientInv == /\ SchedInv
             /\ ClientsLive(Kernel)
             /\ ClientTypeOK
             /\ QueuesHoldUsers
             /\ SleepersAreQueued
             /\ QueuedOnce
             /\ ValueCountsQueue
             /\ OpeningsAgree

-----------------------------------------------------------------------------
\* The client on the CPU is the one sem_wait() queues and sem_open() counts.
LEMMA CallerFacts ==
  ASSUME SchedInv, Caller \in Procs
  PROVE  /\ Caller \in Slots \ {IDLE_PID}
         /\ GetPid(Kernel) = Caller
         /\ state[Caller] = "RUNNING"
BY RunnerFacts, ClientAssumption

\* What the invariant says of the processes survives every kernel operation
\* that blocks and wakes up none of them.
LEMMA SleepersKept ==
  ASSUME SchedInv, ClientsLive(Kernel),
         NEW r, Settled(r), KernelBecomes(r), SameSleepers(Kernel, r)
  PROVE  /\ SchedInv'
         /\ ClientsLive(Kernel)'
         /\ \A p \in Procs : state'[p] = "BLOCKED" <=> state[p] = "BLOCKED"
<1>1. SchedInv'
  BY KernelBecomesSettled
<1>2. state' = r.state /\ blocks_amount' = r.blocks_amount
  BY DEF KernelBecomes
<1>3. \A p \in Procs : p \in Slots \ {IDLE_PID}
  BY ClientAssumption
<1>4. \A p \in Procs :
        /\ state'[p] = "BLOCKED" <=> state[p] = "BLOCKED"
        /\ blocks_amount'[p] = blocks_amount[p]
        /\ state[p] \in {"READY", "RUNNING"} => state'[p] \in {"READY", "RUNNING"}
  BY <1>2, <1>3 DEF SameSleepers, Untouched, Kernel
<1>5. ClientsLive(Kernel)'
  <2>1. \A p \in Procs : /\ state'[p] \in {"READY", "RUNNING", "BLOCKED"}
                         /\ state'[p] = "BLOCKED" => blocks_amount'[p] = 1
    BY <1>4 DEF ClientsLive, Kernel
  <2> QED BY <2>1 DEF ClientsLive, Kernel
<1> QED BY <1>1, <1>4, <1>5

LEMMA KernelKept ==
  ASSUME SchedInv, UNCHANGED schedVars
  PROVE  /\ Settled(Kernel) /\ KernelBecomes(Kernel)
         /\ SameSleepers(Kernel, Kernel)
BY DEF SchedInv, schedVars, KernelBecomes, Kernel, SameSleepers, Untouched

LEMMA NothingCalled ==
  ASSUME ClientInv, UNCHANGED <<sems, opened>>,
         NEW r, Settled(r), KernelBecomes(r), SameSleepers(Kernel, r)
  PROVE  ClientInv'
<1>1. /\ SchedInv' /\ ClientsLive(Kernel)'
      /\ \A p \in Procs : state'[p] = "BLOCKED" <=> state[p] = "BLOCKED"
  BY SleepersKept DEF ClientInv
<1>2. SleepersAreQueued'
  BY <1>1 DEF ClientInv, SleepersAreQueued, Places
<1>3. ClientTypeOK' /\ QueuesHoldUsers'
  BY DEF ClientInv, ClientTypeOK, QueuesHoldUsers, Places
<1>4. QueuedOnce'
  BY DEF ClientInv, QueuedOnce, Places
<1>5. ValueCountsQueue' /\ OpeningsAgree'
  BY DEF ClientInv, ValueCountsQueue, OpeningsAgree, Users
<1> QED BY <1>1, <1>2, <1>3, <1>4, <1>5 DEF ClientInv

LEMMA ClientInitInv == ClientInit => ClientInv
<1> SUFFICES ASSUME ClientInit
             PROVE  ClientInv
  OBVIOUS
<1>1. SchedInv
  BY SchedInitInv DEF ClientInit
<1>2. /\ state = [p \in Slots |-> CASE p = IDLE_PID -> "BLOCKED"
                                    [] p = FirstProc -> "RUNNING"
                                    [] p \in Procs \ {FirstProc} -> "READY"
                                    [] OTHER         -> "INVALID"]
      /\ \A n \in SemNames : sems[n] = NoSem
      /\ sems = [n \in SemNames |-> NoSem]
      /\ opened = [p \in Procs |-> [n \in SemNames |-> FALSE]]
  BY DEF ClientInit, SchedInit, SemInit
<1>3. \A p \in Procs : state[p] \in {"READY", "RUNNING"}
  BY <1>2, ClientAssumption
<1>4. ClientsLive(Kernel)
  BY <1>3 DEF ClientsLive, Kernel
<1>5. NoSem \in SemType /\ NoSem.initialized = FALSE
  BY EmptySeq DEF NoSem, SemType
<1>6. ClientTypeOK
  BY <1>2, <1>5 DEF ClientTypeOK
<1>7. SleepersAreQueued
  BY <1>2, <1>3, <1>5 DEF SleepersAreQueued
<1>8. /\ QueuesHoldUsers /\ QueuedOnce /\ ValueCountsQueue
  BY <1>2, <1>5 DEF QueuesHoldUsers, QueuedOnce, ValueCountsQueue
<1>9. OpeningsAgree
  BY <1>2, <1>5 DEF OpeningsAgree, Users
<1> QED BY <1>1, <1>4, <1>6, <1>7, <1>8, <1>9 DEF ClientInv

-----------------------------------------------------------------------------
(* The openings.                                                           *)

LEMMA ProcsFinite == IsFiniteSet(Procs)
<1>1. IsFiniteSet(Slots)
  BY FS_Interval, SlotsAssumption DEF Slots
<1> QED BY <1>1, FS_Subset, ClientAssumption

LEMMA UsersFinite ==
  ASSUME NEW n
  PROVE  /\ IsFiniteSet(Users(n)) /\ Cardinality(Users(n)) \in Nat
         /\ Cardinality(Users(n)) = 0 <=> Users(n) = {}
<1>1. IsFiniteSet(Users(n))
  BY ProcsFinite, FS_Subset DEF Users
<1>2. Cardinality(Users(n)) = 0 <=> Users(n) = {}
  BY <1>1, FS_EmptySet
<1> QED BY <1>1, <1>2, FS_CardinalityType

LEMMA OpenUsers ==
  ASSUME ClientTypeOK, NEW n \in SemNames, NEW c \in Procs, ~opened[c][n],
         opened' = [opened EXCEPT ![c][n] = TRUE]
  PROVE  /\ opened' \in [Procs -> [SemNames -> BOOLEAN]]
         /\ \A p \in Procs, m \in SemNames : opened[p][m] => opened'[p][m]
         /\ Users(n)' # {}
         /\ Cardinality(Users(n)') = Cardinality(Users(n)) + 1
         /\ \A m \in SemNames \ {n} : Users(m)' = Users(m)
<1>1. /\ opened' \in [Procs -> [SemNames -> BOOLEAN]]
      /\ \A p \in Procs, m \in SemNames :
           opened'[p][m] = IF p = c /\ m = n THEN TRUE ELSE opened[p][m]
  BY DEF ClientTypeOK
<1>2. Users(n)' = Users(n) \cup {c} /\ c \notin Users(n)
  BY <1>1 DEF Users
<1>3. \A m \in SemNames \ {n} : Users(m)' = Users(m)
  BY <1>1 DEF Users
<1>4. Cardinality(Users(n) \cup {c}) = Cardinality(Users(n)) + 1
  BY <1>2, UsersFinite, FS_AddElement
<1> QED BY <1>1, <1>2, <1>3, <1>4

LEMMA CloseUsers ==
  ASSUME ClientTypeOK, NEW n \in SemNames, NEW c \in Procs, opened[c][n],
         opened' = [opened EXCEPT ![c][n] = FALSE]
  PROVE  /\ opened' \in [Procs -> [SemNames -> BOOLEAN]]
         /\ \A p \in Procs, m \in SemNames :
              opened[p][m] /\ ~(p = c /\ m = n) => opened'[p][m]
         /\ Cardinality(Users(n)') = Cardinality(Users(n)) - 1
         /\ Cardinality(Users(n)) # 0
         /\ \A m \in SemNames \ {n} : Users(m)' = Users(m)
<1>1. /\ opened' \in [Procs -> [SemNames -> BOOLEAN]]
      /\ \A p \in Procs, m \in SemNames :
           opened'[p][m] = IF p = c /\ m = n THEN FALSE ELSE opened[p][m]
  BY DEF ClientTypeOK
<1>2. Users(n)' = Users(n) \ {c} /\ c \in Users(n)
  BY <1>1 DEF Users
<1>3. \A m \in SemNames \ {n} : Users(m)' = Users(m)
  BY <1>1 DEF Users
<1>4. Cardinality(Users(n) \ {c}) = Cardinality(Users(n)) - 1
  BY <1>2, UsersFinite, FS_RemoveElement
<1>5. Cardinality(Users(n)) # 0
  BY <1>2, UsersFinite, FS_EmptySet
<1> QED BY <1>1, <1>2, <1>3, <1>4, <1>5

LEMMA RecordFacts ==
  ASSUME NEW r \in SemType, NEW o \in Int
  PROVE  LET x == [r EXCEPT !.openings = o]
         IN  /\ x \in SemType
             /\ x.initialized = r.initialized /\ x.value = r.value
             /\ x.openings = o /\ x.blocked = r.blocked
BY DEF SemType

\* OpeningsAgree, by Users.
LEMMA OpeningsOfUsers ==
  OpeningsAgree <=> \A n \in SemNames :
    /\ sems[n].initialized <=> Users(n) # {}
    /\ sems[n].initialized => sems[n].openings = Cardinality(Users(n))
BY DEF OpeningsAgree

LEMMA OpenInv ==
  ASSUME ClientInv, NEW n \in SemNames, NEW v \in Values, Open(n, v)
  PROVE  ClientInv'
<1> DEFINE c == Caller
<1>1. /\ c \in Procs /\ ~opened[c][n]
      /\ sems' = SemOpen(sems, n, v)
      /\ UNCHANGED schedVars
      /\ opened' = [opened EXCEPT ![c][n] = SemOpenResult(sems, n) # -2]
  BY DEF Open, SysSemOpen
<1>2. /\ Settled(Kernel) /\ KernelBecomes(Kernel)
      /\ SameSleepers(Kernel, Kernel)
  BY <1>1, KernelKept DEF ClientInv
<1>3. CASE SemOpenResult(sems, n) = -2
  <2>1. sems' = sems
    BY <1>1, <1>3 DEF SemOpen
  <2>2. opened' = opened
    BY <1>1, <1>3 DEF ClientInv, ClientTypeOK
  <2> QED BY <1>2, <2>1, <2>2, NothingCalled
<1>4. CASE SemOpenResult(sems, n) # -2
  <2>1. opened' = [opened EXCEPT ![c][n] = TRUE]
    BY <1>1, <1>4
  <2> HIDE DEF c
  <2>2. /\ opened' \in [Procs -> [SemNames -> BOOLEAN]]
        /\ \A p \in Procs, m \in SemNames : opened[p][m] => opened'[p][m]
        /\ Users(n)' # {}
        /\ Cardinality(Users(n)') = Cardinality(Users(n)) + 1
        /\ \A m \in SemNames \ {n} : Users(m)' = Users(m)
    BY <1>1, <2>1, OpenUsers DEF ClientInv
  <2>3. v \in Int /\ <<>> \in Seq(Slots) /\ Len(<<>>) = 0
    BY ValuesAssumption, EmptySeq
  <2>4. /\ sems' \in [SemNames -> SemType]
        /\ sems'[n].initialized
        /\ \A m \in SemNames \ {n} : sems'[m] = sems[m]
        /\ \/ /\ ~sems[n].initialized
              /\ sems'[n].value = v /\ sems'[n].openings = 1
              /\ sems'[n].blocked = <<>>
           \/ /\ sems[n].initialized
              /\ sems'[n].value = sems[n].value
              /\ sems'[n].openings = sems[n].openings + 1
              /\ sems'[n].blocked = sems[n].blocked
    <3>1. sems \in [SemNames -> SemType] /\ sems[n] \in SemType
      BY DEF ClientInv, ClientTypeOK
    <3>2. CASE SemOpenResult(sems, n) = 0
      <4>1. sems' = [sems EXCEPT ![n] = [initialized |-> TRUE, value |-> v,
                                         openings |-> 1, blocked |-> <<>>]]
        BY <1>1, <3>2 DEF SemOpen
      <4>2. ~sems[n].initialized
        BY <3>2 DEF SemOpenResult
      <4> QED BY <2>3, <3>1, <4>1, <4>2 DEF SemType
    <3>3. CASE SemOpenResult(sems, n) = -1
      <4>1. sems' = [sems EXCEPT ![n].openings = sems[n].openings + 1]
        BY <1>1, <3>3 DEF SemOpen
      <4>2. sems[n].initialized
        BY <3>3 DEF SemOpenResult
      <4> DEFINE x == [sems[n] EXCEPT !.openings = sems[n].openings + 1]
      <4>3. /\ x \in SemType
            /\ x.initialized = sems[n].initialized /\ x.value = sems[n].value
            /\ x.openings = sems[n].openings + 1 /\ x.blocked = sems[n].blocked
        BY <3>1, RecordFacts DEF SemType
      <4>4. sems' = [sems EXCEPT ![n] = x]
        BY <3>1, <4>1
      <4> HIDE DEF x
      <4> QED BY <3>1, <4>2, <4>3, <4>4
    <3> QED BY <1>4, <3>2, <3>3 DEF SemOpenResult
  <2>5. /\ SchedInv' /\ ClientsLive(Kernel)'
        /\ \A p \in Procs : state'[p] = "BLOCKED" <=> state[p] = "BLOCKED"
    BY <1>2, SleepersKept DEF ClientInv
  <2>6. ClientTypeOK'
    BY <2>2, <2>4 DEF ClientTypeOK
  \* A queue that is new is empty, and the others are what they were.
  <2>7. \A m \in SemNames : sems'[m].initialized =>
          \/ Places(m)' = {} /\ Len(sems'[m].blocked) = 0 /\ m = n
          \/ sems[m].initialized /\ sems'[m].blocked = sems[m].blocked
    BY <2>3, <2>4 DEF Places
  <2>8. \A m \in SemNames : sems[m].initialized =>
          sems'[m].initialized /\ sems'[m].blocked = sems[m].blocked
    BY <2>4
  <2>9. QueuesHoldUsers'
    <3> SUFFICES ASSUME NEW m \in SemNames, sems'[m].initialized
                 PROVE  /\ Len(sems'[m].blocked) <= PROCESSES_BLOCKED
                        /\ \A i \in Places(m)' : /\ sems'[m].blocked[i] \in Procs
                                                 /\ opened'[sems'[m].blocked[i]][m]
      BY DEF QueuesHoldUsers, Places
    <3>1. CASE Places(m)' = {} /\ Len(sems'[m].blocked) = 0
      BY <3>1, SemAssumption
    <3>2. CASE sems[m].initialized /\ sems'[m].blocked = sems[m].blocked
      BY <2>2, <3>2 DEF ClientInv, QueuesHoldUsers, Places
    <3> QED BY <2>7, <3>1, <3>2
  <2>10. SleepersAreQueued'
    <3>1. \A p \in Procs, m \in SemNames :
            (sems'[m].initialized /\ \E i \in Places(m)' : sems'[m].blocked[i] = p)
            <=> (sems[m].initialized /\ \E i \in Places(m) : sems[m].blocked[i] = p)
      BY <2>7, <2>8 DEF Places
    <3>2. \A p \in Procs : state'[p] = "BLOCKED" <=>
            \E m \in SemNames : sems'[m].initialized
                                /\ \E i \in Places(m)' : sems'[m].blocked[i] = p
      BY <2>5, <3>1 DEF ClientInv, SleepersAreQueued
    <3> QED BY <3>2 DEF SleepersAreQueued, Places
  <2>11. QueuedOnce'
    BY <2>7 DEF ClientInv, QueuedOnce, Places
  <2>12. ValueCountsQueue'
    <3> SUFFICES ASSUME NEW m \in SemNames, sems'[m].initialized
                 PROVE  Len(sems'[m].blocked)
                          = IF sems'[m].value < 0 THEN -sems'[m].value ELSE 0
      BY DEF ValueCountsQueue
    <3>1. v \in Nat
      BY ValuesAssumption
    <3> QED BY <2>3, <2>4, <3>1 DEF ClientInv, ValueCountsQueue
  <2>13. OpeningsAgree'
    <3>1. \A m \in SemNames :
            /\ sems[m].initialized <=> Users(m) # {}
            /\ sems[m].initialized => sems[m].openings = Cardinality(Users(m))
      BY OpeningsOfUsers DEF ClientInv
    <3>2. ~sems[n].initialized => Cardinality(Users(n)) = 0
      BY <3>1, UsersFinite
    <3>3. /\ sems'[n].initialized <=> Users(n)' # {}
          /\ sems'[n].openings = Cardinality(Users(n)')
      BY <2>2, <2>4, <3>1, <3>2
    <3>4. \A m \in SemNames \ {n} :
            /\ sems'[m].initialized <=> Users(m)' # {}
            /\ sems'[m].initialized => sems'[m].openings = Cardinality(Users(m)')
      BY <2>2, <2>4, <3>1
    <3> QED BY <3>3, <3>4 DEF OpeningsAgree, Users
  <2> QED BY <2>5, <2>6, <2>9, <2>10, <2>11, <2>12, <2>13 DEF ClientInv
<1> QED BY <1>3, <1>4

-----------------------------------------------------------------------------
(* The queues.                                                             *)

\* A semaphore that somebody has open is there.
LEMMA OpenedIsThere ==
  ASSUME ClientInv, NEW n \in SemNames, NEW c \in Procs, opened[c][n]
  PROVE  /\ sems[n].initialized /\ sems[n] \in SemType
         /\ sems[n].value \in Int /\ sems[n].openings \in Int
         /\ sems[n].blocked \in Seq(Slots)
         /\ Len(sems[n].blocked) \in Nat
<1>1. c \in Users(n)
  BY DEF Users
<1>2. sems[n].initialized
  BY <1>1, OpeningsOfUsers DEF ClientInv
<1>3. sems[n] \in SemType
  BY DEF ClientInv, ClientTypeOK
<1>4. /\ sems[n].value \in Int /\ sems[n].openings \in Int
      /\ sems[n].blocked \in Seq(Slots)
  BY <1>3 DEF SemType
<1> QED BY <1>2, <1>3, <1>4, LenProperties

\* Neither sem_wait() nor sem_post() touches the openings.
LEMMA OpeningsKept ==
  ASSUME OpeningsAgree, UNCHANGED opened,
         \A n \in SemNames : /\ sems'[n].initialized = sems[n].initialized
                             /\ sems'[n].openings = sems[n].openings
  PROVE  OpeningsAgree'
BY DEF OpeningsAgree, Users

\* A call that only counts tokens leaves the queues and who sleeps in them.
LEMMA TokensInv ==
  ASSUME ClientInv, UNCHANGED opened, KernelBecomes(Kernel),
         sems' \in [SemNames -> SemType],
         \A m \in SemNames : /\ sems'[m].initialized = sems[m].initialized
                             /\ sems'[m].openings = sems[m].openings
                             /\ sems'[m].blocked = sems[m].blocked,
         ValueCountsQueue'
  PROVE  ClientInv'
<1>1. Settled(Kernel) /\ SameSleepers(Kernel, Kernel)
  BY DEF ClientInv, SchedInv, SameSleepers, Untouched
<1>2. /\ SchedInv' /\ ClientsLive(Kernel)'
      /\ \A p \in Procs : state'[p] = "BLOCKED" <=> state[p] = "BLOCKED"
  BY <1>1, SleepersKept DEF ClientInv
<1>3. ClientTypeOK' /\ QueuesHoldUsers'
  BY DEF ClientInv, ClientTypeOK, QueuesHoldUsers, Places
<1>4. SleepersAreQueued'
  BY <1>2 DEF ClientInv, SleepersAreQueued, Places
<1>5. QueuedOnce'
  BY DEF ClientInv, QueuedOnce, Places
<1>6. OpeningsAgree'
  BY OpeningsKept DEF ClientInv
<1> QED BY <1>2, <1>3, <1>4, <1>5, <1>6 DEF ClientInv

\* A call on semaphore n that gives it a new value and a new queue, and what it
\* leaves of the table.
Requeues(n, v, q) == sems' = [sems EXCEPT ![n].value = v, ![n].blocked = q]

LEMMA RequeuesFacts ==
  ASSUME ClientTypeOK, NEW n \in SemNames,
         NEW v \in Int, NEW q \in Seq(Slots), Requeues(n, v, q)
  PROVE  /\ sems' \in [SemNames -> SemType]
         /\ \A m \in SemNames : /\ sems'[m].initialized = sems[m].initialized
                                /\ sems'[m].openings = sems[m].openings
         /\ sems'[n].value = v /\ sems'[n].blocked = q
         /\ \A m \in SemNames \ {n} : sems'[m] = sems[m]
<1> DEFINE x == [sems[n] EXCEPT !.value = v, !.blocked = q]
<1>0. sems \in [SemNames -> SemType]
  BY DEF ClientTypeOK
<1>1. /\ x \in SemType
      /\ x.initialized = sems[n].initialized /\ x.value = v
      /\ x.openings = sems[n].openings /\ x.blocked = q
  <2>1. PICK w \in SemType : w = sems[n]
    BY <1>0
  <2>2. x = [w EXCEPT !.value = v, !.blocked = q]
    BY <2>1
  <2> HIDE DEF x
  <2> QED BY <2>1, <2>2 DEF SemType
<1>2. sems' = [sems EXCEPT ![n] = x]
  BY <1>0 DEF Requeues
<1> HIDE DEF x
<1> QED BY <1>0, <1>1, <1>2

\* sem_wait() of a semaphore that has a token left.
LEMMA WaitTakesInv ==
  ASSUME ClientInv, NEW n \in SemNames, Caller \in Procs, opened[Caller][n],
         SysSemWait(n), UNCHANGED opened, ~MustSleep(sems, n)
  PROVE  ClientInv'
<1> DEFINE b == sems[n].blocked
           v == sems[n].value - 1
<1>1. /\ sems[n].initialized
      /\ sems[n].value \in Int /\ v \in Int /\ b \in Seq(Slots)
      /\ sems \in [SemNames -> SemType]
  BY OpenedIsThere DEF ClientInv, ClientTypeOK
<1>2. Requeues(n, v, b)
  BY <1>1 DEF SysSemWait, SemWaitTable, Requeues
<1>3. KernelBecomes(Kernel)
  BY DEF SysSemWait, SemWaitKernel
<1>4. v >= 0
  BY <1>1 DEF MustSleep
<1> HIDE DEF b, v
<1>5. /\ sems' \in [SemNames -> SemType]
      /\ \A m \in SemNames : /\ sems'[m].initialized = sems[m].initialized
                             /\ sems'[m].openings = sems[m].openings
      /\ sems'[n].value = v /\ sems'[n].blocked = b
      /\ \A m \in SemNames \ {n} : sems'[m] = sems[m]
  BY <1>1, <1>2, RequeuesFacts DEF ClientInv
<1>6. ValueCountsQueue'
  <2>1. Len(b) = 0
    BY <1>1, <1>4 DEF ClientInv, ValueCountsQueue, b, v
  <2> QED BY <1>1, <1>4, <1>5, <2>1 DEF ClientInv, ValueCountsQueue
<1>7. \A m \in SemNames : sems'[m].blocked = sems[m].blocked
  BY <1>5 DEF b
<1> QED BY <1>3, <1>5, <1>6, <1>7, TokensInv

\* sem_wait() of a semaphore without tokens: the caller, which runs and is in
\* no queue, is the last of one and the only new sleeper.
LEMMA WaitSleepsInv ==
  ASSUME ClientInv, NEW n \in SemNames, Caller \in Procs, opened[Caller][n],
         SysSemWait(n), UNCHANGED opened, MustSleep(sems, n)
  PROVE  ClientInv'
<1> DEFINE c == Caller
           b == sems[n].blocked
           q == Append(b, c)
           r == BlockProcess(Kernel, c)
<1>1. /\ sems[n].initialized /\ sems[n] \in SemType
      /\ sems[n].value \in Int /\ b \in Seq(Slots) /\ Len(b) \in Nat
  BY OpenedIsThere
<1>2. /\ c \in Slots \ {IDLE_PID} /\ GetPid(Kernel) = c
      /\ state[c] = "RUNNING" /\ Settled(Kernel)
  BY CallerFacts DEF ClientInv, SchedInv
<1>3. sems \in [SemNames -> SemType]
  BY DEF ClientInv, ClientTypeOK
<1>4. /\ q \in Seq(Slots) /\ Len(q) = Len(b) + 1
      /\ Len(q) \in 1 .. Len(q) /\ q[Len(q)] = c
      /\ \A i \in 1 .. Len(b) : i \in 1 .. Len(q) /\ q[i] = b[i]
      /\ \A i \in 1 .. Len(q) : i = Len(q) \/ i \in 1 .. Len(b)
  <2>1. /\ q \in Seq(Slots) /\ Len(q) = Len(b) + 1
        /\ \A i \in 1 .. Len(b) : q[i] = b[i]
        /\ q[Len(b) + 1] = c
    BY <1>1, <1>2, AppendProperties
  <2> HIDE DEF q, b, c
  <2> QED BY <1>1, <2>1
<1>5. sems[n].value - 1 \in Int
  BY <1>1
<1>6. Requeues(n, sems[n].value - 1, q)
  BY <1>1, <1>2 DEF SysSemWait, SemWaitTable, Requeues
<1>7. KernelBecomes(r)
  BY <1>2 DEF SysSemWait, SemWaitKernel
<1>8. /\ Settled(r)
      /\ r.state[c] = "BLOCKED" /\ r.blocks_amount[c] = 1
      /\ \A p \in Slots \ {c, IDLE_PID} :
           /\ r.state[p] = "BLOCKED" <=> state[p] = "BLOCKED"
           /\ r.blocks_amount[p] = blocks_amount[p]
           /\ state[p] \in {"READY", "RUNNING"} => r.state[p] \in {"READY", "RUNNING"}
  <2>1. c = Kernel.current_index /\ c # IDLE_PID
    BY <1>2 DEF Caller, Kernel
  <2>2. Kernel.state = state /\ Kernel.blocks_amount = blocks_amount
    BY DEF Kernel
  <2> QED BY <1>2, <2>1, <2>2, BlockSelf DEF Untouched
<1> HIDE DEF r, q, c
<1>9. /\ SchedInv'
      /\ state' = r.state /\ blocks_amount' = r.blocks_amount
  BY <1>7, <1>8, KernelBecomesSettled DEF KernelBecomes
<1>10. c \in Procs /\ opened'[c][n] /\ \A p \in Procs : p \in Slots \ {IDLE_PID}
  BY ClientAssumption DEF c
<1>11. ClientsLive(Kernel)'
  <2>1. \A p \in Procs : /\ state'[p] \in {"READY", "RUNNING", "BLOCKED"}
                         /\ state'[p] = "BLOCKED" => blocks_amount'[p] = 1
    BY <1>8, <1>9, <1>10 DEF ClientInv, ClientsLive, Kernel
  <2> QED BY <2>1 DEF ClientsLive, Kernel
<1>12. /\ sems' \in [SemNames -> SemType]
       /\ \A m \in SemNames : /\ sems'[m].initialized = sems[m].initialized
                              /\ sems'[m].openings = sems[m].openings
       /\ sems'[n].value = sems[n].value - 1 /\ sems'[n].blocked = q
       /\ \A m \in SemNames \ {n} : sems'[m] = sems[m]
  BY <1>3, <1>4, <1>5, <1>6, RequeuesFacts DEF ClientInv
<1>13. ClientTypeOK'
  BY <1>12 DEF ClientInv, ClientTypeOK
<1>14. QueuesHoldUsers'
  <2> SUFFICES ASSUME NEW m \in SemNames, sems'[m].initialized
               PROVE  /\ Len(sems'[m].blocked) <= PROCESSES_BLOCKED
                      /\ \A i \in Places(m)' : /\ sems'[m].blocked[i] \in Procs
                                               /\ opened'[sems'[m].blocked[i]][m]
    BY DEF QueuesHoldUsers, Places
  <2>1. CASE m # n
    BY <1>12, <2>1 DEF ClientInv, QueuesHoldUsers, Places
  <2>2. CASE m = n
    <3>1. Len(q) <= PROCESSES_BLOCKED
      BY <1>1, <1>4, SemAssumption DEF SysSemWait
    <3>2. ASSUME NEW i \in 1 .. Len(q)
          PROVE  q[i] \in Procs /\ opened'[q[i]][n]
      <4>1. CASE i = Len(q)
        BY <1>4, <1>10, <4>1
      <4>2. CASE i \in 1 .. Len(b)
        BY <1>1, <1>4, <4>2 DEF ClientInv, QueuesHoldUsers, Places
      <4> QED BY <1>1, <1>4, <4>1, <4>2
    <3> QED BY <1>12, <2>2, <3>1, <3>2 DEF Places
  <2> QED BY <2>1, <2>2
\* The caller was in no queue.
<1>15. \A m \in SemNames : sems[m].initialized =>
         \A i \in Places(m) : sems[m].blocked[i] # c
  BY <1>2, <1>10 DEF ClientInv, SleepersAreQueued
<1>16. SleepersAreQueued'
  <2> SUFFICES ASSUME NEW p \in Procs
               PROVE  state'[p] = "BLOCKED" <=>
                        \E m \in SemNames : /\ sems'[m].initialized
                                            /\ \E i \in Places(m)' : sems'[m].blocked[i] = p
    BY DEF SleepersAreQueued, Places
  <2>1. CASE p = c
    <3>1. Len(q) \in Places(n)' /\ sems'[n].blocked[Len(q)] = c
      BY <1>1, <1>4, <1>12 DEF Places
    <3> QED BY <1>1, <1>8, <1>9, <1>12, <2>1, <3>1
  <2>2. CASE p # c
    <3>1. (\E i \in Places(n)' : sems'[n].blocked[i] = p)
            <=> (\E i \in Places(n) : sems[n].blocked[i] = p)
      BY <1>1, <1>4, <1>12, <2>2 DEF Places
    <3>2. \A m \in SemNames \ {n} :
            (\E i \in Places(m)' : sems'[m].blocked[i] = p)
              <=> (\E i \in Places(m) : sems[m].blocked[i] = p)
      BY <1>12 DEF Places
    <3>3. state'[p] = "BLOCKED" <=> state[p] = "BLOCKED"
      BY <1>8, <1>9, <1>10, <2>2
    <3>4. state[p] = "BLOCKED" <=>
            \E m \in SemNames : /\ sems[m].initialized
                                /\ \E i \in Places(m) : sems[m].blocked[i] = p
      BY DEF ClientInv, SleepersAreQueued
    <3> QED BY <1>12, <3>1, <3>2, <3>3, <3>4
  <2> QED BY <2>1, <2>2
<1>17. QueuedOnce'
  <2> SUFFICES ASSUME NEW m \in SemNames, NEW o \in SemNames,
                      sems'[m].initialized, sems'[o].initialized,
                      NEW i \in Places(m)', NEW j \in Places(o)',
                      sems'[m].blocked[i] = sems'[o].blocked[j]
               PROVE  m = o /\ i = j
    BY DEF QueuedOnce, Places
  <2>1. ASSUME NEW l \in SemNames, NEW a \in Places(l)', sems'[l].initialized
        PROVE  \/ l = n /\ a = Len(q) /\ sems'[l].blocked[a] = c
               \/ /\ a \in Places(l) /\ sems'[l].blocked[a] = sems[l].blocked[a]
                  /\ sems'[l].blocked[a] # c
    <3>1. CASE l = n
      BY <1>1, <1>4, <1>12, <1>15, <2>1, <3>1 DEF Places
    <3>2. CASE l # n
      BY <1>12, <1>15, <2>1, <3>2 DEF Places
    <3> QED BY <3>1, <3>2
  <2>2. sems[m].initialized /\ sems[o].initialized
    BY <1>12
  <2>3. \/ m = n /\ i = Len(q) /\ sems'[m].blocked[i] = c
        \/ /\ i \in Places(m) /\ sems'[m].blocked[i] = sems[m].blocked[i]
           /\ sems'[m].blocked[i] # c
    BY <2>1
  <2>4. \/ o = n /\ j = Len(q) /\ sems'[o].blocked[j] = c
        \/ /\ j \in Places(o) /\ sems'[o].blocked[j] = sems[o].blocked[j]
           /\ sems'[o].blocked[j] # c
    BY <2>1
  <2> QED BY <2>2, <2>3, <2>4 DEF ClientInv, QueuedOnce
<1>18. ValueCountsQueue'
  <2>1. sems[n].value <= 0
    BY <1>1 DEF MustSleep
  <2>2. Len(b) = -sems[n].value
    BY <1>1, <2>1 DEF ClientInv, ValueCountsQueue
  <2>3. Len(q) = -(sems[n].value - 1) /\ sems[n].value - 1 < 0
    BY <1>1, <1>4, <2>1, <2>2
  <2>4. Len(sems'[n].blocked)
          = IF sems'[n].value < 0 THEN -sems'[n].value ELSE 0
    BY <1>12, <2>3
  <2>5. \A m \in SemNames \ {n} : sems'[m].initialized =>
          Len(sems'[m].blocked)
            = IF sems'[m].value < 0 THEN -sems'[m].value ELSE 0
    BY <1>12 DEF ClientInv, ValueCountsQueue
  <2> QED BY <2>4, <2>5 DEF ValueCountsQueue
<1>19. OpeningsAgree'
  BY <1>12, OpeningsKept DEF ClientInv
<1> QED BY <1>9, <1>11, <1>13, <1>14, <1>16, <1>17, <1>18, <1>19 DEF ClientInv

\* sem_post() that nobody waits for.
LEMMA PostGivesInv ==
  ASSUME ClientInv, NEW n \in SemNames, Caller \in Procs, opened[Caller][n],
         SysSemPost(n), UNCHANGED opened, ~MustWake(sems, n)
  PROVE  ClientInv'
<1> DEFINE b == sems[n].blocked
           v == sems[n].value + 1
<1>1. /\ sems[n].initialized
      /\ sems[n].value \in Int /\ v \in Int /\ b \in Seq(Slots)
      /\ sems \in [SemNames -> SemType]
  BY OpenedIsThere DEF ClientInv, ClientTypeOK
<1>2. Requeues(n, v, b)
  BY <1>1 DEF SysSemPost, SemPostTable, Requeues
<1>3. KernelBecomes(Kernel)
  BY DEF SysSemPost, SemPostKernel
<1>4. v > 0 /\ Len(b) = 0
  <2>1. Len(b) = IF sems[n].value < 0 THEN -sems[n].value ELSE 0
    BY <1>1 DEF ClientInv, ValueCountsQueue
  <2>2. v > 0 \/ b = <<>>
    BY <1>1 DEF MustWake
  <2>3. b = <<>> => Len(b) = 0
    BY EmptySeq
  <2> HIDE DEF b
  <2> QED BY <1>1, <2>1, <2>2, <2>3
<1> HIDE DEF b, v
<1>5. /\ sems' \in [SemNames -> SemType]
      /\ \A m \in SemNames : /\ sems'[m].initialized = sems[m].initialized
                             /\ sems'[m].openings = sems[m].openings
      /\ sems'[n].value = v /\ sems'[n].blocked = b
      /\ \A m \in SemNames \ {n} : sems'[m] = sems[m]
  BY <1>1, <1>2, RequeuesFacts DEF ClientInv
<1>6. ValueCountsQueue'
  BY <1>1, <1>4, <1>5 DEF ClientInv, ValueCountsQueue
<1>7. \A m \in SemNames : sems'[m].blocked = sems[m].blocked
  BY <1>5 DEF b
<1> QED BY <1>3, <1>5, <1>6, <1>7, TokensInv

\* The last block of a process is undone, and nobody else's.
LEMMA WakeOne ==
  ASSUME NEW k, Settled(k), NEW h \in Slots \ {IDLE_PID},
         k.state[h] = "BLOCKED", k.blocks_amount[h] = 1
  PROVE  LET r == UnblockProcess(k, h)
         IN  /\ Settled(r)
             /\ r.state[h] = "READY"
             /\ \A p \in Slots \ {h} : /\ r.state[p] = k.state[p]
                                       /\ r.blocks_amount[p] = k.blocks_amount[p]
<1> DEFINE r == UnblockProcess(k, h)
<1>1. k \in KernelType /\ Counted(k)
  BY DEF Settled
<1>2. Settled(r)
  BY <1>1, UnblockProcessFacts DEF Settled
<1>3. r = [k EXCEPT !.blocks_amount[h] = k.blocks_amount[h] - 1,
                    !.state[h] = "READY"]
  BY DEF UnblockProcess, IsPidValid
<1> HIDE DEF r
<1>4. /\ r.state[h] = "READY"
      /\ \A p \in Slots \ {h} : /\ r.state[p] = k.state[p]
                                /\ r.blocks_amount[p] = k.blocks_amount[p]
  BY <1>1, <1>3 DEF KernelType
<1> QED BY <1>2, <1>4 DEF r

\* sem_post() that somebody waits for: the head of the queue, whose only block
\* is that of its sem_wait(), leaves the queue and is READY.
LEMMA PostWakesInv ==
  ASSUME ClientInv, NEW n \in SemNames, Caller \in Procs, opened[Caller][n],
         SysSemPost(n), UNCHANGED opened, MustWake(sems, n)
  PROVE  ClientInv'
<1> DEFINE b == sems[n].blocked
           q == Tail(b)
           h == Head(b)
           r == UnblockProcess(Kernel, h)
<1>1. /\ sems[n].initialized
      /\ sems[n].value \in Int /\ sems[n].value + 1 \in Int
      /\ b \in Seq(Slots) /\ Len(b) \in Nat
  BY OpenedIsThere
<1>2. b # <<>> /\ sems[n].value + 1 <= 0
  BY DEF MustWake
<1>3. Settled(Kernel)
  BY DEF ClientInv, SchedInv
<1>4. /\ q \in Seq(Slots) /\ Len(q) = Len(b) - 1
      /\ 1 \in 1 .. Len(b) /\ b[1] = h
      /\ \A i \in 1 .. Len(q) : i + 1 \in 2 .. Len(b) /\ q[i] = b[i + 1]
      /\ \A i \in 1 .. Len(b) : i = 1 \/ (i - 1 \in 1 .. Len(q) /\ q[i - 1] = b[i])
  <2>1. /\ q \in Seq(Slots) /\ Len(q) = Len(b) - 1
        /\ \A i \in 1 .. Len(q) : q[i] = b[i + 1]
    BY <1>1, <1>2, HeadTailProperties
  <2>2. b[1] = h /\ Len(b) # 0
    BY <1>1, <1>2, EmptySeq
  <2> HIDE DEF q, b, h
  <2> QED BY <1>1, <2>1, <2>2
<1>5. Requeues(n, sems[n].value + 1, q)
  BY <1>1 DEF SysSemPost, SemPostTable, Requeues
<1>6. KernelBecomes(r)
  BY DEF SysSemPost, SemPostKernel
<1> HIDE DEF r, q, h
<1>7. /\ sems' \in [SemNames -> SemType]
      /\ \A m \in SemNames : /\ sems'[m].initialized = sems[m].initialized
                             /\ sems'[m].openings = sems[m].openings
      /\ sems'[n].value = sems[n].value + 1 /\ sems'[n].blocked = q
      /\ \A m \in SemNames \ {n} : sems'[m] = sems[m]
  BY <1>1, <1>4, <1>5, RequeuesFacts DEF ClientInv
\* The head sleeps, and on this semaphore only.
<1>8. 1 \in Places(n) /\ h \in Procs /\ state[h] = "BLOCKED"
  BY <1>1, <1>4 DEF ClientInv, QueuesHoldUsers, SleepersAreQueued, Places
<1>9. h \in Slots \ {IDLE_PID} /\ blocks_amount[h] = 1
  BY <1>8, ClientAssumption DEF ClientInv, ClientsLive, Kernel
<1>10. /\ Settled(r)
       /\ r.state[h] = "READY"
       /\ \A p \in Slots \ {h} : /\ r.state[p] = state[p]
                                 /\ r.blocks_amount[p] = blocks_amount[p]
  <2>1. Kernel.state = state /\ Kernel.blocks_amount = blocks_amount
    BY DEF Kernel
  <2> QED BY <1>3, <1>8, <1>9, <2>1, WakeOne DEF r
<1>11. /\ SchedInv'
       /\ state' = r.state /\ blocks_amount' = r.blocks_amount
  BY <1>6, <1>10, KernelBecomesSettled DEF KernelBecomes
<1>12. /\ state'[h] = "READY"
       /\ \A p \in Procs \ {h} : /\ state'[p] = state[p]
                                 /\ blocks_amount'[p] = blocks_amount[p]
  BY <1>10, <1>11, ClientAssumption
<1>13. ClientsLive(Kernel)'
  <2>1. \A p \in Procs : /\ state'[p] \in {"READY", "RUNNING", "BLOCKED"}
                         /\ state'[p] = "BLOCKED" => blocks_amount'[p] = 1
    BY <1>12 DEF ClientInv, ClientsLive, Kernel
  <2> QED BY <2>1 DEF ClientsLive, Kernel
<1>14. ClientTypeOK'
  BY <1>7 DEF ClientInv, ClientTypeOK
\* Whoever is in a queue afterwards has been in it before, and is not the head.
<1>15. ASSUME NEW m \in SemNames, NEW i \in Places(m)', sems'[m].initialized
       PROVE  \E j \in Places(m) : /\ sems'[m].blocked[i] = sems[m].blocked[j]
                                   /\ j = IF m = n THEN i + 1 ELSE i
                                   /\ sems[m].blocked[j] # h
  <2>1. sems[m].initialized
    BY <1>7, <1>15
  <2>2. CASE m = n
    <3>1. i + 1 \in Places(n) /\ i + 1 # 1 /\ sems'[m].blocked[i] = b[i + 1]
      BY <1>1, <1>4, <1>7, <2>2 DEF Places
    <3>2. b[i + 1] # h
      BY <1>1, <1>4, <1>8, <3>1 DEF ClientInv, QueuedOnce
    <3> QED BY <2>2, <3>1, <3>2
  <2>3. CASE m # n
    <3>1. i \in Places(m) /\ sems'[m].blocked[i] = sems[m].blocked[i]
      BY <1>7, <2>3 DEF Places
    <3>2. sems[m].blocked[i] # h
      BY <1>1, <1>4, <1>8, <2>1, <2>3, <3>1 DEF ClientInv, QueuedOnce
    <3> QED BY <2>3, <3>1, <3>2
  <2> QED BY <2>2, <2>3
<1>16. QueuesHoldUsers'
  <2> SUFFICES ASSUME NEW m \in SemNames, sems'[m].initialized
               PROVE  /\ Len(sems'[m].blocked) <= PROCESSES_BLOCKED
                      /\ \A i \in Places(m)' : /\ sems'[m].blocked[i] \in Procs
                                               /\ opened'[sems'[m].blocked[i]][m]
    BY DEF QueuesHoldUsers, Places
  <2>1. sems[m].initialized
    BY <1>7
  <2>2. Len(b) <= PROCESSES_BLOCKED
    BY <1>1 DEF ClientInv, QueuesHoldUsers
  <2>3. Len(sems'[m].blocked) <= PROCESSES_BLOCKED
    <3>1. CASE m = n
      BY <1>1, <1>4, <1>7, <2>2, <3>1, SemAssumption
    <3>2. CASE m # n
      BY <1>7, <2>1, <3>2 DEF ClientInv, QueuesHoldUsers
    <3> QED BY <3>1, <3>2
  <2>4. ASSUME NEW i \in Places(m)'
        PROVE  sems'[m].blocked[i] \in Procs /\ opened'[sems'[m].blocked[i]][m]
    <3>1. PICK j \in Places(m) : sems'[m].blocked[i] = sems[m].blocked[j]
      BY <1>15
    <3> QED BY <2>1, <3>1 DEF ClientInv, QueuesHoldUsers
  <2> QED BY <2>3, <2>4
<1>17. SleepersAreQueued'
  <2> SUFFICES ASSUME NEW p \in Procs
               PROVE  state'[p] = "BLOCKED" <=>
                        \E m \in SemNames : /\ sems'[m].initialized
                                            /\ \E i \in Places(m)' : sems'[m].blocked[i] = p
    BY DEF SleepersAreQueued, Places
  <2>1. CASE p = h
    BY <1>12, <1>15, <2>1
  <2>2. CASE p # h
    <3>1. state'[p] = "BLOCKED" <=>
            \E m \in SemNames : /\ sems[m].initialized
                                /\ \E i \in Places(m) : sems[m].blocked[i] = p
      BY <1>12, <2>2 DEF ClientInv, SleepersAreQueued
    <3>2. \A m \in SemNames : sems'[m].initialized =>
            \A i \in Places(m)' : sems'[m].blocked[i] = p =>
              \E j \in Places(m) : sems[m].blocked[j] = p
      BY <1>15
    <3>3. ASSUME NEW m \in SemNames, NEW j \in Places(m), sems[m].blocked[j] = p
          PROVE  \E i \in Places(m)' : sems'[m].blocked[i] = p
      <4>1. CASE m = n
        <5>1. j - 1 \in Places(n)' /\ q[j - 1] = p
          BY <1>4, <1>7, <2>2, <3>3, <4>1 DEF Places
        <5> QED BY <1>7, <4>1, <5>1
      <4>2. CASE m # n
        BY <1>7, <3>3, <4>2 DEF Places
      <4> QED BY <4>1, <4>2
    <3> QED BY <1>7, <3>1, <3>2, <3>3
  <2> QED BY <2>1, <2>2
<1>18. QueuedOnce'
  <2> SUFFICES ASSUME NEW m \in SemNames, NEW o \in SemNames,
                      sems'[m].initialized, sems'[o].initialized,
                      NEW i \in Places(m)', NEW j \in Places(o)',
                      sems'[m].blocked[i] = sems'[o].blocked[j]
               PROVE  m = o /\ i = j
    BY DEF QueuedOnce, Places
  <2>1. sems[m].initialized /\ sems[o].initialized
    BY <1>7
  <2>2. PICK x \in Places(m) : /\ sems'[m].blocked[i] = sems[m].blocked[x]
                               /\ x = IF m = n THEN i + 1 ELSE i
    BY <1>15
  <2>3. PICK y \in Places(o) : /\ sems'[o].blocked[j] = sems[o].blocked[y]
                               /\ y = IF o = n THEN j + 1 ELSE j
    BY <1>15
  <2>4. m = o /\ x = y
    <3>1. sems[m].blocked[x] = sems[o].blocked[y]
      BY <2>2, <2>3
    <3> QED BY <2>1, <3>1 DEF ClientInv, QueuedOnce
  <2>5. i \in Int /\ j \in Int
    BY DEF Places
  <2> QED BY <2>2, <2>3, <2>4, <2>5
<1>19. ValueCountsQueue'
  <2>1. Len(b) = -sems[n].value
    BY <1>1, <1>2 DEF ClientInv, ValueCountsQueue
  <2>2. Len(sems'[n].blocked)
          = IF sems'[n].value < 0 THEN -sems'[n].value ELSE 0
    BY <1>1, <1>2, <1>4, <1>7, <2>1
  <2>3. \A m \in SemNames \ {n} : sems'[m].initialized =>
          Len(sems'[m].blocked)
            = IF sems'[m].value < 0 THEN -sems'[m].value ELSE 0
    BY <1>7 DEF ClientInv, ValueCountsQueue
  <2> QED BY <2>2, <2>3 DEF ValueCountsQueue
<1>20. OpeningsAgree'
  BY <1>7, OpeningsKept DEF ClientInv
<1> QED BY <1>11, <1>13, <1>14, <1>16, <1>17, <1>18, <1>19, <1>20 DEF ClientInv

-----------------------------------------------------------------------------
\* sem_close(): of the last opening it takes the semaphore away, and finds its
\* queue empty, as whoever is in it has the semaphore open too.
LEMMA CloseInv ==
  ASSUME ClientInv, NEW n \in SemNames, Close(n)
  PROVE  ClientInv'
<1> DEFINE c == Caller
           o == sems[n].openings
<1>1. /\ c \in Procs /\ opened[c][n]
      /\ sems' = SemClose(sems, n)
      /\ UNCHANGED schedVars
      /\ opened' = [opened EXCEPT ![c][n] = FALSE]
  BY DEF Close, SysSemClose
<1>2. /\ sems[n].initialized /\ sems[n] \in SemType /\ o \in Int
      /\ sems \in [SemNames -> SemType]
  BY <1>1, OpenedIsThere DEF ClientInv, ClientTypeOK
<1>3. /\ SchedInv' /\ ClientsLive(Kernel)'
      /\ \A p \in Procs : state'[p] = "BLOCKED" <=> state[p] = "BLOCKED"
  BY <1>1, KernelKept, SleepersKept DEF ClientInv
<1>4. state[c] # "BLOCKED"
  BY <1>1, CallerFacts DEF ClientInv
<1> HIDE DEF c
<1>5. /\ opened' \in [Procs -> [SemNames -> BOOLEAN]]
      /\ \A p \in Procs, m \in SemNames :
           opened[p][m] /\ ~(p = c /\ m = n) => opened'[p][m]
      /\ Cardinality(Users(n)') = Cardinality(Users(n)) - 1
      /\ Cardinality(Users(n)) # 0
      /\ \A m \in SemNames \ {n} : Users(m)' = Users(m)
  BY <1>1, CloseUsers DEF ClientInv
<1>6. /\ \A m \in SemNames : /\ sems[m].initialized <=> Users(m) # {}
                             /\ sems[m].initialized => sems[m].openings = Cardinality(Users(m))
      /\ Cardinality(Users(n)) \in Nat
  BY OpeningsOfUsers, UsersFinite DEF ClientInv
<1>7. o > 0 /\ o = Cardinality(Users(n))
  BY <1>2, <1>5, <1>6
<1>8. /\ sems' \in [SemNames -> SemType]
      /\ sems'[n].initialized <=> o - 1 > 0
      /\ sems'[n].blocked = sems[n].blocked
      /\ sems'[n].initialized => /\ sems'[n].value = sems[n].value
                                 /\ sems'[n].openings = o - 1
      /\ \A m \in SemNames \ {n} : sems'[m] = sems[m]
  <2>1. PICK w \in SemType : w = sems[n]
    BY <1>2
  <2>2. PICK z \in Int : z = o - 1
    BY <1>2
  <2>3. CASE o - 1 > 0
    <3> DEFINE x == [w EXCEPT !.openings = z]
    <3>1. /\ x \in SemType
          /\ x.initialized = w.initialized /\ x.value = w.value
          /\ x.openings = z /\ x.blocked = w.blocked
      BY DEF SemType
    <3>2. sems' = [sems EXCEPT ![n] = x]
      BY <1>1, <1>2, <2>1, <2>2, <2>3 DEF SemClose
    <3> HIDE DEF x
    <3> QED BY <1>2, <2>1, <2>2, <2>3, <3>1, <3>2
  <2>4. CASE ~(o - 1 > 0)
    <3> DEFINE x == [w EXCEPT !.initialized = FALSE, !.value = 0,
                              !.openings = z]
    <3>1. x \in SemType /\ x.initialized = FALSE /\ x.blocked = w.blocked
      <4>1. PICK y \in SemType : y = [w EXCEPT !.initialized = FALSE]
        <5>1. [w EXCEPT !.initialized = FALSE] \in SemType
          BY DEF SemType
        <5> QED BY <5>1
      <4>2. PICK r \in SemType : r = [y EXCEPT !.value = 0]
        <5>1. [y EXCEPT !.value = 0] \in SemType
          BY DEF SemType
        <5> QED BY <5>1
      <4>3. x = [r EXCEPT !.openings = z]
        BY <4>1, <4>2
      <4>4. y.initialized = FALSE /\ y.blocked = w.blocked
        BY <4>1 DEF SemType
      <4>5. r.initialized = y.initialized /\ r.blocked = y.blocked
        BY <4>2 DEF SemType
      <4> HIDE DEF x
      <4>6. x \in SemType
        BY <4>3 DEF SemType
      <4>7. x.initialized = r.initialized /\ x.blocked = r.blocked
        BY <4>3 DEF SemType
      <4> QED BY <4>4, <4>5, <4>6, <4>7
    <3>2. sems' = [sems EXCEPT ![n] = x]
      BY <1>1, <1>2, <2>1, <2>2, <2>4 DEF SemClose
    <3> HIDE DEF x
    <3> QED BY <1>2, <2>1, <2>4, <3>1, <3>2
  <2> QED BY <2>3, <2>4
<1> HIDE DEF o
<1>9. \A m \in SemNames : /\ sems'[m].blocked = sems[m].blocked
                          /\ sems'[m].initialized => sems[m].initialized
  BY <1>2, <1>8
\* The queue of a semaphore that goes is empty.
<1>10. ASSUME NEW m \in SemNames, sems[m].initialized, ~sems'[m].initialized
       PROVE  \A i \in Places(m) : FALSE
  <2>1. m = n /\ Cardinality(Users(n)) = 1
    BY <1>5, <1>6, <1>7, <1>8, <1>10
  <2>2. ASSUME NEW i \in Places(n)
        PROVE  FALSE
    <3> DEFINE p == sems[n].blocked[i]
    <3>1. p \in Procs /\ opened[p][n] /\ state[p] = "BLOCKED"
      BY <1>2 DEF ClientInv, QueuesHoldUsers, SleepersAreQueued
    <3> HIDE DEF p
    <3>2. p # c
      BY <1>4, <3>1
    <3>3. p \in Users(n)'
      BY <1>5, <3>1, <3>2 DEF Users
    <3>4. Cardinality(Users(n)') = 0
      BY <1>5, <2>1
    <3>5. Cardinality(Users(n)') # 0
      <4>1. IsFiniteSet(Users(n)')
        BY ProcsFinite, FS_Subset DEF Users
      <4> QED BY <3>3, <4>1, FS_EmptySet
    <3> QED BY <3>4, <3>5
  <2> QED BY <2>1, <2>2
<1>11. ClientTypeOK'
  BY <1>5, <1>8 DEF ClientTypeOK
<1>12. SleepersAreQueued'
  <2> SUFFICES ASSUME NEW p \in Procs
               PROVE  state'[p] = "BLOCKED" <=>
                        \E m \in SemNames : /\ sems'[m].initialized
                                            /\ \E i \in Places(m)' : sems'[m].blocked[i] = p
    BY DEF SleepersAreQueued, Places
  <2>1. \A m \in SemNames :
          (sems'[m].initialized /\ \E i \in Places(m)' : sems'[m].blocked[i] = p)
          <=> (sems[m].initialized /\ \E i \in Places(m) : sems[m].blocked[i] = p)
    BY <1>9, <1>10 DEF Places
  <2> QED BY <1>3, <2>1 DEF ClientInv, SleepersAreQueued
<1>13. QueuesHoldUsers'
  <2> SUFFICES ASSUME NEW m \in SemNames, sems'[m].initialized
               PROVE  /\ Len(sems'[m].blocked) <= PROCESSES_BLOCKED
                      /\ \A i \in Places(m)' : /\ sems'[m].blocked[i] \in Procs
                                               /\ opened'[sems'[m].blocked[i]][m]
    BY DEF QueuesHoldUsers, Places
  <2>1. Len(sems'[m].blocked) <= PROCESSES_BLOCKED
    BY <1>9 DEF ClientInv, QueuesHoldUsers
  <2>2. ASSUME NEW i \in Places(m)'
        PROVE  sems'[m].blocked[i] \in Procs /\ opened'[sems'[m].blocked[i]][m]
    <3> DEFINE p == sems[m].blocked[i]
    <3>1. i \in Places(m) /\ sems'[m].blocked[i] = p
      BY <1>9 DEF Places
    <3>2. p \in Procs /\ opened[p][m] /\ state[p] = "BLOCKED"
      BY <1>9, <3>1 DEF ClientInv, QueuesHoldUsers, SleepersAreQueued
    <3> HIDE DEF p
    <3> QED BY <1>4, <1>5, <3>1, <3>2
  <2> QED BY <2>1, <2>2
<1>14. QueuedOnce'
  <2> SUFFICES ASSUME NEW m \in SemNames, NEW l \in SemNames,
                      sems'[m].initialized, sems'[l].initialized,
                      NEW i \in Places(m)', NEW j \in Places(l)',
                      sems'[m].blocked[i] = sems'[l].blocked[j]
               PROVE  m = l /\ i = j
    BY DEF QueuedOnce, Places
  <2>1. /\ sems[m].initialized /\ sems[l].initialized
        /\ i \in Places(m) /\ j \in Places(l)
        /\ sems[m].blocked[i] = sems[l].blocked[j]
    BY <1>9 DEF Places
  <2> QED BY <2>1 DEF ClientInv, QueuedOnce
<1>15. ValueCountsQueue'
  BY <1>8, <1>9 DEF ClientInv, ValueCountsQueue
<1>16. OpeningsAgree'
  <2>1. sems'[n].initialized <=> Users(n)' # {}
    <3>1. IsFiniteSet(Users(n)')
      BY ProcsFinite, FS_Subset DEF Users
    <3>2. Cardinality(Users(n)') = 0 <=> Users(n)' = {}
      BY <3>1, FS_EmptySet
    <3> QED BY <1>5, <1>6, <1>7, <1>8, <3>2
  <2>2. sems'[n].initialized => sems'[n].openings = Cardinality(Users(n)')
    BY <1>5, <1>7, <1>8
  <2>3. \A m \in SemNames \ {n} :
          /\ sems'[m].initialized <=> Users(m)' # {}
          /\ sems'[m].initialized => sems'[m].openings = Cardinality(Users(m)')
    BY <1>5, <1>6, <1>8
  <2> QED BY <2>1, <2>2, <2>3 DEF OpeningsAgree, Users
<1> QED BY <1>3, <1>11, <1>12, <1>13, <1>14, <1>15, <1>16 DEF ClientInv

-----------------------------------------------------------------------------
LEMMA ClientNextInv == ClientInv /\ [ClientNext]_clientVars => ClientInv'
<1> SUFFICES ASSUME ClientInv, [ClientNext]_clientVars
             PROVE  ClientInv'
  OBVIOUS
<1>1. Settled(Kernel) /\ Coherent(Kernel)
  BY SettledCoherent DEF ClientInv, SchedInv
<1>2. CASE Tick
  BY <1>1, <1>2, SchedulingFacts, SchedulingSleepers, NothingCalled
     DEF Tick, TimerTick
<1>3. ASSUME NEW n \in SemNames, Wait(n) \/ Post(n)
      PROVE  ClientInv'
  BY <1>3, WaitTakesInv, WaitSleepsInv, PostGivesInv, PostWakesInv DEF Wait, Post
<1>4. ASSUME NEW n \in SemNames, Close(n)
      PROVE  ClientInv'
  BY <1>4, CloseInv
<1>5. ASSUME NEW n \in SemNames, NEW v \in Values, Open(n, v)
      PROVE  ClientInv'
  BY <1>5, OpenInv
<1>6. CASE UNCHANGED clientVars
  <2>1. UNCHANGED schedVars /\ UNCHANGED <<sems, opened>>
    BY <1>6 DEF clientVars
  <2> QED BY <2>1, KernelKept, NothingCalled DEF ClientInv
<1> QED BY <1>2, <1>3, <1>4, <1>5, <1>6 DEF ClientNext

LEMMA ClientInvHolds == ClientSpec => []ClientInv
BY ClientInitInv, ClientNextInv, PTL DEF ClientSpec

\* A negative value of a semaphore is the number of processes in its queue:
\* sem_post() decides by the value and then takes the head of the queue.
THEOREM ValuesCount == ClientSpec => []ValueCountsQueue
<1>1. ClientInv => ValueCountsQueue
  BY DEF ClientInv
<1> QED BY <1>1, ClientInvHolds, PTL

\* A semaphore is in the table exactly while somebody has it open, and knows
\* how many they are: sem_close() never takes it away from a user.
THEOREM OpeningsCount == ClientSpec => []OpeningsAgree
<1>1. ClientInv => OpeningsAgree
  BY DEF ClientInv
<1> QED BY <1>1, ClientInvHolds, PTL

\* Who sleeps is in one place of one queue of a semaphore that is open: every
\* sleeper can be woken up, and no post wakes up anybody else.
THEOREM SleepersHavePlaces == ClientSpec => []SleepersQueue
<1>1. ClientInv => SleepersQueue
  <2> SUFFICES ASSUME ClientInv
               PROVE  SleepersQueue
    OBVIOUS
  <2>1. \A n \in SemNames : sems[n].initialized =>
          /\ Len(sems[n].blocked) \in Nat
          /\ Len(sems[n].blocked) <= PROCESSES_BLOCKED
          /\ Places(n) \subseteq 1 .. PROCESSES_BLOCKED
    <3> SUFFICES ASSUME NEW n \in SemNames, sems[n].initialized
                 PROVE  /\ Len(sems[n].blocked) \in Nat
                        /\ Len(sems[n].blocked) <= PROCESSES_BLOCKED
                        /\ Places(n) \subseteq 1 .. PROCESSES_BLOCKED
      OBVIOUS
    <3>1. sems[n].blocked \in Seq(Slots)
      BY DEF ClientInv, ClientTypeOK, SemType
    <3>2. Len(sems[n].blocked) \in Nat
      BY <3>1, LenProperties
    <3>3. Len(sems[n].blocked) <= PROCESSES_BLOCKED
      BY DEF ClientInv, QueuesHoldUsers
    <3> QED BY <3>2, <3>3, SemAssumption DEF Places
  <2>2. \A n \in SemNames, i \in 1 .. PROCESSES_BLOCKED :
          <<n, i>> \in QueuePlaces <=> sems[n].initialized /\ i \in Places(n)
    BY <2>1, SemAssumption DEF QueuePlaces, Places
  <2>3. \A q \in QueuePlaces : /\ q[1] \in SemNames /\ sems[q[1]].initialized
                               /\ q[2] \in Places(q[1])
                               /\ q = <<q[1], q[2]>>
    BY <2>1, SemAssumption DEF QueuePlaces, Places
  <2>4. \A p \in Procs : state[p] = "BLOCKED" <=>
          \E q \in QueuePlaces : sems[q[1]].blocked[q[2]] = p
    <3> SUFFICES ASSUME NEW p \in Procs
                 PROVE  state[p] = "BLOCKED" <=>
                          \E q \in QueuePlaces : sems[q[1]].blocked[q[2]] = p
      OBVIOUS
    <3>1. ASSUME NEW n \in SemNames, sems[n].initialized,
                 NEW i \in Places(n), sems[n].blocked[i] = p
          PROVE  \E q \in QueuePlaces : sems[q[1]].blocked[q[2]] = p
      <4>1. <<n, i>> \in QueuePlaces
        BY <2>1, <2>2, <3>1
      <4> WITNESS <<n, i>> \in QueuePlaces
      <4> QED BY <3>1
    <3>2. ASSUME NEW q \in QueuePlaces, sems[q[1]].blocked[q[2]] = p
          PROVE  \E n \in SemNames : /\ sems[n].initialized
                                     /\ \E i \in Places(n) : sems[n].blocked[i] = p
      BY <2>3, <3>2
    <3> QED BY <3>1, <3>2 DEF ClientInv, SleepersAreQueued
  <2>5. ASSUME NEW q \in QueuePlaces, NEW r \in QueuePlaces,
               sems[q[1]].blocked[q[2]] = sems[r[1]].blocked[r[2]]
        PROVE  q = r
    <3>1. q[1] = r[1] /\ q[2] = r[2]
      BY <2>3, <2>5 DEF ClientInv, QueuedOnce
    <3> QED BY <2>3, <3>1
  <2> QED BY <2>4, <2>5 DEF SleepersQueue
<1> QED BY <1>1, ClientInvHolds, PTL

-----------------------------------------------------------------------------
(* The semaphores as those of CountingSemaphore.                           *)

CountStep == [Counting!Next]_<<Openers, balance, Tokens, Asleep>>

Queue(n) == IF sems[n].initialized THEN sems[n].blocked ELSE <<>>

\* Whoever queues sleeps, so the sleepers are the queue.
LEMMA SleepersAreTheQueue ==
  ASSUME ClientInv, NEW n \in SemNames
  PROVE  SleepingOn(n) = Queue(n) /\ Queue(n) \in Seq(Slots)
<1>1. ASSUME NEW i \in 1 .. Len(Queue(n))
      PROVE  state[Queue(n)[i]] = "BLOCKED"
  <2>1. sems[n].initialized
    BY EmptySeq DEF Queue
  <2>2. sems[n].blocked[i] \in Procs /\ i \in Places(n)
    BY <2>1 DEF ClientInv, QueuesHoldUsers, Queue, Places
  <2>3. state[sems[n].blocked[i]] = "BLOCKED"
    BY <2>1, <2>2 DEF ClientInv, SleepersAreQueued
  <2> QED BY <2>1, <2>3 DEF Queue
<1>2. sems[n] \in SemType
  BY DEF ClientInv, ClientTypeOK
<1>3. Queue(n) \in Seq(Slots)
  BY <1>2, EmptySeq DEF Queue, SemType
<1> QED BY <1>1, <1>3 DEF SleepingOn, Queue

QueuesSleep == \A n \in SemNames : SleepingOn(n) = Queue(n)

\* A call on n changes the tokens and sleepers of n at most.
LEMMA OthersCount ==
  ASSUME ClientTypeOK, ClientTypeOK', QueuesSleep, QueuesSleep', NEW n \in SemNames,
         \A m \in SemNames \ {n} : sems'[m] = sems[m]
  PROVE  /\ Tokens' = [Tokens EXCEPT ![n] = Tokens'[n]]
         /\ Asleep' = [Asleep EXCEPT ![n] = Queue(n)']
         /\ Asleep[n] = Queue(n)
         /\ Tokens[n] = TokensOf(sems[n]) /\ Tokens'[n] = TokensOf(sems'[n])
         /\ Tokens'[n] \in Nat
         /\ Tokens'[n] = Tokens[n] => Tokens' = Tokens
         /\ Queue(n)' = Queue(n) => Asleep' = Asleep
<1>1. \A m \in SemNames : /\ Asleep[m] = Queue(m)
                          /\ Asleep'[m] = Queue(m)'
  BY DEF Asleep, QueuesSleep
<1>2. \A m \in SemNames \ {n} : /\ Queue(m)' = Queue(m)
                                /\ Tokens'[m] = Tokens[m]
  BY DEF Queue, Tokens
<1>3. /\ Tokens[n] = TokensOf(sems[n]) /\ Tokens'[n] = TokensOf(sems'[n])
      /\ TokensOf(sems'[n]) \in Nat
  <2>1. sems'[n].value \in Int
    BY DEF ClientTypeOK, SemType
  <2> QED BY <2>1 DEF Tokens, TokensOf
<1>4. /\ Tokens = [m \in SemNames |-> Tokens[m]]
      /\ Tokens' = [m \in SemNames |-> Tokens'[m]]
      /\ Asleep = [m \in SemNames |-> Asleep[m]]
      /\ Asleep' = [m \in SemNames |-> Asleep'[m]]
  BY DEF Tokens, Asleep
<1> HIDE DEF Tokens, Asleep
<1>5. Tokens' = [Tokens EXCEPT ![n] = Tokens'[n]]
  BY <1>2, <1>4
<1>6. Asleep' = [Asleep EXCEPT ![n] = Queue(n)']
  BY <1>1, <1>2, <1>4
<1>7. Tokens'[n] = Tokens[n] => Tokens' = Tokens
  BY <1>4, <1>5
<1>8. Queue(n)' = Queue(n) => Asleep' = Asleep
  BY <1>1, <1>4, <1>6
<1> QED BY <1>1, <1>3, <1>5, <1>6, <1>7, <1>8

LEMMA NothingCounted ==
  ASSUME QueuesSleep, QueuesSleep', UNCHANGED <<sems, opened, balance>>
  PROVE  CountStep
<1>1. Tokens' = Tokens
  BY DEF Tokens
<1>2. Asleep' = Asleep
  BY DEF Asleep, QueuesSleep, Queue
<1>3. Openers' = Openers
  BY DEF Openers, Users
<1> QED BY <1>1, <1>2, <1>3 DEF CountStep

\* The openings, as the abstract semaphores have them.
LEMMA OpenersFacts ==
  ASSUME ClientTypeOK, NEW n \in SemNames
  PROVE  /\ Openers[n] = Users(n)
         /\ UNCHANGED opened => UNCHANGED Openers
         /\ \A c \in Procs :
              /\ opened[c][n] => c \in Openers[n]
              /\ opened' = [opened EXCEPT ![c][n] = TRUE] =>
                   Openers' = [Openers EXCEPT ![n] = @ \cup {c}]
              /\ opened' = [opened EXCEPT ![c][n] = FALSE] =>
                   Openers' = [Openers EXCEPT ![n] = @ \ {c}]
<1>1. Openers[n] = Users(n) /\ (UNCHANGED opened => UNCHANGED Openers)
  BY DEF Openers, Users
<1>2. ASSUME NEW c \in Procs, NEW b \in BOOLEAN, opened' = [opened EXCEPT ![c][n] = b]
      PROVE  /\ Users(n)' = IF b THEN Users(n) \cup {c} ELSE Users(n) \ {c}
             /\ \A m \in SemNames \ {n} : Users(m)' = Users(m)
  <2>1. \A p \in Procs, m \in SemNames :
          opened'[p][m] = IF p = c /\ m = n THEN b ELSE opened[p][m]
    BY <1>2 DEF ClientTypeOK
  <2> QED BY <2>1 DEF Users
<1>3. ASSUME NEW c \in Procs, opened' = [opened EXCEPT ![c][n] = TRUE]
      PROVE  Openers' = [Openers EXCEPT ![n] = @ \cup {c}]
  <2>1. /\ Users(n)' = Users(n) \cup {c}
        /\ \A m \in SemNames \ {n} : Users(m)' = Users(m)
    BY <1>2, <1>3
  <2> QED BY <2>1 DEF Openers
<1>4. ASSUME NEW c \in Procs, opened' = [opened EXCEPT ![c][n] = FALSE]
      PROVE  Openers' = [Openers EXCEPT ![n] = @ \ {c}]
  <2>1. /\ Users(n)' = Users(n) \ {c}
        /\ \A m \in SemNames \ {n} : Users(m)' = Users(m)
    BY <1>2, <1>4
  <2> QED BY <2>1 DEF Openers
<1>5. \A c \in Procs : opened[c][n] => c \in Openers[n]
  BY <1>1 DEF Users
<1> QED BY <1>1, <1>3, <1>4, <1>5

\* The client on the CPU sleeps nowhere.
LEMMA CallerIsAwake ==
  ASSUME ClientInv, QueuesSleep, Caller \in Procs
  PROVE  Caller \notin Counting!Sleepers
<1>1. state[Caller] # "BLOCKED"
  BY CallerFacts DEF ClientInv
<1>2. ASSUME NEW n \in SemNames, NEW i \in 1 .. Len(Asleep[n])
      PROVE  Asleep[n][i] # Caller
  <2>1. Asleep[n] = Queue(n)
    BY DEF Asleep, QueuesSleep
  <2>2. sems[n].initialized /\ i \in Places(n) /\ Asleep[n][i] = sems[n].blocked[i]
    BY <2>1, EmptySeq DEF Queue, Places
  <2> QED BY <1>1, <2>2 DEF ClientInv, SleepersAreQueued
<1> QED BY <1>2 DEF Counting!Sleepers, Asleep

\* sem_wait() is P, whether it takes a token or sleeps.
LEMMA WaitCounts ==
  ASSUME ClientInv, ClientInv', QueuesSleep, QueuesSleep', NEW n \in SemNames,
         Wait(n)
  PROVE  CountStep
<1> DEFINE b == sems[n].blocked
           q == IF MustSleep(sems, n) THEN Append(b, Caller) ELSE b
           v == sems[n].value - 1
<1>1. /\ sems[n].initialized
      /\ sems[n].value \in Int /\ v \in Int /\ b \in Seq(Slots)
      /\ Caller \in Slots /\ GetPid(Kernel) = Caller
      /\ ClientTypeOK /\ ClientTypeOK'
  BY OpenedIsThere, CallerFacts DEF ClientInv, Wait
<1>a. /\ Caller \in Openers[n] \ Counting!Sleepers /\ Caller \in Procs
      /\ UNCHANGED Openers /\ balance' = [balance EXCEPT ![n] = @ - 1]
  BY <1>1, OpenersFacts, CallerIsAwake DEF Wait
<1>2. q \in Seq(Slots)
  BY <1>1, AppendProperties
<1>3. Requeues(n, v, q)
  BY <1>1 DEF Wait, SysSemWait, SemWaitTable, Requeues
<1>4. MustSleep(sems, n) <=> sems[n].value <= 0
  BY <1>1 DEF MustSleep
<1> HIDE DEF q, v
<1>5. /\ sems'[n].initialized = sems[n].initialized
      /\ sems'[n].value = v /\ sems'[n].blocked = q
      /\ \A m \in SemNames \ {n} : sems'[m] = sems[m]
  BY <1>1, <1>2, <1>3, RequeuesFacts
<1>6. /\ Tokens' = [Tokens EXCEPT ![n] = Tokens'[n]]
      /\ Asleep' = [Asleep EXCEPT ![n] = q] /\ Asleep[n] = b
      /\ Tokens[n] = TokensOf(sems[n]) /\ Tokens'[n] = TokensOf(sems'[n])
      /\ Tokens'[n] = Tokens[n] => Tokens' = Tokens
      /\ q = b => Asleep' = Asleep
  BY <1>1, <1>5, OthersCount DEF Queue
<1>7. CASE sems[n].value > 0
  <2>1. Tokens[n] > 0 /\ Tokens'[n] = Tokens[n] - 1
    BY <1>1, <1>5, <1>6, <1>7 DEF TokensOf, v
  <2>2. Asleep' = Asleep
    BY <1>1, <1>4, <1>6, <1>7 DEF q
  <2>3. Counting!P(Caller, n)
    BY <1>6, <1>a, <2>1, <2>2 DEF Counting!P
  <2> QED BY <1>a, <2>3 DEF CountStep, Counting!Next
<1>8. CASE sems[n].value <= 0
  <2>1. Tokens[n] = 0 /\ Tokens'[n] = 0
    BY <1>1, <1>5, <1>6, <1>8 DEF TokensOf, v
  <2>2. Tokens' = Tokens
    BY <1>6, <2>1
  <2>3. Asleep' = [Asleep EXCEPT ![n] = Append(Asleep[n], Caller)]
    BY <1>4, <1>6, <1>8 DEF q
  <2>4. Counting!P(Caller, n)
    BY <1>a, <2>1, <2>2, <2>3 DEF Counting!P
  <2> QED BY <1>a, <2>4 DEF CountStep, Counting!Next
<1> QED BY <1>1, <1>7, <1>8

\* sem_post() is V, whether it gives a token or wakes the first sleeper up.
LEMMA PostCounts ==
  ASSUME ClientInv, ClientInv', QueuesSleep, QueuesSleep', NEW n \in SemNames,
         Post(n)
  PROVE  CountStep
<1> DEFINE b == sems[n].blocked
           q == IF MustWake(sems, n) THEN Tail(b) ELSE b
           v == sems[n].value + 1
<1>1. /\ sems[n].initialized
      /\ sems[n].value \in Int /\ v \in Int /\ b \in Seq(Slots)
      /\ ClientTypeOK /\ ClientTypeOK'
  BY OpenedIsThere DEF ClientInv, Post
<1>a. /\ Caller \in Openers[n] \ Counting!Sleepers /\ Caller \in Procs
      /\ UNCHANGED Openers /\ balance' = [balance EXCEPT ![n] = @ + 1]
  BY <1>1, OpenersFacts, CallerIsAwake DEF Post
<1>2. Len(b) = IF sems[n].value < 0 THEN -sems[n].value ELSE 0
  BY <1>1 DEF ClientInv, ValueCountsQueue
<1>3. MustWake(sems, n) <=> sems[n].value < 0 /\ b # <<>>
  BY <1>1 DEF MustWake
<1>4. b # <<>> <=> sems[n].value < 0
  <2>1. b = <<>> <=> Len(b) = 0
    BY <1>1, EmptySeq
  <2> QED BY <1>1, <1>2, <2>1
<1>5. q \in Seq(Slots)
  BY <1>1, <1>3, HeadTailProperties
<1>6. Requeues(n, v, q)
  BY <1>1 DEF Post, SysSemPost, SemPostTable, Requeues
<1> HIDE DEF q, v
<1>7. /\ sems'[n].initialized = sems[n].initialized
      /\ sems'[n].value = v /\ sems'[n].blocked = q
      /\ \A m \in SemNames \ {n} : sems'[m] = sems[m]
  BY <1>1, <1>5, <1>6, RequeuesFacts
<1>8. /\ Tokens' = [Tokens EXCEPT ![n] = Tokens'[n]]
      /\ Asleep' = [Asleep EXCEPT ![n] = q] /\ Asleep[n] = b
      /\ Tokens[n] = TokensOf(sems[n]) /\ Tokens'[n] = TokensOf(sems'[n])
      /\ Tokens'[n] = Tokens[n] => Tokens' = Tokens
      /\ q = b => Asleep' = Asleep
  BY <1>1, <1>7, OthersCount DEF Queue
<1>9. CASE sems[n].value < 0
  <2>1. Tokens[n] = 0 /\ Tokens'[n] = 0
    BY <1>1, <1>7, <1>8, <1>9 DEF TokensOf, v
  <2>2. Tokens' = Tokens
    BY <1>8, <2>1
  <2>3. Asleep' = [Asleep EXCEPT ![n] = Tail(Asleep[n])]
    BY <1>3, <1>4, <1>8, <1>9 DEF q
  <2>4. Counting!V(Caller, n)
    BY <1>4, <1>8, <1>9, <1>a, <2>2, <2>3 DEF Counting!V
  <2> QED BY <1>a, <2>4 DEF CountStep, Counting!Next
<1>10. CASE sems[n].value >= 0
  <2>1. Tokens'[n] = Tokens[n] + 1
    BY <1>1, <1>7, <1>8, <1>10 DEF TokensOf, v
  <2>2. Asleep' = Asleep
    BY <1>1, <1>3, <1>8, <1>10 DEF q
  <2>3. Counting!V(Caller, n)
    BY <1>1, <1>4, <1>8, <1>10, <1>a, <2>1, <2>2 DEF Counting!V
  <2> QED BY <1>a, <2>3 DEF CountStep, Counting!Next
<1> QED BY <1>1, <1>9, <1>10

-----------------------------------------------------------------------------
\* sem_open() of a semaphore that is not there gives it its tokens.
LEMMA OpenCounts ==
  ASSUME ClientInv, ClientInv', QueuesSleep, QueuesSleep',
         NEW n \in SemNames, NEW v \in Values, Open(n, v)
  PROVE  CountStep
<1>0. /\ sems' = SemOpen(sems, n, v) /\ sems \in [SemNames -> SemType]
      /\ ClientTypeOK /\ ClientTypeOK'
  BY DEF Open, SysSemOpen, ClientInv, ClientTypeOK
<1>1. \A m \in SemNames \ {n} : sems'[m] = sems[m]
  BY <1>0 DEF SemOpen, SemOpenResult
<1>2. /\ Tokens' = [Tokens EXCEPT ![n] = Tokens'[n]]
      /\ Asleep[n] = Queue(n)
      /\ Tokens[n] = TokensOf(sems[n]) /\ Tokens'[n] = TokensOf(sems'[n])
      /\ Tokens'[n] \in Nat
      /\ Tokens'[n] = Tokens[n] => Tokens' = Tokens
      /\ Queue(n)' = Queue(n) => Asleep' = Asleep
  BY <1>0, <1>1, OthersCount
<1>a. /\ Caller \in Procs /\ Caller \notin Counting!Sleepers \cup Openers[n]
      /\ Openers[n] = Users(n) /\ (Users(n) = {} <=> ~sems[n].initialized)
  <2>1. Caller \in Procs /\ ~opened[Caller][n] /\ Openers[n] = Users(n)
    BY <1>0, OpenersFacts DEF Open, ClientInv
  <2>2. Users(n) = {} <=> ~sems[n].initialized
    BY DEF ClientInv, OpeningsAgree
  <2> QED BY <2>1, <2>2, CallerIsAwake DEF Users
<1>b. SemOpenResult(sems, n) # -2 => Openers' = [Openers EXCEPT ![n] = @ \cup {Caller}]
  <2>1. SemOpenResult(sems, n) # -2 => opened' = [opened EXCEPT ![Caller][n] = TRUE]
    BY DEF Open
  <2> QED BY <1>a, <2>1, OpenersFacts DEF ClientInv
<1>3. CASE SemOpenResult(sems, n) = -2
  <2>1. sems' = sems /\ balance' = balance
    BY <1>0, <1>3 DEF Open, SemOpen
  <2>2. opened' = opened
    BY <1>3 DEF Open, ClientInv, ClientTypeOK
  <2> QED BY <2>1, <2>2, NothingCounted
<1>4. CASE SemOpenResult(sems, n) = -1
  <2>1. sems' = [sems EXCEPT ![n].openings = sems[n].openings + 1]
    BY <1>0, <1>4 DEF SemOpen
  <2>2. /\ sems'[n].initialized = sems[n].initialized
        /\ sems'[n].value = sems[n].value /\ sems'[n].blocked = sems[n].blocked
    BY <1>0, <2>1 DEF SemType
  <2>3. Tokens'[n] = Tokens[n] /\ Queue(n)' = Queue(n)
    BY <1>2, <2>2 DEF TokensOf, Queue
  <2>4. Users(n) # {} /\ balance' = balance
    BY <1>4, <1>a DEF SemOpenResult, Open
  <2>5. Counting!Open(Caller, n, v)
    BY <1>2, <1>4, <1>a, <1>b, <2>3, <2>4 DEF Counting!Open
  <2> QED BY <1>a, <2>5 DEF CountStep, Counting!Next
<1>5. CASE SemOpenResult(sems, n) = 0
  <2>1. sems' = [sems EXCEPT ![n] = [initialized |-> TRUE, value |-> v,
                                     openings |-> 1, blocked |-> <<>>]]
    BY <1>0, <1>5 DEF SemOpen
  <2>2. ~sems[n].initialized
    BY <1>5 DEF SemOpenResult
  <2>3. Queue(n) = <<>> /\ Queue(n)' = <<>>
    BY <1>0, <2>1, <2>2 DEF Queue
  <2>4. Tokens' = [Tokens EXCEPT ![n] = v] /\ Asleep' = Asleep
    <3>1. sems'[n].initialized /\ sems'[n].value = v
      BY <1>0, <2>1
    <3>2. v \in Nat
      BY ValuesAssumption
    <3>3. TokensOf(sems'[n]) = v
      BY <3>1, <3>2 DEF TokensOf
    <3> QED BY <1>2, <2>3, <3>3
  <2>5. Users(n) = {} /\ balance' = [balance EXCEPT ![n] = v]
    BY <1>5, <1>a, <2>2 DEF Open
  <2>6. Counting!Open(Caller, n, v)
    BY <1>5, <1>a, <1>b, <2>4, <2>5 DEF Counting!Open, Counting!Sets
  <2> QED BY <1>a, <2>6 DEF CountStep, Counting!Next
<1> QED BY <1>3, <1>4, <1>5 DEF SemOpenResult

\* sem_close() takes the tokens away with the last opening, and no sleeper.
LEMMA CloseCounts ==
  ASSUME ClientInv, ClientInv', QueuesSleep, QueuesSleep', NEW n \in SemNames, Close(n)
  PROVE  CountStep
<1>0. /\ sems' = SemClose(sems, n) /\ sems \in [SemNames -> SemType]
      /\ ClientTypeOK /\ ClientTypeOK' /\ sems[n].initialized
      /\ state' = state
  BY OpenedIsThere DEF Close, SysSemClose, schedVars, ClientInv, ClientTypeOK
<1>1. \A m \in SemNames \ {n} : sems'[m] = sems[m]
  BY <1>0 DEF SemClose
<1>2. /\ Tokens' = [Tokens EXCEPT ![n] = Tokens'[n]]
      /\ Asleep[n] = Queue(n)
      /\ Tokens[n] = TokensOf(sems[n]) /\ Tokens'[n] = TokensOf(sems'[n])
      /\ Tokens'[n] \in Nat
      /\ Tokens'[n] = Tokens[n] => Tokens' = Tokens
      /\ Queue(n)' = Queue(n) => Asleep' = Asleep
  BY <1>0, <1>1, OthersCount
<1>a. /\ Caller \in Procs /\ Caller \in Openers[n] \ Counting!Sleepers
      /\ Openers' = [Openers EXCEPT ![n] = @ \ {Caller}]
      /\ Openers[n] = Users(n) /\ Caller \in Users(n)
  BY <1>0, OpenersFacts, CallerIsAwake DEF Close, ClientInv
<1>b. sems[n].openings - 1 > 0 <=> Users(n) # {Caller}
  <2>1. sems[n].openings = Cardinality(Users(n))
    BY <1>0 DEF ClientInv, OpeningsAgree
  <2>2. IsFiniteSet(Users(n)) /\ Cardinality(Users(n)) \in Nat
    BY UsersFinite
  <2>3. Cardinality(Users(n)) # 0
    BY <1>a, UsersFinite
  <2>4. Cardinality(Users(n)) = 1 <=> \E x : Users(n) = {x}
    BY <2>2, FS_Singleton
  <2>5. (\E x : Users(n) = {x}) <=> Users(n) = {Caller}
    BY <1>a
  <2>c. PICK k : k = Cardinality(Users(n))
    OBVIOUS
  <2>6. k \in Nat /\ k # 0 /\ (k = 1 <=> Users(n) = {Caller})
    BY <2>2, <2>3, <2>4, <2>5, <2>c
  <2>7. k - 1 > 0 <=> k # 1
    BY <2>6
  <2> QED BY <2>1, <2>6, <2>7, <2>c
<1>3. CASE sems[n].openings - 1 > 0
  <2>1. sems' = [sems EXCEPT ![n].openings = sems[n].openings - 1]
    BY <1>0, <1>3 DEF SemClose
  <2>2. /\ sems'[n].initialized = sems[n].initialized
        /\ sems'[n].value = sems[n].value /\ sems'[n].blocked = sems[n].blocked
    BY <1>0, <2>1 DEF SemType
  <2>3. Tokens'[n] = Tokens[n] /\ Queue(n)' = Queue(n)
    BY <1>2, <2>2 DEF TokensOf, Queue
  <2>4. Users(n) # {Caller} /\ balance' = balance
    BY <1>3, <1>b DEF Close
  <2>5. Counting!Close(Caller, n)
    BY <1>2, <1>a, <2>3, <2>4 DEF Counting!Close
  <2> QED BY <1>a, <2>5 DEF CountStep, Counting!Next
<1>4. CASE ~(sems[n].openings - 1 > 0)
  <2>1. ~sems'[n].initialized
    BY <1>0, <1>4 DEF SemClose, SemType
  \* Who sleeps on n would be in no queue afterwards.
  <2>2. ASSUME NEW i \in Places(n)
        PROVE  FALSE
    <3> DEFINE p == sems[n].blocked[i]
    <3>1. p \in Procs /\ state[p] = "BLOCKED"
      BY <1>0 DEF ClientInv, QueuesHoldUsers, SleepersAreQueued
    <3>2. PICK m \in SemNames : /\ sems'[m].initialized
                               /\ \E j \in Places(m)' : sems'[m].blocked[j] = p
      BY <1>0, <3>1 DEF ClientInv, SleepersAreQueued, Places
    <3>3. m # n /\ sems'[m] = sems[m]
      BY <1>1, <2>1, <3>2
    <3>4. PICK j \in Places(m) : sems[m].blocked[j] = p
      BY <3>2, <3>3 DEF Places
    <3> QED BY <1>0, <3>2, <3>3, <3>4 DEF ClientInv, QueuedOnce
  <2>3. Queue(n) = <<>>
    <3>1. sems[n].blocked \in Seq(Slots)
      BY <1>0 DEF SemType
    <3>2. Len(sems[n].blocked) = 0
      BY <2>2, <3>1, LenProperties DEF Places
    <3> QED BY <3>1, <3>2, EmptySeq DEF Queue
  <2>4. Queue(n)' = <<>>
    BY <2>1 DEF Queue
  <2>5. Tokens' = [Tokens EXCEPT ![n] = 0] /\ Asleep' = Asleep
    BY <1>2, <2>1, <2>3, <2>4 DEF TokensOf
  <2>6. Users(n) = {Caller} /\ balance' = [balance EXCEPT ![n] = 0]
    BY <1>4, <1>b DEF Close
  <2>7. Counting!Close(Caller, n)
    BY <1>a, <2>5, <2>6 DEF Counting!Close, Counting!Sets
  <2> QED BY <1>a, <2>7 DEF CountStep, Counting!Next
<1> QED BY <1>3, <1>4

LEMMA CountStepHolds ==
  ASSUME ClientInv, ClientInv', QueuesSleep, QueuesSleep', [ClientNext]_clientVars
  PROVE  CountStep
<1>1. CASE Tick \/ UNCHANGED clientVars
  BY <1>1, NothingCounted DEF Tick, clientVars
<1>2. ASSUME NEW n \in SemNames, Wait(n) \/ Post(n)
      PROVE  CountStep
  BY <1>2, WaitCounts, PostCounts
<1>3. ASSUME NEW n \in SemNames, Close(n)
      PROVE  CountStep
  BY <1>3, CloseCounts
<1>4. ASSUME NEW n \in SemNames, NEW v \in Values, Open(n, v)
      PROVE  CountStep
  BY <1>4, OpenCounts
<1> QED BY <1>1, <1>2, <1>3, <1>4 DEF ClientNext

\* The semaphores of the kernel are counting semaphores: the first sem_open_init()
\* sets the tokens, every sem_wait() takes one or sleeps behind those that came
\* before, every sem_post() gives one or wakes the first up, and no later opening,
\* and no sem_close() but the last, touches a token or a sleeper.
THEOREM CountingImplemented == ClientSpec => ImplementsCounting
<1>1. ClientInit => Counting!Init
  <2> SUFFICES ASSUME ClientInit
               PROVE  Counting!Init
    OBVIOUS
  <2>1. sems = [n \in SemNames |-> NoSem] /\ ~NoSem.initialized
    BY DEF ClientInit, SemInit, NoSem
  <2>2. \A n \in SemNames : ~sems[n].initialized
    BY <2>1
  <2>3. \A n \in SemNames : TokensOf(sems[n]) = 0 /\ SleepingOn(n) = <<>>
    BY <2>2, EmptySeq DEF TokensOf, SleepingOn
  <2>4. balance = [n \in SemNames |-> 0] /\ \A n \in SemNames : Users(n) = {}
    BY DEF ClientInit, Users
  <2> QED BY <2>3, <2>4 DEF Counting!Init, Openers, Tokens, Asleep
<1>2. ClientInv => QueuesSleep
  BY SleepersAreTheQueue DEF QueuesSleep
<1>3. ClientInv /\ QueuesSleep /\ ClientInv' /\ QueuesSleep'
        /\ [ClientNext]_clientVars => [Counting!Next]_Counting!vars
  BY CountStepHolds DEF CountStep, Counting!vars
<1> QED BY <1>1, <1>2, <1>3, ClientInvHolds, PTL
        DEF ClientSpec, ImplementsCounting, Counting!Spec

=============================================================================
