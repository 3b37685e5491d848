----------------------------- MODULE TestProofs ------------------------------
(***************************************************************************)
(* What the test programs show, for any number of processes, increments    *)
(* and slots, over the whole of the scheduler, creation, exit and wait():  *)
(* that test-sync with a semaphore lets one process at a time into         *)
(* slowInc() and ends at zero; that test-sync and test-prio leave nobody   *)
(* in the table; and that test-pcs is right about its children.            *)
(*                                                                         *)
(* The invariant of test-sync counts: the openings of the semaphore are    *)
(* the processes between sem_open() and sem_close(), its value is one less *)
(* those between sem_wait() and sem_post(), and its queue is those of them *)
(* that sleep.  The slots are reused, so it also says that what is reused  *)
(* had exited, which is the invariant of wait() of ShellProofs.            *)
(*                                                                         *)
(* Whoever has been created is in the program's array until it is waited   *)
(* for: Due says from which place on.  The invariant of test-pcs adds that *)
(* the processes of its array are different ones and that each verdict is  *)
(* what the table says, with one block for each that is BLOCKED.           *)
(***************************************************************************)
EXTENDS TestPrograms, ShellProofs, SequenceTheorems

-----------------------------------------------------------------------------
(* One semaphore, the processes U that use it, H that hold it or queue for *)
(* it, and Z that sleep.                                                   *)

Exact(s, U, H, Z) ==
  /\ s.openings = Cardinality(U)
  /\ s.value = 1 - Cardinality(H)
  /\ Len(s.blocked) = Cardinality(Z)
  /\ Len(s.blocked) = IF s.value < 0 THEN -s.value ELSE 0
  /\ \A i \in 1 .. Len(s.blocked) : s.blocked[i] \in Z
  /\ \A i, j \in 1 .. Len(s.blocked) : s.blocked[i] = s.blocked[j] => i = j

Agrees(s, U, H, Z) ==
  /\ s \in SemType
  /\ Z \subseteq H /\ H \subseteq U /\ U \subseteq Programs
  /\ s.initialized <=> U # {}
  /\ s.initialized => Exact(s, U, H, Z)

LEMMA CountOthers ==
  ASSUME NEW S \in SUBSET Programs
  PROVE  /\ IsFiniteSet(S) /\ Cardinality(S) \in Nat
         /\ Cardinality(S) = 0 <=> S = {}
         /\ \A c \in Programs \ S : Cardinality(S \cup {c}) = Cardinality(S) + 1
         /\ \A c \in S : Cardinality(S \ {c}) = Cardinality(S) - 1
<1>1. IsFiniteSet(S) /\ Cardinality(S) \in Nat
  BY JobsFinite
<1>2. Cardinality(S) = 0 <=> S = {}
  BY <1>1, FS_EmptySet
<1>3. \A c \in Programs \ S : Cardinality(S \cup {c}) = Cardinality(S) + 1
  BY <1>1, FS_AddElement
<1>4. \A c \in S : Cardinality(S \ {c}) = Cardinality(S) - 1
  BY <1>1, FS_RemoveElement
<1> QED BY <1>1, <1>2, <1>3, <1>4

\* The fields of a table entry.
LEMMA EntryFacts ==
  ASSUME NEW s \in SemType
  PROVE  /\ s.initialized \in BOOLEAN /\ s.value \in Int /\ s.openings \in Int
         /\ s.blocked \in Seq(Slots) /\ Len(s.blocked) \in Nat
BY LenProperties DEF SemType

LEMMA EntrySets ==
  ASSUME NEW s \in SemType, NEW v \in Int, NEW o \in Int
  PROVE  /\ [s EXCEPT !.value = v] \in SemType
         /\ [s EXCEPT !.openings = o] \in SemType
         /\ [s EXCEPT !.initialized = FALSE, !.value = v, !.openings = o] \in SemType
         /\ [s EXCEPT !.value = v, !.blocked = s.blocked] = [s EXCEPT !.value = v]
BY DEF SemType

LEMMA OneMoreOpens ==
  ASSUME NEW s, NEW U, NEW H, NEW Z, Agrees(s, U, H, Z), s.initialized,
         NEW c \in Programs \ U, NEW t \in SemType,
         t = [s EXCEPT !.openings = s.openings + 1]
  PROVE  Agrees(t, U \cup {c}, H, Z)
<1>1. s \in SemType
  BY DEF Agrees
<1>2. /\ t.initialized /\ t.value = s.value /\ t.blocked = s.blocked
      /\ t.openings = s.openings + 1
  BY <1>1 DEF SemType
<1>3. Cardinality(U \cup {c}) = Cardinality(U) + 1
  BY CountOthers DEF Agrees
<1>4. Exact(t, U \cup {c}, H, Z)
  BY <1>2, <1>3 DEF Agrees, Exact
<1> QED BY <1>2, <1>4 DEF Agrees

LEMMA FirstOpens ==
  ASSUME NEW s, NEW U, NEW H, NEW Z, Agrees(s, U, H, Z), ~s.initialized,
         NEW c \in Programs, NEW t \in SemType,
         t = [initialized |-> TRUE, value |-> 1, openings |-> 1, blocked |-> <<>>]
  PROVE  Agrees(t, U \cup {c}, H, Z)
<1>1. U = {} /\ H = {} /\ Z = {}
  BY DEF Agrees
<1>2. Cardinality({c}) = 1 /\ Cardinality({}) = 0
  BY FS_Singleton, FS_EmptySet
<1>3. Exact(t, {c}, {}, {})
  BY <1>2 DEF Exact
<1> QED BY <1>1, <1>3 DEF Agrees

LEMMA OneTakes ==
  ASSUME NEW s, NEW U, NEW H, NEW Z, Agrees(s, U, H, Z),
         NEW c \in U \ H, NEW t \in SemType, s.value - 1 >= 0,
         t = [s EXCEPT !.value = s.value - 1]
  PROVE  Agrees(t, U, H \cup {c}, Z)
<1>1. s \in SemType /\ s.initialized /\ Exact(s, U, H, Z)
  BY DEF Agrees
<1>2. /\ t.initialized /\ t.value = s.value - 1 /\ t.blocked = s.blocked
      /\ t.openings = s.openings
  BY <1>1 DEF SemType
<1>3. /\ Cardinality(H \cup {c}) = Cardinality(H) + 1
      /\ Cardinality(H) \in Nat
  BY CountOthers DEF Agrees
<1>4. /\ s.value \in Int /\ Len(s.blocked) = 0
      /\ s.openings = Cardinality(U) /\ s.value = 1 - Cardinality(H)
      /\ Len(s.blocked) = Cardinality(Z)
  BY <1>1, EntryFacts DEF Exact
<1>5. t.value = 1 - (Cardinality(H) + 1) /\ ~(t.value < 0)
  BY <1>2, <1>3, <1>4
<1>6. Exact(t, U, H \cup {c}, Z)
  <2>1. t.value = 1 - Cardinality(H \cup {c})
    BY <1>3, <1>5
  <2>2. Len(t.blocked) = IF t.value < 0 THEN -t.value ELSE 0
    BY <1>2, <1>4, <1>5
  <2>3. /\ \A i \in 1 .. Len(t.blocked) : t.blocked[i] \in Z
        /\ \A i, j \in 1 .. Len(t.blocked) : t.blocked[i] = t.blocked[j] => i = j
    BY <1>1, <1>2 DEF Exact
  <2> QED BY <1>2, <1>4, <2>1, <2>2, <2>3 DEF Exact
<1> QED BY <1>1, <1>2, <1>6 DEF Agrees

LEMMA OneSleeps ==
  ASSUME NEW s, NEW U, NEW H, NEW Z, Agrees(s, U, H, Z),
         NEW c \in U \ H, NEW t \in SemType, s.value - 1 < 0,
         t = [s EXCEPT !.value = s.value - 1, !.blocked = Append(s.blocked, c)]
  PROVE  Agrees(t, U, H \cup {c}, Z \cup {c})
<1>1. s \in SemType /\ s.initialized /\ Exact(s, U, H, Z)
  BY DEF Agrees
<1> DEFINE b == s.blocked
           n == Len(b)
<1>2. /\ t.initialized /\ t.value = s.value - 1 /\ t.openings = s.openings
      /\ t.blocked = Append(b, c)
  BY <1>1 DEF SemType
<1>3. b \in Seq(Slots) /\ n \in Nat /\ c \in Slots
  BY <1>1, EntryFacts DEF Agrees, Programs
<1>4. /\ Len(Append(b, c)) = n + 1
      /\ \A i \in 1 .. n : Append(b, c)[i] = b[i]
      /\ Append(b, c)[n + 1] = c
  BY <1>3, AppendProperties
<1>5. /\ Cardinality(H \cup {c}) = Cardinality(H) + 1 /\ Cardinality(H) \in Nat
      /\ Cardinality(Z \cup {c}) = Cardinality(Z) + 1 /\ Cardinality(Z) \in Nat
  BY CountOthers DEF Agrees
<1>6. /\ n = Cardinality(Z) /\ n = IF s.value < 0 THEN -s.value ELSE 0
      /\ s.value = 1 - Cardinality(H) /\ s.openings = Cardinality(U)
      /\ \A i \in 1 .. n : b[i] \in Z /\ b[i] # c
      /\ \A i, j \in 1 .. n : b[i] = b[j] => i = j
  BY <1>1 DEF Exact, Agrees
<1> DEFINE e == Append(b, c)
<1> HIDE DEF b, n, e
<1>7. \A i \in 1 .. n + 1 : i \in 1 .. n \/ i = n + 1
  BY <1>3
<1>8. /\ \A i \in 1 .. n + 1 : e[i] \in Z \cup {c}
      /\ \A i, j \in 1 .. n + 1 : e[i] = e[j] => i = j
  BY <1>4, <1>6, <1>7 DEF e
<1>9. Len(e) = n + 1 /\ t.blocked = e
  BY <1>2, <1>4 DEF e
<1>10. n + 1 = IF s.value - 1 < 0 THEN -(s.value - 1) ELSE 0
  BY <1>1, <1>3, <1>6, EntryFacts
<1>11. Exact(t, U, H \cup {c}, Z \cup {c})
  BY <1>1, <1>2, <1>5, <1>6, <1>8, <1>9, <1>10, EntryFacts DEF Exact
<1> QED BY <1>1, <1>2, <1>11 DEF Agrees

LEMMA OneGives ==
  ASSUME NEW s, NEW U, NEW H, NEW Z, Agrees(s, U, H, Z),
         NEW c \in H \ Z, NEW t \in SemType,
         ~(s.value + 1 <= 0 /\ s.blocked # <<>>),
         t = [s EXCEPT !.value = s.value + 1]
  PROVE  Agrees(t, U, H \ {c}, Z)
<1>1. s \in SemType /\ s.initialized /\ Exact(s, U, H, Z)
  BY DEF Agrees
<1>2. /\ t.initialized /\ t.value = s.value + 1 /\ t.blocked = s.blocked
      /\ t.openings = s.openings
  BY <1>1 DEF SemType
<1>3. Cardinality(H \ {c}) = Cardinality(H) - 1 /\ Cardinality(H) \in Nat
  BY CountOthers DEF Agrees
<1>4. s.blocked = <<>> => Len(s.blocked) = 0
  OBVIOUS
<1>5. s.value >= 0 /\ Len(s.blocked) = 0
  BY <1>1, <1>4, EntryFacts DEF Exact
<1>6. Exact(t, U, H \ {c}, Z)
  BY <1>1, <1>2, <1>3, <1>5, EntryFacts DEF Exact
<1> QED BY <1>1, <1>2, <1>6 DEF Agrees

LEMMA OneWakes ==
  ASSUME NEW s, NEW U, NEW H, NEW Z, Agrees(s, U, H, Z),
         NEW c \in H \ Z, NEW t \in SemType,
         s.value + 1 <= 0, s.blocked # <<>>,
         t = [s EXCEPT !.value = s.value + 1, !.blocked = Tail(s.blocked)]
  PROVE  /\ Head(s.blocked) \in Z
         /\ Agrees(t, U, H \ {c}, Z \ {Head(s.blocked)})
<1>1. s \in SemType /\ s.initialized /\ Exact(s, U, H, Z)
  BY DEF Agrees
<1> DEFINE b == s.blocked
           n == Len(b)
           h == Head(b)
           e == Tail(b)
<1>2. /\ t.initialized /\ t.value = s.value + 1 /\ t.openings = s.openings
      /\ t.blocked = e
  BY <1>1 DEF SemType
<1>3. b \in Seq(Slots) /\ b # <<>>
  BY <1>1, EntryFacts
<1>4. /\ n \in Nat /\ n >= 1 /\ h = b[1] /\ Len(e) = n - 1
      /\ \A i \in 1 .. n - 1 : e[i] = b[i + 1]
  BY <1>3, HeadTailProperties, EmptySeq, LenProperties
<1>5. /\ n = Cardinality(Z) /\ n = IF s.value < 0 THEN -s.value ELSE 0
      /\ s.value = 1 - Cardinality(H) /\ s.openings = Cardinality(U)
      /\ \A i \in 1 .. n : b[i] \in Z
      /\ \A i, j \in 1 .. n : b[i] = b[j] => i = j
  BY <1>1 DEF Exact
<1> HIDE DEF b, n, h, e
<1>6. h \in Z
  BY <1>4, <1>5
<1>7. /\ Cardinality(H \ {c}) = Cardinality(H) - 1 /\ Cardinality(H) \in Nat
      /\ Cardinality(Z \ {h}) = Cardinality(Z) - 1
  BY <1>6, CountOthers DEF Agrees
<1>8. \A i \in 1 .. n - 1 : i + 1 \in 1 .. n /\ i + 1 # 1
  BY <1>4
<1>9. \A i \in 1 .. n - 1 : e[i] \in Z \ {h}
  BY <1>4, <1>5, <1>8
<1>10. ASSUME NEW i \in 1 .. n - 1, NEW j \in 1 .. n - 1, e[i] = e[j]
       PROVE  i = j
  <2>1. i + 1 = j + 1
    BY <1>4, <1>5, <1>8, <1>10
  <2> QED BY <1>4, <2>1
<1>11. n - 1 = IF s.value + 1 < 0 THEN -(s.value + 1) ELSE 0
  BY <1>1, <1>4, <1>5, EntryFacts DEF b
<1>12. Exact(t, U, H \ {c}, Z \ {h})
  <2>1. /\ t.openings = Cardinality(U) /\ t.value = 1 - Cardinality(H \ {c})
        /\ Len(t.blocked) = Cardinality(Z \ {h})
    BY <1>2, <1>4, <1>5, <1>7
  <2>2. Len(t.blocked) = IF t.value < 0 THEN -t.value ELSE 0
    BY <1>2, <1>4, <1>11
  <2>3. /\ \A i \in 1 .. Len(t.blocked) : t.blocked[i] \in Z \ {h}
        /\ \A i, j \in 1 .. Len(t.blocked) : t.blocked[i] = t.blocked[j] => i = j
    BY <1>2, <1>4, <1>9, <1>10
  <2> QED BY <2>1, <2>2, <2>3 DEF Exact
<1>13. Z \ {h} \subseteq H \ {c}
  BY DEF Agrees
<1> QED BY <1>1, <1>2, <1>6, <1>12, <1>13 DEF Agrees, h, b

\* The last one that closes leaves nobody asleep.
LEMMA OneCloses ==
  ASSUME NEW s, NEW U, NEW H, NEW Z, Agrees(s, U, H, Z),
         NEW c \in U \ H, NEW t \in SemType,
         t = IF s.openings - 1 > 0 THEN [s EXCEPT !.openings = s.openings - 1]
             ELSE [s EXCEPT !.initialized = FALSE, !.value = 0,
                            !.openings = s.openings - 1]
  PROVE  Agrees(t, U \ {c}, H, Z)
<1>1. s \in SemType /\ s.initialized /\ Exact(s, U, H, Z)
  BY DEF Agrees
<1>2. /\ Cardinality(U \ {c}) = Cardinality(U) - 1 /\ Cardinality(U) \in Nat
      /\ Cardinality(U \ {c}) = 0 <=> U \ {c} = {}
  BY CountOthers DEF Agrees
<1>3. s.openings = Cardinality(U) /\ s.openings \in Int /\ s.openings # 0
  <2>1. Cardinality(U) # 0
    BY CountOthers DEF Agrees
  <2> QED BY <1>1, <2>1, EntryFacts DEF Exact
<1>4. H \subseteq U \ {c} /\ Z \subseteq H /\ U \ {c} \subseteq Programs
  BY DEF Agrees
<1>5. CASE s.openings - 1 > 0
  <2>1. /\ t.initialized /\ t.value = s.value /\ t.blocked = s.blocked
        /\ t.openings = s.openings - 1
    BY <1>1, <1>5 DEF SemType
  <2>2. U \ {c} # {}
    BY <1>2, <1>3, <1>5
  <2>3. Exact(t, U \ {c}, H, Z)
    BY <1>1, <1>2, <2>1 DEF Exact
  <2> QED BY <1>4, <2>1, <2>2, <2>3 DEF Agrees
<1>6. CASE ~(s.openings - 1 > 0)
  <2>1. ~t.initialized
    BY <1>1, <1>6 DEF SemType
  <2>2. U \ {c} = {}
    BY <1>2, <1>3, <1>6
  <2> QED BY <1>4, <2>1, <2>2 DEF Agrees
<1> QED BY <1>5, <1>6

-----------------------------------------------------------------------------
(* What the calls that a test makes do to its processes.                   *)

\* A process that is neither created, nor ended, nor freed by a step.
Kept(p) == /\ Live(p)' <=> Live(p)
           /\ state'[p] = "INVALID" <=> state[p] = "INVALID"

\* Nor put to sleep or woken up.
Keeps(p) == /\ Kept(p)
            /\ state'[p] = "BLOCKED" <=> state[p] = "BLOCKED"
            /\ blocks_amount'[p] = blocks_amount[p]

Quiet == \A p \in Programs : Keeps(p)

\* No slot is taken by a step.
NoneMade == \A p \in Programs : state[p] = "INVALID" => state'[p] = "INVALID"

LEMMA MainFacts == /\ Main \in Slots /\ IDLE_PID \in Slots /\ Main # IDLE_PID
                   /\ Main \notin Programs /\ Programs = Slots \ {IDLE_PID, Main}
                   /\ NoPid \notin Slots
BY ShellIsNotIdle DEF Main, Programs

\* What the invariant of wait() is made of, from the scheduler's side.
LEMMA WaitKernel ==
  ASSUME WaitInv
  PROVE  /\ SchedInv /\ Settled(Kernel) /\ Coherent(Kernel) /\ IdleLives(Kernel)
         /\ Kernel.state = state /\ Kernel.blocks_amount = blocks_amount
         /\ Kernel.current_index = Caller /\ state[Caller] = "RUNNING"
BY RunnerFacts, SettledCoherent DEF WaitInv, ProcInv, Kernel

LEMMA PhasesKept ==
  ASSUME WaitInv, NEW r, KernelBecomes(r), Settled(r), Phases(r) = Phases(Kernel)
  PROVE  \A p \in Slots : Kept(p)
BY WaitKernel, SamePhases DEF Kept

LEMMA QuietStep ==
  ASSUME WaitInv, TableStays,
         NEW r, KernelBecomes(r), Settled(r), SameSleepers(Kernel, r)
  PROVE  WaitInv' /\ Quiet /\ \A p \in Slots : Kept(p)
<1>1. Phases(r) = Phases(Kernel) /\ IdleLives(r)
  BY WaitKernel, SleepersPhases
<1>2. \A p \in Slots \ {IDLE_PID} : Untouched(Kernel, r, p)
  BY DEF SameSleepers
<1>3. state' = r.state /\ blocks_amount' = r.blocks_amount
  BY KernelNext
<1>4. WaitInv'
  BY <1>1, <1>2, ShellIsNotIdle, PhasesWaits DEF TableStays
<1>5. \A p \in Slots : Kept(p)
  BY <1>1, PhasesKept
<1>6. Quiet
  BY <1>2, <1>3, <1>5, WaitKernel DEF Quiet, Keeps, Untouched, Programs
<1> QED BY <1>4, <1>5, <1>6

LEMMA NoKernelStep ==
  ASSUME WaitInv, TableStays, UNCHANGED schedVars
  PROVE  WaitInv' /\ Quiet /\ \A p \in Slots : Kept(p)
<1>1. KernelBecomes(Kernel) /\ SameSleepers(Kernel, Kernel)
  BY DEF schedVars, KernelBecomes, Kernel, SameSleepers, Untouched
<1> QED BY <1>1, WaitKernel, QuietStep

LEMMA TickQuiet ==
  ASSUME WaitInv, TableStays, TimerTick
  PROVE  WaitInv' /\ Quiet /\ \A p \in Slots : Kept(p)
BY WaitKernel, SchedulingFacts, SchedulingSleepers, QuietStep DEF TimerTick

\* A slot is given to a new process, or given back.
LEMMA SlotKeeps ==
  ASSUME WaitInv, NEW q \in Programs, ~Live(q), NEW r,
         r = FreeKernel(Kernel, q) \/ r = NewKernel(Kernel, q), KernelBecomes(r)
  PROVE  \A p \in Programs \ {q} : Keeps(p)
<1> SUFFICES ASSUME NEW p \in Programs \ {q}
             PROVE  Keeps(p)
  OBVIOUS
<1>1. q \in Slots /\ p \in Slots \ {q} /\ q # Kernel.current_index
  BY WaitKernel DEF Programs, Live
<1>2. r.state[p] = state[p] /\ r.blocks_amount[p] = blocks_amount[p]
  BY <1>1, WaitKernel, FreeKernelFacts, NewKernelFacts
<1>3. state' = r.state /\ blocks_amount' = r.blocks_amount
  BY DEF KernelBecomes
<1> QED BY <1>2, <1>3 DEF Keeps, Kept, Live

LEMMA SlotFreed ==
  ASSUME WaitInv, NEW q \in Programs, ~Live(q), KernelBecomes(FreeKernel(Kernel, q))
  PROVE  state'[q] = "INVALID"
<1>1. q \in Slots /\ q # Kernel.current_index
  BY WaitKernel DEF Programs, Live
<1> QED BY <1>1, WaitKernel, FreeKernelFacts DEF KernelBecomes

LEMMA CreateKeeps ==
  ASSUME WaitInv, OnlyShellCreates, SysCreate,
         NEW q, q = Least(FreeSlots(Kernel)), state'[q] = "READY"
  PROVE  /\ WaitInv' /\ waiting' = waiting
         /\ q \in Programs /\ ~Live(q) /\ blocks_amount'[q] = 0
         /\ \A p \in Programs \ {q} : Keeps(p)
<1>1. Caller = SHELL_PID /\ waiting' = waiting
  BY DEF SysCreate, OnlyShellCreates
<1>2. FreeSlots(Kernel) \in SUBSET Nat /\ FreeSlots(Kernel) # {}
  BY DEF SysCreate, FreeSlots, Slots
<1>3. q \in FreeSlots(Kernel)
  BY <1>2, LeastIsLeast
<1>4. KernelBecomes(NewKernel(Kernel, q)) \/ KernelBecomes(FreeKernel(Kernel, q))
  BY DEF SysCreate
<1>5. q \in Programs /\ ~Live(q)
  BY <1>1, <1>3, WaitKernel DEF FreeSlots, IdleLives, Programs, Live
<1>6. WaitInv'
  <2>1. ProcNext
    BY DEF ProcNext
  <2>2. ProcInv'
    BY <2>1, ProcNextInv DEF WaitInv
  <2> QED BY <1>1, <2>2, CreateWaits
<1>7. blocks_amount'[q] = 0
  <2>1. SchedInv' /\ q \in Slots \ {IDLE_PID}
    BY <1>5, <1>6 DEF WaitInv, ProcInv, Programs
  <2> QED BY <2>1 DEF SchedInv, Settled, Counted, Kernel
<1> QED BY <1>1, <1>4, <1>5, <1>6, <1>7, SlotKeeps

\* Whoever waits for the process that ends, it is Main, and goes on waiting for
\* it until it runs.
LEMMA KillKeeps ==
  ASSUME WaitInv, NEW c \in Programs, Kill(c)
  PROVE  /\ WaitInv' /\ waiting'[Main] = waiting[Main]
         /\ Live(c) /\ state'[c] = "ZOMBIE"
         /\ \A p \in Programs \ {c} : Keeps(p)
<1>1. c \in Slots \ {IDLE_PID} /\ c # SHELL_PID /\ Main \in Slots \ {IDLE_PID}
  BY MainFacts DEF Main
<1>2. Dying(Kernel, c) = {c}
  BY <1>1 DEF Dying
<1>3. WaitInv'
  <2>1. ProcInv'
    BY <1>1, KillInv DEF WaitInv
  <2> QED BY <1>1, <2>1, KillWaits
<1>4. /\ state'[c] = "ZOMBIE" /\ Live(c)
      /\ \A q \in Programs \ {c} : Untouched(Kernel, Kernel', q)
      /\ \/ state'[Main] \in {"READY", "RUNNING"}
         \/ Untouched(Kernel, Kernel', Main)
  BY <1>1, <1>2, KillStates DEF Programs, Main
<1>5. /\ Kernel'.state = state' /\ Kernel'.blocks_amount = blocks_amount'
      /\ Kernel.state = state /\ Kernel.blocks_amount = blocks_amount
  BY DEF Kernel
<1>6. ASSUME NEW p \in Programs \ {c}
      PROVE  Keeps(p)
  <2>1. p \in Slots /\ Untouched(Kernel, Kernel', p)
    BY <1>4 DEF Programs
  <2>2. state[p] \in ProcessState
    BY <2>1, PhaseOfSlot, WaitKernel
  <2> QED BY <1>5, <2>1, <2>2 DEF Keeps, Kept, Untouched, Live, ProcessState
<1>7. waiting'[Main] = IF state'[Main] = "ZOMBIE" THEN NoPid ELSE waiting[Main]
  BY <1>1 DEF Kill
<1>8. waiting[Main] # NoPid => state'[Main] # "ZOMBIE"
  <2> SUFFICES ASSUME waiting[Main] # NoPid
               PROVE  state'[Main] # "ZOMBIE"
    OBVIOUS
  <2>1. state[Main] \in {"BLOCKED", "READY", "RUNNING"}
    BY DEF WaitInv, Awaits, Main
  <2> QED BY <1>4, <1>5, <2>1 DEF Untouched
<1> QED BY <1>3, <1>4, <1>6, <1>7, <1>8

LEMMA WaitKeeps ==
  ASSUME WaitInv, Caller = Main, NEW q, SysWait(q)
  PROVE  /\ WaitInv'
         /\ \/ /\ q \in Programs /\ ~Live(q)
               /\ state'[q] = "INVALID" /\ waiting' = waiting
               /\ \A p \in Programs \ {q} : Keeps(p)
            \/ Live(q) /\ Quiet /\ waiting'[Main] = q
<1>1. q \in Slots /\ q # Main /\ state[q] # "INVALID"
  BY DEF SysWait, IsPidValid, Kernel
<1>2. WaitInv'
  <2>1. ProcNext
    BY <1>1 DEF ProcNext
  <2>2. ProcInv'
    BY <2>1, ProcNextInv DEF WaitInv
  <2> QED BY <1>1, <2>2, SysWaitWaits
<1>3. CASE state[q] = "ZOMBIE"
  <2>1. KernelBecomes(FreeKernel(Kernel, q)) /\ waiting' = waiting /\ ~Live(q)
    BY <1>3 DEF SysWait, Live
  <2>2. q \in Programs
    BY <1>1, <1>3, WaitKernel DEF IdleLives, Programs, Main
  <2> QED BY <1>2, <2>1, <2>2, SlotKeeps, SlotFreed
<1>4. CASE state[q] # "ZOMBIE"
  <2> DEFINE r == BlockProcess(Kernel, Main)
  <2>1. KernelBecomes(r) /\ waiting' = [waiting EXCEPT ![Main] = q]
    BY <1>4 DEF SysWait
  <2>2. /\ Settled(r) /\ Phases(r) = Phases(Kernel)
        /\ \A p \in Slots \ {Main, IDLE_PID} : Untouched(Kernel, r, p)
    BY MainFacts, WaitKernel, BlockPhases
  <2> HIDE DEF r
  <2>3. \A p \in Slots : Kept(p)
    BY <2>1, <2>2, PhasesKept
  <2>4. state' = r.state /\ blocks_amount' = r.blocks_amount
    BY <2>1, <2>2, KernelNext
  <2>5. Quiet
    BY <2>2, <2>3, <2>4, WaitKernel, MainFacts DEF Quiet, Keeps, Untouched
  <2>6. waiting'[Main] = q
    BY <2>1, MainFacts DEF WaitInv, ProcInv
  <2>7. Live(q)
    BY <1>1, <1>4, WaitKernel, PhaseOfSlot DEF Live, ProcessState
  <2> QED BY <1>2, <2>5, <2>6, <2>7
<1> QED BY <1>3, <1>4

LEMMA ReturnKeeps ==
  ASSUME WaitInv, WaitReturns, NEW q, q = waiting[Main]
  PROVE  /\ WaitInv' /\ q \in Programs
         /\ ~Live(q) /\ state'[q] = "INVALID" /\ waiting'[Main] = NoPid
         /\ \A p \in Programs \ {q} : Keeps(p)
<1>1. Caller = SHELL_PID /\ q \in Programs /\ state[q] = "ZOMBIE"
  BY ReturnFacts DEF Main
<1>2. /\ KernelBecomes(FreeKernel(Kernel, q)) /\ ~Live(q)
      /\ waiting' = [waiting EXCEPT ![Main] = NoPid, ![q] = NoPid]
  BY <1>1 DEF WaitReturns, Live, Main
<1>3. WaitInv'
  <2>1. ProcNext
    BY DEF ProcNext
  <2>2. ProcInv'
    BY <2>1, ProcNextInv DEF WaitInv
  <2> QED BY <2>2, ReturnWaits
<1>4. waiting'[Main] = NoPid
  BY <1>1, <1>2, MainFacts DEF WaitInv, ProcInv
<1> QED BY <1>1, <1>2, <1>3, <1>4, SlotKeeps, SlotFreed

-----------------------------------------------------------------------------
(* The processes of test-sync.                                             *)

HoldLabels == {"read", "yield", "write", "leave"}
UseLabels == HoldLabels \cup {"enter", "close"}
WorkerLabels == UseLabels \cup {"open", "exit"}
MainLabels == {"create", "wait", "print"}

Users == {p \in Programs : Live(p) /\ pc[p] \in UseLabels}
Holders == {p \in Programs : Live(p) /\ pc[p] \in HoldLabels}
Sleepers == {p \in Programs : state[p] = "BLOCKED"}

\* Where the processes are; who sleeps does so in sem_wait() and is blocked once.
Control ==
  /\ pc \in [Slots -> WorkerLabels \cup MainLabels \cup {"gone"}]
  /\ pc[Main] \in MainLabels /\ pc[IDLE_PID] = "gone"
  /\ \A p \in Programs : Live(p) => pc[p] \in WorkerLabels
  /\ \A p \in Sleepers : pc[p] = "read" /\ blocks_amount[p] = 1

SemsInv ==
  /\ sems \in [SemNames -> SemType]
  /\ \A n \in SemNames \ {SEM_ID} : ~sems[n].initialized
  /\ Agrees(sems[SEM_ID], Users, Holders, Sleepers)

SyncInv == WaitInv /\ Control /\ SemsInv

LEMMA AtFacts ==
  ASSUME SyncInv, NEW l, At(l)
  PROVE  /\ Caller \in Slots \ {IDLE_PID} /\ state[Caller] = "RUNNING"
         /\ GetPid(Kernel) = Caller /\ Kernel.current_index = Caller
         /\ pc[Caller] = l /\ waiting[Caller] = NoPid
         /\ l \in WorkerLabels => /\ Caller \in Programs /\ Live(Caller)
                                  /\ Caller \notin Sleepers
         /\ l \in MainLabels => Caller = Main
<1>1. SchedInv
  BY DEF SyncInv, WaitInv, ProcInv
<1>2. /\ Caller \in Slots \ {IDLE_PID} /\ state[Caller] = "RUNNING"
      /\ GetPid(Kernel) = Caller /\ Kernel.current_index = Caller
      /\ pc[Caller] = l
  BY <1>1, RunnerFacts DEF At, UserRuns
<1>3. waiting[Caller] = NoPid
  BY DEF At, InWait, UserRuns
<1>4. Caller = Main \/ Caller \in Programs
  BY <1>2 DEF Main, Programs
<1>5. l \in WorkerLabels => l \notin MainLabels
  BY DEF WorkerLabels, UseLabels, HoldLabels, MainLabels
<1>6. pc[Main] \in MainLabels /\ \A p \in Programs : Live(p) => pc[p] \in WorkerLabels
  BY DEF SyncInv, Control
<1>7. Live(Caller)
  BY <1>2 DEF Live
<1>8. Caller \notin Sleepers
  BY <1>2 DEF Sleepers
<1> QED BY <1>2, <1>3, <1>4, <1>5, <1>6, <1>7, <1>8

\* A worker goes to its next label.
LEMMA WorkerGoes ==
  ASSUME SyncInv, NEW c \in Programs, Live(c), NEW l \in WorkerLabels, Goto(c, l),
         \A p \in Programs : Kept(p),
         \A p \in Programs : state'[p] = "BLOCKED" =>
           /\ blocks_amount'[p] = 1
           /\ IF p = c THEN l = "read" ELSE state[p] = "BLOCKED"
  PROVE  /\ Control'
         /\ Users' = IF l \in UseLabels THEN Users \cup {c} ELSE Users \ {c}
         /\ Holders' = IF l \in HoldLabels THEN Holders \cup {c} ELSE Holders \ {c}
<1>1. c \in Slots /\ c # Main
  BY DEF Programs, Main
<1>2. /\ pc' \in [Slots -> WorkerLabels \cup MainLabels \cup {"gone"}]
      /\ pc'[c] = l /\ \A p \in Slots \ {c} : pc'[p] = pc[p]
  BY <1>1 DEF SyncInv, Control, Goto
<1>3. Main \in Slots
  BY ShellIsNotIdle DEF Main
<1>4. \A p \in Programs : p \in Slots /\ (Live(p)' <=> Live(p))
  BY DEF Programs, Kept
<1>5. pc'[Main] \in MainLabels /\ pc'[IDLE_PID] = "gone"
  BY <1>1, <1>2, <1>3, ShellIsNotIdle DEF SyncInv, Control, Programs
<1>6. \A p \in Programs : Live(p)' => pc'[p] \in WorkerLabels
  BY <1>2, <1>4 DEF SyncInv, Control
<1>7. \A p \in Programs : state'[p] = "BLOCKED" => pc'[p] = "read" /\ blocks_amount'[p] = 1
  BY <1>2, <1>4 DEF SyncInv, Control, Sleepers
<1>8. Control'
  BY <1>2, <1>5, <1>6, <1>7 DEF Control, Sleepers
<1>9. Users' = IF l \in UseLabels THEN Users \cup {c} ELSE Users \ {c}
  BY <1>2, <1>4 DEF Users
<1>10. Holders' = IF l \in HoldLabels THEN Holders \cup {c} ELSE Holders \ {c}
  BY <1>2, <1>4 DEF Holders
<1> QED BY <1>8, <1>9, <1>10

LEMMA QuietGoes ==
  ASSUME SyncInv, NEW c \in Programs, Live(c), c \notin Sleepers,
         NEW l \in WorkerLabels, Goto(c, l), Quiet
  PROVE  /\ Control'
         /\ Users' = IF l \in UseLabels THEN Users \cup {c} ELSE Users \ {c}
         /\ Holders' = IF l \in HoldLabels THEN Holders \cup {c} ELSE Holders \ {c}
         /\ Sleepers' = Sleepers
<1>1. Sleepers' = Sleepers
  BY DEF Quiet, Keeps, Sleepers
<1>2. \A p \in Programs : state'[p] = "BLOCKED" =>
        /\ blocks_amount'[p] = 1
        /\ IF p = c THEN l = "read" ELSE state[p] = "BLOCKED"
  BY DEF Quiet, Keeps, Sleepers, SyncInv, Control
<1> QED BY <1>1, <1>2, WorkerGoes DEF Quiet, Keeps

\* The table of semaphores after a call that changes the entry of SEM_ID.
LEMMA EntrySet ==
  ASSUME SyncInv, NEW t \in SemType, sems' = [sems EXCEPT ![SEM_ID] = t],
         Agrees(t, Users', Holders', Sleepers')
  PROVE  SemsInv'
BY SyncAssumption DEF SyncInv, SemsInv

LEMMA SemsStay ==
  ASSUME SyncInv, SemStays, Users' = Users, Holders' = Holders, Sleepers' = Sleepers
  PROVE  SemsInv'
BY DEF SyncInv, SemsInv, SemStays

LEMMA SemFacts ==
  ASSUME SyncInv
  PROVE  /\ sems \in [SemNames -> SemType] /\ SEM_ID \in SemNames
         /\ sems[SEM_ID] \in SemType
         /\ Agrees(sems[SEM_ID], Users, Holders, Sleepers)
BY SyncAssumption DEF SyncInv, SemsInv

LEMMA LabelFacts ==
  ASSUME SyncInv, NEW p \in Programs, Live(p)
  PROVE  /\ pc[p] \in UseLabels <=> p \in Users
         /\ pc[p] \in HoldLabels <=> p \in Holders
BY DEF Users, Holders

-----------------------------------------------------------------------------
(* The steps of a worker.                                                  *)

LEMMA OpensInv ==
  ASSUME SyncInv, WorkerOpens
  PROVE  SyncInv'
<1> DEFINE c == Caller
           s == sems[SEM_ID]
           l == IF SemOpenResult(sems, SEM_ID) = -2 THEN "exit" ELSE "enter"
<1>1. c \in Programs /\ Live(c) /\ c \notin Sleepers /\ pc[c] = "open"
  BY AtFacts DEF WorkerOpens, WorkerLabels
<1>2. /\ sems' = SemOpen(sems, SEM_ID, 1) /\ Goto(c, l)
      /\ WaitInv' /\ Quiet
  BY NoKernelStep DEF SyncInv, WorkerOpens, SysSemOpen
<1>3. c \notin Users /\ c \notin Holders
  BY <1>1 DEF Users, Holders, UseLabels, HoldLabels
<1>4. Control' /\ Sleepers' = Sleepers /\ Holders' = Holders
      /\ Users' = IF l = "enter" THEN Users \cup {c} ELSE Users
  <2>1. l \in WorkerLabels /\ l \notin HoldLabels /\ (l \in UseLabels <=> l = "enter")
    BY DEF WorkerLabels, UseLabels, HoldLabels
  <2> HIDE DEF l, c
  <2> QED BY <1>1, <1>2, <1>3, <2>1, QuietGoes
<1>5. SemOpenResult(sems, SEM_ID) \in {0, -1, -2}
  BY DEF SemOpenResult
<1>6. s \in SemType /\ Agrees(s, Users, Holders, Sleepers)
  BY SemFacts
<1>7. CASE SemOpenResult(sems, SEM_ID) = 0
  <2> DEFINE t == [initialized |-> TRUE, value |-> 1, openings |-> 1, blocked |-> <<>>]
  <2>1. sems' = [sems EXCEPT ![SEM_ID] = t] /\ l = "enter" /\ ~s.initialized
    BY <1>2, <1>7 DEF SemOpen, SemOpenResult
  <2>2. t \in SemType
    BY EmptySeq DEF SemType
  <2> HIDE DEF l, c
  <2>3. Agrees(t, Users \cup {c}, Holders, Sleepers)
    BY <1>1, <1>6, <2>1, <2>2, FirstOpens
  <2> HIDE DEF t
  <2> QED BY <1>2, <1>4, <2>1, <2>2, <2>3, EntrySet DEF SyncInv
<1>8. CASE SemOpenResult(sems, SEM_ID) = -1
  <2> DEFINE t == [s EXCEPT !.openings = s.openings + 1]
  <2>1. /\ sems' = [sems EXCEPT ![SEM_ID].openings = @ + 1]
        /\ l = "enter" /\ s.initialized
    BY <1>2, <1>8 DEF SemOpen, SemOpenResult
  <2>2. t \in SemType
    BY <1>6, EntryFacts DEF SemType
  <2>3. sems' = [sems EXCEPT ![SEM_ID] = t]
    BY <2>1, SemFacts
  <2>4. c \in Programs \ Users
    BY <1>1, <1>3
  <2> HIDE DEF l, c
  <2>5. Agrees(t, Users \cup {c}, Holders, Sleepers)
    BY <1>6, <2>1, <2>2, <2>4, OneMoreOpens
  <2> HIDE DEF t
  <2> QED BY <1>2, <1>4, <2>1, <2>2, <2>3, <2>5, EntrySet DEF SyncInv
<1>9. CASE SemOpenResult(sems, SEM_ID) = -2
  <2>1. SemStays /\ Users' = Users
    BY <1>2, <1>4, <1>9 DEF SemOpen, SemStays
  <2> QED BY <1>2, <1>4, <2>1, SemsStay DEF SyncInv
<1> QED BY <1>5, <1>7, <1>8, <1>9

\* sem_wait() with a token left, and without one.
LEMMA EntersInv ==
  ASSUME SyncInv, WorkerEnters
  PROVE  SyncInv'
<1> DEFINE c == Caller
           s == sems[SEM_ID]
<1>1. /\ c \in Programs /\ Live(c) /\ c \notin Sleepers /\ pc[c] = "enter"
      /\ state[c] = "RUNNING" /\ GetPid(Kernel) = c /\ Kernel.current_index = c
      /\ c # IDLE_PID /\ c # SHELL_PID
  BY AtFacts DEF WorkerEnters, WorkerLabels, UseLabels, Programs
<1>2. s \in SemType /\ Agrees(s, Users, Holders, Sleepers) /\ sems \in [SemNames -> SemType]
  BY SemFacts
<1>3. c \in Users /\ c \notin Holders
  BY <1>1 DEF Users, Holders, UseLabels, HoldLabels
<1>4. s.initialized /\ s.value \in Int /\ s.blocked \in Seq(Slots)
  BY <1>2, <1>3, EntryFacts DEF Agrees
<1>5. /\ TableStays /\ Goto(c, "read")
      /\ sems' = SemWaitTable(Kernel, sems, SEM_ID)
      /\ KernelBecomes(SemWaitKernel(Kernel, sems, SEM_ID))
  BY <1>4 DEF WorkerEnters, SysSemWait
<1>6. "read" \in WorkerLabels /\ "read" \in UseLabels /\ "read" \in HoldLabels
  BY DEF WorkerLabels, UseLabels, HoldLabels
<1>7. Users \cup {c} = Users
  BY <1>3
<1>8. CASE ~MustSleep(sems, SEM_ID)
  <2> DEFINE t == [s EXCEPT !.value = s.value - 1]
  <2>1. UNCHANGED schedVars
    BY <1>5, <1>8 DEF SemWaitKernel, KernelBecomes, Kernel, schedVars
  <2>2. WaitInv' /\ Quiet
    BY <1>5, <2>1, NoKernelStep DEF SyncInv
  <2>3. sems' = [sems EXCEPT ![SEM_ID] = t] /\ s.value - 1 >= 0
    <3>1. s.value - 1 >= 0
      BY <1>4, <1>8 DEF MustSleep
    <3>2. sems' = [sems EXCEPT ![SEM_ID] = [s EXCEPT !.value = s.value - 1,
                                                     !.blocked = s.blocked]]
      BY <1>4, <1>5, <1>8, SemFacts DEF SemWaitTable
    <3>3. [s EXCEPT !.value = s.value - 1, !.blocked = s.blocked] = t
      <4>1. s.value - 1 \in Int
        BY <1>4
      <4> HIDE DEF s
      <4> QED BY <1>2, <4>1, EntrySets
    <3> QED BY <3>1, <3>2, <3>3
  <2>4. t \in SemType
    <3>1. s.value - 1 \in Int
      BY <1>4
    <3> HIDE DEF s
    <3> QED BY <1>2, <3>1, EntrySets
  <2> HIDE DEF c
  <2>5. /\ Control' /\ Users' = Users /\ Holders' = Holders \cup {c}
        /\ Sleepers' = Sleepers
    BY <1>1, <1>5, <1>6, <1>7, <2>2, QuietGoes
  <2>6. Agrees(t, Users, Holders \cup {c}, Sleepers)
    BY <1>2, <1>3, <2>3, <2>4, OneTakes
  <2> HIDE DEF t
  <2> QED BY <2>2, <2>3, <2>4, <2>5, <2>6, EntrySet DEF SyncInv
<1>9. CASE MustSleep(sems, SEM_ID)
  <2> DEFINE t == [s EXCEPT !.value = s.value - 1, !.blocked = Append(s.blocked, c)]
             r == BlockProcess(Kernel, c)
  <2>1. KernelBecomes(r)
    BY <1>1, <1>5, <1>9 DEF SemWaitKernel
  <2>2. c \in Slots /\ SHELL_PID \in Slots \ {c, IDLE_PID}
    BY <1>1, ShellIsNotIdle DEF Programs
  <2>3. /\ Settled(r) /\ IdleLives(r) /\ Phases(r) = Phases(Kernel)
        /\ \A q \in Slots \ {c, IDLE_PID} : Untouched(Kernel, r, q)
    BY <2>2, WaitKernel, BlockPhases DEF SyncInv
  <2>4. r.state[c] = "BLOCKED" /\ r.blocks_amount[c] = 1
    BY <1>1, WaitKernel, BlockSelf DEF SyncInv
  <2>5. sems' = [sems EXCEPT ![SEM_ID] = t] /\ s.value - 1 < 0
    BY <1>1, <1>2, <1>4, <1>5, <1>9, SemFacts DEF SemWaitTable, MustSleep
  <2>6. t \in SemType
    <3>1. Append(s.blocked, c) \in Seq(Slots) /\ s.value - 1 \in Int
      BY <1>4, <2>2, AppendProperties
    <3> QED BY <1>2, <3>1 DEF SemType
  <2> HIDE DEF c, r
  <2>7. state' = r.state /\ blocks_amount' = r.blocks_amount
    BY <2>1, <2>3, KernelNext
  <2>8. \A p \in Slots : Kept(p)
    BY <2>1, <2>3, PhasesKept DEF SyncInv
  <2>9. WaitInv'
    BY <1>5, <2>1, <2>2, <2>3, WaitKernel, PhasesWaits DEF SyncInv, TableStays
  <2>10. \A p \in Programs \ {c} : /\ state'[p] = "BLOCKED" <=> state[p] = "BLOCKED"
                                 /\ blocks_amount'[p] = blocks_amount[p]
    BY <2>3, <2>7, WaitKernel DEF SyncInv, Untouched, Programs
  <2>11. Sleepers' = Sleepers \cup {c}
    BY <1>1, <2>4, <2>7, <2>10 DEF Sleepers
  <2>12. \A p \in Programs : state'[p] = "BLOCKED" =>
           /\ blocks_amount'[p] = 1
           /\ IF p = c THEN "read" = "read" ELSE state[p] = "BLOCKED"
    BY <2>4, <2>7, <2>10 DEF SyncInv, Control, Sleepers
  <2>13. Control' /\ Users' = Users /\ Holders' = Holders \cup {c}
    BY <1>1, <1>5, <1>6, <1>7, <2>8, <2>12, WorkerGoes DEF Programs
  <2>14. Agrees(t, Users, Holders \cup {c}, Sleepers \cup {c})
    BY <1>2, <1>3, <2>5, <2>6, OneSleeps
  <2> HIDE DEF t
  <2> QED BY <2>5, <2>6, <2>9, <2>11, <2>13, <2>14, EntrySet DEF SyncInv
<1> QED BY <1>8, <1>9

\* sem_post() gives the token back, or to the first that sleeps.
LEMMA LeavesInv ==
  ASSUME SyncInv, WorkerLeaves
  PROVE  SyncInv'
<1> DEFINE c == Caller
           s == sems[SEM_ID]
           l == IF done[c] < LOOPS THEN "enter" ELSE "close"
<1>1. /\ c \in Programs /\ Live(c) /\ c \notin Sleepers /\ pc[c] = "leave"
      /\ state[c] = "RUNNING"
  BY AtFacts DEF WorkerLeaves, WorkerLabels, UseLabels, HoldLabels
<1>2. s \in SemType /\ Agrees(s, Users, Holders, Sleepers) /\ sems \in [SemNames -> SemType]
  BY SemFacts
<1>3. c \in Users /\ c \in Holders
  BY <1>1 DEF Users, Holders, UseLabels, HoldLabels
<1>4. s.initialized /\ s.value \in Int /\ s.blocked \in Seq(Slots)
  BY <1>2, <1>3, EntryFacts DEF Agrees
<1>5. /\ TableStays /\ Goto(c, l)
      /\ sems' = SemPostTable(sems, SEM_ID)
      /\ KernelBecomes(SemPostKernel(Kernel, sems, SEM_ID))
  BY <1>4 DEF WorkerLeaves, SysSemPost
<1>6. l \in WorkerLabels /\ l \in UseLabels /\ l \notin HoldLabels
  BY DEF WorkerLabels, UseLabels, HoldLabels
<1>7. Users \cup {c} = Users
  BY <1>3
<1> HIDE DEF l
<1>8. CASE ~MustWake(sems, SEM_ID)
  <2> DEFINE t == [s EXCEPT !.value = s.value + 1]
  <2>1. UNCHANGED schedVars
    BY <1>5, <1>8 DEF SemPostKernel, KernelBecomes, Kernel, schedVars
  <2>2. WaitInv' /\ Quiet
    BY <1>5, <2>1, NoKernelStep DEF SyncInv
  <2>3. sems' = [sems EXCEPT ![SEM_ID] = t] /\ ~(s.value + 1 <= 0 /\ s.blocked # <<>>)
    BY <1>2, <1>4, <1>5, <1>8, SemFacts DEF SemPostTable, MustWake
  <2>4. t \in SemType
    <3>1. s.value + 1 \in Int
      BY <1>4
    <3> HIDE DEF s
    <3> QED BY <1>2, <3>1, EntrySets
  <2> HIDE DEF c
  <2>5. /\ Control' /\ Users' = Users /\ Holders' = Holders \ {c}
        /\ Sleepers' = Sleepers
    BY <1>1, <1>5, <1>6, <1>7, <2>2, QuietGoes
  <2>6. Agrees(t, Users, Holders \ {c}, Sleepers)
    BY <1>1, <1>2, <1>3, <2>3, <2>4, OneGives
  <2> HIDE DEF t
  <2> QED BY <2>2, <2>3, <2>4, <2>5, <2>6, EntrySet DEF SyncInv
<1>9. CASE MustWake(sems, SEM_ID)
  <2> DEFINE t == [s EXCEPT !.value = s.value + 1, !.blocked = Tail(s.blocked)]
             h == Head(s.blocked)
             r == UnblockProcess(Kernel, h)
  <2>1. KernelBecomes(r)
    BY <1>5, <1>9 DEF SemPostKernel
  <2>2. sems' = [sems EXCEPT ![SEM_ID] = t] /\ s.value + 1 <= 0 /\ s.blocked # <<>>
    BY <1>2, <1>4, <1>5, <1>9, SemFacts DEF SemPostTable, MustWake
  <2>3. t \in SemType
    <3>1. Tail(s.blocked) \in Seq(Slots) /\ s.value + 1 \in Int
      BY <1>4, <2>2, HeadTailProperties
    <3> QED BY <1>2, <3>1 DEF SemType
  <2> HIDE DEF c
  <2>4. h \in Sleepers /\ Agrees(t, Users, Holders \ {c}, Sleepers \ {h})
    BY <1>1, <1>2, <1>3, <2>2, <2>3, OneWakes
  <2> HIDE DEF t, h
  <2>5. /\ h \in Programs /\ h \in Slots /\ SHELL_PID \in Slots \ {h}
        /\ state[h] = "BLOCKED" /\ blocks_amount[h] = 1 /\ h # c
    BY <1>1, <2>4, ShellIsNotIdle DEF Sleepers, SyncInv, Control, Programs
  <2>6. /\ Settled(r) /\ IdleLives(r) /\ Phases(r) = Phases(Kernel)
        /\ \A q \in Slots \ {h} : Untouched(Kernel, r, q)
    BY <2>5, WaitKernel, UnblockPhases DEF SyncInv
  <2>7. r.state[h] = "READY"
    <3>1. Kernel \in KernelType /\ Counted(Kernel)
      BY WaitKernel DEF SyncInv, Settled
    <3>2. Kernel.state[h] = "BLOCKED" /\ ~(Kernel.blocks_amount[h] > 1)
      BY <2>5, WaitKernel DEF SyncInv
    <3> QED BY <2>5, <3>1, <3>2, UnblockProcessFacts
  <2> HIDE DEF r
  <2>8. state' = r.state /\ blocks_amount' = r.blocks_amount
    BY <2>1, <2>6, KernelNext
  <2>9. \A p \in Slots : Kept(p)
    BY <2>1, <2>6, PhasesKept DEF SyncInv
  <2>10. WaitInv'
    BY <1>5, <2>1, <2>5, <2>6, WaitKernel, PhasesWaits DEF SyncInv, TableStays
  <2>11. \A p \in Programs \ {h} : /\ state'[p] = "BLOCKED" <=> state[p] = "BLOCKED"
                                 /\ blocks_amount'[p] = blocks_amount[p]
    BY <2>6, <2>8, WaitKernel DEF SyncInv, Untouched, Programs
  <2>12. Sleepers' = Sleepers \ {h}
    BY <2>7, <2>8, <2>11 DEF Sleepers
  <2>13. \A p \in Programs : state'[p] = "BLOCKED" =>
           /\ blocks_amount'[p] = 1
           /\ IF p = c THEN l = "read" ELSE state[p] = "BLOCKED"
    BY <1>1, <2>5, <2>7, <2>8, <2>11 DEF SyncInv, Control, Sleepers
  <2>14. Control' /\ Users' = Users /\ Holders' = Holders \ {c}
    BY <1>1, <1>5, <1>6, <1>7, <2>9, <2>13, WorkerGoes DEF Programs
  <2> QED BY <2>2, <2>3, <2>4, <2>10, <2>12, <2>14, EntrySet DEF SyncInv, t
<1> QED BY <1>8, <1>9

LEMMA ClosesInv ==
  ASSUME SyncInv, WorkerCloses
  PROVE  SyncInv'
<1> DEFINE c == Caller
           s == sems[SEM_ID]
           t == IF s.openings - 1 > 0 THEN [s EXCEPT !.openings = s.openings - 1]
                ELSE [s EXCEPT !.initialized = FALSE, !.value = 0,
                               !.openings = s.openings - 1]
<1>1. c \in Programs /\ Live(c) /\ c \notin Sleepers /\ pc[c] = "close"
  BY AtFacts DEF WorkerCloses, WorkerLabels, UseLabels
<1>2. s \in SemType /\ Agrees(s, Users, Holders, Sleepers) /\ sems \in [SemNames -> SemType]
  BY SemFacts
<1>3. c \in Users /\ c \notin Holders
  BY <1>1 DEF Users, Holders, UseLabels, HoldLabels
<1>4. s.initialized /\ s.openings \in Int
  BY <1>2, <1>3, EntryFacts DEF Agrees
<1>5. Goto(c, "exit") /\ sems' = SemClose(sems, SEM_ID) /\ WaitInv' /\ Quiet
  BY NoKernelStep DEF SyncInv, WorkerCloses, SysSemClose
<1>6. sems' = [sems EXCEPT ![SEM_ID] = t]
  BY <1>2, <1>4, <1>5, SemFacts DEF SemClose
<1>7. t \in SemType
  <2>1. s.openings - 1 \in Int /\ 0 \in Int
    BY <1>4
  <2> HIDE DEF s
  <2> QED BY <1>2, <2>1, EntrySets
<1>8. "exit" \in WorkerLabels /\ "exit" \notin UseLabels /\ "exit" \notin HoldLabels
  BY DEF WorkerLabels, UseLabels, HoldLabels
<1> HIDE DEF c, t
<1>9. /\ Control' /\ Users' = Users \ {c} /\ Holders' = Holders
      /\ Sleepers' = Sleepers
  BY <1>1, <1>3, <1>5, <1>8, QuietGoes
<1>10. Agrees(t, Users \ {c}, Holders, Sleepers)
  <2>1. t = IF s.openings - 1 > 0 THEN [s EXCEPT !.openings = s.openings - 1]
            ELSE [s EXCEPT !.initialized = FALSE, !.value = 0,
                           !.openings = s.openings - 1]
    BY DEF t
  <2> HIDE DEF s
  <2> QED BY <1>2, <1>3, <1>7, <2>1, OneCloses
<1> QED BY <1>5, <1>6, <1>7, <1>9, <1>10, EntrySet DEF SyncInv

\* Between sem_wait() and sem_post(): slowInc().
LEMMA StaysInside ==
  ASSUME SyncInv, NEW l \in HoldLabels, NEW m \in HoldLabels, At(l), Goto(Caller, m),
         SemStays, WaitInv', Quiet
  PROVE  SyncInv'
<1>1. l \in WorkerLabels /\ m \in WorkerLabels /\ m \in UseLabels /\ l \in UseLabels
  BY DEF WorkerLabels, UseLabels
<1>2. /\ Caller \in Programs /\ Live(Caller) /\ Caller \notin Sleepers
      /\ Caller \in Users /\ Caller \in Holders
  BY <1>1, AtFacts, LabelFacts
<1>3. /\ Control' /\ Users' = Users /\ Holders' = Holders
      /\ Sleepers' = Sleepers
  BY <1>1, <1>2, QuietGoes
<1> QED BY <1>3, SemsStay DEF SyncInv

LEMMA SlowIncInv ==
  ASSUME SyncInv, USE_SEM, WorkerReads \/ WorkerYields \/ WorkerWrites
  PROVE  SyncInv'
<1>1. {"read", "yield", "write", "leave"} = HoldLabels
  BY DEF HoldLabels
<1>2. CASE WorkerReads
  BY <1>1, <1>2, NoKernelStep, StaysInside DEF SyncInv, WorkerReads
<1>3. CASE WorkerYields
  <2>1. KernelBecomes(Yield(Kernel)) /\ TableStays
    BY <1>3 DEF WorkerYields, SysYield
  <2>2. WaitInv' /\ Quiet
    BY <2>1, WaitKernel, YieldFacts, YieldSleepers, QuietStep DEF SyncInv
  <2> QED BY <1>1, <1>3, <2>2, StaysInside DEF WorkerYields
<1>4. CASE WorkerWrites
  BY <1>1, <1>4, NoKernelStep, StaysInside DEF SyncInv, WorkerWrites
<1> QED BY <1>2, <1>3, <1>4

-----------------------------------------------------------------------------
(* The steps in which processes are created, end and are waited for.       *)

\* A process that neither uses the semaphore nor sleeps, before and after.
IsAside(q) == /\ q \notin Users /\ state[q] # "BLOCKED" /\ state'[q] # "BLOCKED"
              /\ (Live(q)' => pc'[q] \in {"open", "exit"})

\* A step about one such process.
LEMMA AsideInv ==
  ASSUME SyncInv, WaitInv', SemStays, NEW q,
         pc' \in [Slots -> WorkerLabels \cup MainLabels \cup {"gone"}],
         pc'[Main] \in MainLabels, pc'[IDLE_PID] = "gone",
         \A p \in Programs \ {q} : pc'[p] = pc[p] /\ Keeps(p),
         q \in Programs => IsAside(q)
  PROVE  SyncInv'
<1>1. /\ "open" \in WorkerLabels /\ "exit" \in WorkerLabels
      /\ "open" \notin UseLabels /\ "exit" \notin UseLabels
      /\ HoldLabels \subseteq UseLabels
  BY DEF WorkerLabels, UseLabels, HoldLabels
<1>2. Users' = Users
  BY <1>1 DEF Users, Keeps, Kept, IsAside
<1>3. Holders' = Holders
  BY <1>1 DEF Users, Holders, Keeps, Kept, IsAside
<1>4. Sleepers' = Sleepers
  BY DEF Sleepers, Keeps, IsAside
<1>5. \A p \in Programs : Live(p)' => pc'[p] \in WorkerLabels
  BY <1>1 DEF SyncInv, Control, Keeps, Kept, IsAside
<1>6. \A p \in Programs : state'[p] = "BLOCKED" => pc'[p] = "read" /\ blocks_amount'[p] = 1
  BY DEF SyncInv, Control, Keeps, Sleepers, IsAside
<1>7. Control'
  BY <1>5, <1>6 DEF Control, Sleepers
<1> QED BY <1>2, <1>3, <1>4, <1>7, SemsStay DEF SyncInv

LEMMA QuietStays ==
  ASSUME SyncInv, WaitInv', SemStays, Quiet, \A p \in Programs : pc'[p] = pc[p],
         pc' \in [Slots -> WorkerLabels \cup MainLabels \cup {"gone"}],
         pc'[Main] \in MainLabels, pc'[IDLE_PID] = "gone"
  PROVE  SyncInv'
BY MainFacts, AsideInv DEF Quiet

LEMMA WorkerExitsInv ==
  ASSUME SyncInv, WorkerExits
  PROVE  SyncInv' /\ NoneMade /\ waiting'[Main] = waiting[Main]
<1>0. PICK c : c = Caller
  OBVIOUS
<1>1. c \in Programs /\ c \notin Sleepers /\ pc[c] = "exit"
  BY <1>0, AtFacts DEF WorkerExits, WorkerLabels
<1>2. Kill(c) /\ Goto(c, "gone") /\ SemStays
  BY <1>0 DEF WorkerExits, SysExit
<1>3. /\ WaitInv' /\ waiting'[Main] = waiting[Main]
      /\ state'[c] = "ZOMBIE" /\ Live(c)
      /\ \A p \in Programs \ {c} : Keeps(p)
  BY <1>1, <1>2, KillKeeps DEF SyncInv
<1>4. /\ pc' \in [Slots -> WorkerLabels \cup MainLabels \cup {"gone"}]
      /\ \A p \in Slots \ {c} : pc'[p] = pc[p]
  BY <1>1, <1>2, MainFacts DEF SyncInv, Control, Goto
<1>5. pc'[Main] \in MainLabels /\ pc'[IDLE_PID] = "gone"
  BY <1>1, <1>4, MainFacts DEF SyncInv, Control
<1>6. IsAside(c)
  <2>1. ~Live(c)' /\ state'[c] # "BLOCKED"
    BY <1>3 DEF Live
  <2>2. c \notin Users /\ state[c] # "BLOCKED"
    BY <1>1 DEF Users, UseLabels, HoldLabels, Sleepers
  <2> QED BY <2>1, <2>2 DEF IsAside
<1>7. SyncInv'
  BY <1>2, <1>3, <1>4, <1>5, <1>6, MainFacts, AsideInv
<1>8. NoneMade
  BY <1>3 DEF NoneMade, Keeps, Kept, Live
<1> QED BY <1>3, <1>7, <1>8

LEMMA CreatesInv ==
  ASSUME SyncInv, USE_SEM, OnlyShellCreates, MainCreates
  PROVE  SyncInv'
<1>0. PICK q : q = Least(FreeSlots(Kernel))
  OBVIOUS
<1> DEFINE m == IF Len(pids) + 1 = 2 * PAIRS THEN "wait" ELSE "create"
<1>1. /\ SysCreate /\ state'[q] = "READY" /\ SemStays
      /\ pc' = [pc EXCEPT ![q] = "open", ![Main] = m]
  BY <1>0 DEF MainCreates
<1>2. /\ WaitInv' /\ q \in Programs /\ ~Live(q)
      /\ \A p \in Programs \ {q} : Keeps(p)
  BY <1>0, <1>1, CreateKeeps DEF SyncInv
<1>3. m \in MainLabels /\ "open" \in WorkerLabels
  BY DEF MainLabels, WorkerLabels
<1> HIDE DEF m
<1>4. /\ pc' \in [Slots -> WorkerLabels \cup MainLabels \cup {"gone"}]
      /\ pc'[q] = "open" /\ pc'[Main] = m /\ pc'[IDLE_PID] = pc[IDLE_PID]
      /\ \A p \in Programs \ {q} : pc'[p] = pc[p]
  BY <1>1, <1>2, <1>3, MainFacts DEF SyncInv, Control
<1>5. IsAside(q)
  BY <1>1, <1>2, <1>4 DEF IsAside, Users, Live
<1>6. pc'[IDLE_PID] = "gone"
  BY <1>4 DEF SyncInv, Control
<1> QED BY <1>1, <1>2, <1>3, <1>4, <1>5, <1>6, AsideInv

\* The slot of one that has exited is freed.
LEMMA FreedInv ==
  ASSUME SyncInv, WaitInv', SemStays, NEW q \in Programs, ~Live(q), state'[q] = "INVALID",
         \A p \in Programs \ {q} : Keeps(p), \A p \in Programs : pc'[p] = pc[p],
         pc' \in [Slots -> WorkerLabels \cup MainLabels \cup {"gone"}],
         pc'[Main] \in MainLabels, pc'[IDLE_PID] = "gone"
  PROVE  SyncInv'
<1>1. ~Live(q)' /\ state'[q] # "BLOCKED"
  BY DEF Live
<1>2. q \notin Users /\ state[q] # "BLOCKED"
  BY DEF Users, Live
<1>3. IsAside(q)
  BY <1>1, <1>2 DEF IsAside
<1> QED BY <1>3, AsideInv

LEMMA SyncWaitsInv ==
  ASSUME SyncInv, MainWaits
  PROVE  SyncInv'
<1>0. PICK q : q = pids[waited + 1]
  OBVIOUS
<1> DEFINE m == IF waited + 1 = 2 * PAIRS THEN "print" ELSE "wait"
<1>1. Caller = Main
  BY AtFacts DEF MainWaits, MainLabels
<1>2. /\ Goto(Main, m) /\ SemStays
      /\ SysWait(q) \/ UNCHANGED procVars
  BY <1>0 DEF MainWaits
<1>3. m \in MainLabels
  BY DEF MainLabels
<1> HIDE DEF m
<1>5. /\ pc' \in [Slots -> WorkerLabels \cup MainLabels \cup {"gone"}]
      /\ pc'[Main] \in MainLabels /\ pc'[IDLE_PID] = "gone"
      /\ \A p \in Programs : pc'[p] = pc[p]
  BY <1>2, <1>3, MainFacts DEF SyncInv, Control, Goto
<1>6. CASE UNCHANGED procVars
  <2>1. TableStays /\ UNCHANGED schedVars
    BY <1>6 DEF procVars, TableStays
  <2>2. WaitInv' /\ Quiet
    BY <2>1, NoKernelStep DEF SyncInv
  <2> QED BY <1>2, <1>5, <2>2, QuietStays
<1>7. CASE SysWait(q)
  <2>1. /\ WaitInv'
        /\ \/ /\ q \in Programs /\ ~Live(q)
              /\ state'[q] = "INVALID" /\ waiting' = waiting
              /\ \A p \in Programs \ {q} : Keeps(p)
           \/ Live(q) /\ Quiet /\ waiting'[Main] = q
    BY <1>1, <1>7, WaitKeeps DEF SyncInv
  <2> QED BY <1>2, <1>5, <2>1, FreedInv, QuietStays
<1> QED BY <1>2, <1>6, <1>7

LEMMA ReturnsInv ==
  ASSUME SyncInv, Returns
  PROVE  SyncInv'
<1>0. PICK q : q = waiting[Main]
  OBVIOUS
<1>1. WaitReturns /\ SemStays /\ pc' = pc
  BY DEF Returns, progVars
<1>2. /\ WaitInv' /\ q \in Programs
      /\ ~Live(q) /\ state'[q] = "INVALID"
      /\ \A p \in Programs \ {q} : Keeps(p)
  BY <1>0, <1>1, ReturnKeeps DEF SyncInv
<1>3. /\ pc' \in [Slots -> WorkerLabels \cup MainLabels \cup {"gone"}]
      /\ pc'[Main] \in MainLabels /\ pc'[IDLE_PID] = "gone"
  BY <1>1 DEF SyncInv, Control
<1> QED BY <1>1, <1>2, <1>3, FreedInv

LEMMA TickInv ==
  ASSUME SyncInv, TableStays, SemStays, pc' = pc, TimerTick \/ UNCHANGED schedVars
  PROVE  SyncInv' /\ NoneMade
<1>1. WaitInv' /\ Quiet
  BY TickQuiet, NoKernelStep DEF SyncInv
<1>2. /\ pc' \in [Slots -> WorkerLabels \cup MainLabels \cup {"gone"}]
      /\ pc'[Main] \in MainLabels /\ pc'[IDLE_PID] = "gone"
  BY DEF SyncInv, Control
<1>3. NoneMade
  BY <1>1 DEF Quiet, Keeps, Kept, NoneMade
<1> QED BY <1>1, <1>2, <1>3, QuietStays

LEMMA SyncInitInv ==
  ASSUME SyncStart("create")
  PROVE  SyncInv
<1>1. WaitInv
  BY WaitInitInv DEF SyncStart
<1>2. /\ state = [p \in Slots |-> IF p = IDLE_PID THEN "BLOCKED"
                                  ELSE IF p = SHELL_PID THEN "RUNNING" ELSE "INVALID"]
      /\ pc = [p \in Slots |-> IF p = Main THEN "create" ELSE "gone"]
      /\ sems = [n \in SemNames |-> NoSem]
  BY FirstIsAClient, ShellAssumption, ShellIsNotIdle
     DEF SyncStart, ProcInit, SchedInit, SemInit
<1>3. Users = {} /\ Holders = {} /\ Sleepers = {}
  BY <1>2 DEF Users, Holders, Sleepers, Programs, Live
<1>4. "create" \in MainLabels
  BY DEF MainLabels
<1>5. Control
  BY <1>2, <1>3, <1>4, ShellIsNotIdle DEF Control, Programs, Main, Live
<1>6. NoSem \in SemType /\ ~NoSem.initialized
  BY EmptySeq DEF NoSem, SemType
<1>7. Agrees(NoSem, Users, Holders, Sleepers)
  BY <1>3, <1>6 DEF Agrees
<1>8. SemsInv
  BY <1>2, <1>6, <1>7, SyncAssumption DEF SemsInv
<1> QED BY <1>1, <1>5, <1>8 DEF SyncInv

-----------------------------------------------------------------------------
(* The other two programs, whose children never come to a semaphore.       *)

ChildLabels == {"count", "spin", "exit", "gone"}
OtherMain == {"prio_create", "prio_block", "prio_nice", "prio_unblock", "prio_wait",
              "pcs_create", "pcs_act", "pcs_unblock", "pcs_wait", "print", "error"}

OtherInv ==
  /\ pc \in [Slots -> ChildLabels \cup OtherMain]
  /\ pc[Main] \in OtherMain
  /\ \A p \in Slots \ {Main} : pc[p] \in ChildLabels
  /\ round \in 1 .. 4
  /\ round = 4 => pc[Main] \in {"print", "error"}

LEMMA OtherAt ==
  ASSUME OtherInv, NEW l, At(l)
  PROVE  /\ l \in ChildLabels \cup OtherMain
         /\ l \in ChildLabels => Caller \in Slots \ {Main}
BY DEF OtherInv, At, UserRuns, CurrentRuns, Kernel, Caller, ChildLabels, OtherMain

LEMMA MainGoes ==
  ASSUME OtherInv, NEW l \in OtherMain, Goto(Main, l), round' \in 1 .. 4,
         round' # 4 \/ l \in {"print", "error"}
  PROVE  OtherInv'
<1>1. Main \in Slots
  BY ShellIsNotIdle DEF Main
<1> QED BY <1>1 DEF OtherInv, Goto

LEMMA ChildGoes ==
  ASSUME OtherInv, NEW p \in Slots \ {Main}, NEW l \in ChildLabels, Goto(p, l),
         UNCHANGED round
  PROVE  OtherInv'
<1>1. Main \in Slots
  BY ShellIsNotIdle DEF Main
<1> QED BY <1>1 DEF OtherInv, Goto

LEMMA OtherStays ==
  ASSUME OtherInv, UNCHANGED <<pc, round>>
  PROVE  OtherInv'
BY DEF OtherInv

LEMMA OtherCreates ==
  ASSUME OtherInv, NEW l \in ChildLabels, NEW m \in OtherMain, Creates(l, m),
         UNCHANGED round, round # 4
  PROVE  OtherInv'
<1>1. Main \in Slots
  BY ShellIsNotIdle DEF Main
<1>2. PICK q : pc' = [pc EXCEPT ![q] = l, ![Main] = m]
  BY DEF Creates
<1> QED BY <1>1, <1>2 DEF OtherInv

LEMMA NextRound ==
  ASSUME NEW r \in {1, 2, 3}, r # 3
  PROVE  r + 1 \in 1 .. 4 /\ r + 1 # 4
OBVIOUS

LEMMA OtherPrioInv ==
  ASSUME OtherInv, PrioStep
  PROVE  OtherInv'
<1>1. /\ AfterChild(Len(pids)) \in OtherMain /\ AfterChild(Len(pids) + 1) \in OtherMain
      /\ "prio_nice" \in OtherMain /\ "prio_block" \in OtherMain
      /\ "prio_wait" \in OtherMain /\ "prio_unblock" \in OtherMain
      /\ "prio_create" \in OtherMain /\ "print" \in OtherMain
      /\ "count" \in ChildLabels /\ "exit" \in ChildLabels
  BY DEF AfterChild, OtherMain, ChildLabels
<1>2. \A l : At(l) /\ l \notin ChildLabels => pc[Main] = l
  BY DEF At, OtherInv, UserRuns, CurrentRuns, Kernel, Caller
<1>3. \A l \in {"prio_create", "prio_block", "prio_nice", "prio_unblock", "prio_wait"} :
        At(l) => round # 4
  BY <1>2 DEF OtherInv, ChildLabels
<1>4. round \in 1 .. 4
  BY DEF OtherInv
<1>5. ASSUME round # 4
      PROVE  round \in {1, 2, 3}
  BY <1>4, <1>5
<1>6. CASE PrioCreates
  <2> DEFINE m == CASE round = 1 -> AfterChild(Len(pids) + 1)
                    [] round = 2 -> "prio_nice"
                    [] round = 3 -> "prio_block"
  <2>1. round # 4 /\ round' = round /\ Creates("count", m)
    BY <1>3, <1>6 DEF PrioCreates
  <2>2. m \in OtherMain
    BY <1>1, <1>5, <2>1
  <2> HIDE DEF m
  <2> QED BY <1>1, <2>1, <2>2, OtherCreates
<1>7. CASE PrioBlocks
  <2>1. round # 4 /\ round' = round /\ Goto(Main, "prio_nice")
    BY <1>3, <1>7 DEF PrioBlocks
  <2> QED BY <1>1, <1>4, <2>1, MainGoes
<1>8. CASE PrioIsNice
  <2>1. round # 4 /\ round' = round /\ Goto(Main, AfterChild(Len(pids)))
    BY <1>3, <1>8 DEF PrioIsNice
  <2> QED BY <1>1, <1>4, <2>1, MainGoes
<1>9. CASE PrioUnblocks
  <2>1. /\ round # 4 /\ round' = round
        /\ Goto(Main, "prio_wait") \/ Goto(Main, "prio_unblock")
    BY <1>3, <1>9 DEF PrioUnblocks
  <2> QED BY <1>1, <1>4, <2>1, MainGoes
<1>10. CASE PrioWaits
  <2>1. round \in {1, 2, 3}
    BY <1>3, <1>5, <1>10 DEF PrioWaits
  <2>2. \/ UNCHANGED <<pc, round>>
        \/ /\ round' = round + 1
           /\ Goto(Main, IF round = 3 THEN "print" ELSE "prio_create")
    BY <1>10 DEF PrioWaits
  <2>3. CASE UNCHANGED <<pc, round>>
    BY <2>3, OtherStays
  <2>4. CASE round' = round + 1 /\ round = 3 /\ Goto(Main, "print")
    <3>0. round' = 4
      BY <2>4
    <3>1. round' \in 1 .. 4
      BY <3>0
    <3> QED BY <1>1, <2>4, <3>1, MainGoes
  <2>5. ASSUME round' = round + 1, round # 3, Goto(Main, "prio_create")
        PROVE  OtherInv'
    <3>1. round' \in 1 .. 4 /\ round' # 4
      BY <2>1, <2>5, NextRound
    <3> QED BY <1>1, <2>5, <3>1, MainGoes
  <2> QED BY <2>2, <2>3, <2>4, <2>5
<1>11. CASE ChildCounts
  <2>1. Caller \in Slots \ {Main}
    BY <1>1, <1>11, OtherAt DEF ChildCounts
  <2> QED BY <1>1, <1>11, <2>1, ChildGoes DEF ChildCounts
<1> QED BY <1>6, <1>7, <1>8, <1>9, <1>10, <1>11 DEF PrioStep

LEMMA OtherPcsInv ==
  ASSUME OtherInv, PcsStep
  PROVE  OtherInv'
<1>1. /\ {"pcs_create", "pcs_act", "pcs_unblock", "pcs_wait", "error"} \subseteq OtherMain
      /\ \A l \in OtherMain : l \notin ChildLabels
      /\ "spin" \in ChildLabels
  BY DEF OtherMain, ChildLabels
<1>2. \A l \in OtherMain : At(l) /\ l \notin {"print", "error"} => pc[Main] = l /\ round # 4
  BY <1>1 DEF At, OtherInv, UserRuns, CurrentRuns, Kernel, Caller
<1>3. round \in 1 .. 4
  BY DEF OtherInv
<1>4. ASSUME NEW st, Goes(st), pc[Main] \in OtherMain, round # 4
      PROVE  OtherInv'
  <2> DEFINE alive == \E j \in DOMAIN rq : [rq EXCEPT ![waited + 1] = st][j] # "KILLED"
             l == IF waited + 1 < max THEN pc[Main]
                  ELSE IF pc[Main] = "pcs_act" THEN "pcs_unblock"
                  ELSE IF alive THEN "pcs_act" ELSE "pcs_wait"
  <2>1. Goto(Main, l) /\ round' = round
    BY <1>4 DEF Goes
  <2> HIDE DEF alive
  <2>2. l \in OtherMain
    BY <1>1, <1>4
  <2> HIDE DEF l
  <2> QED BY <1>3, <1>4, <2>1, <2>2, MainGoes
<1>5. ASSUME PcsFails, round # 4
      PROVE  OtherInv'
  BY <1>1, <1>3, <1>5, MainGoes DEF PcsFails
<1>6. CASE PcsCreates
  <2>1. round # 4
    BY <1>1, <1>2, <1>6 DEF PcsCreates
  <2>2. CASE FreeSlots(Kernel) = {}
    BY <1>1, <1>3, <1>6, <2>1, <2>2, MainGoes DEF PcsCreates
  <2>3. CASE FreeSlots(Kernel) # {}
    BY <1>1, <1>6, <2>1, <2>3, OtherCreates DEF PcsCreates
  <2> QED BY <2>2, <2>3
<1>7. CASE PcsKills
  BY <1>1, <1>2, <1>4, <1>5, <1>7 DEF PcsKills
<1>8. CASE PcsBlocks
  BY <1>1, <1>2, <1>4, <1>5, <1>8 DEF PcsBlocks
<1>9. CASE PcsUnblocks
  BY <1>1, <1>2, <1>4, <1>5, <1>9 DEF PcsUnblocks
<1>10. CASE PcsWaits
  <2>1. round # 4 /\ UNCHANGED round
    BY <1>1, <1>2, <1>10 DEF PcsWaits
  <2>2. UNCHANGED pc \/ Goto(Main, "pcs_create")
    BY <1>10 DEF PcsWaits
  <2> QED BY <1>1, <1>3, <2>1, <2>2, OtherStays, MainGoes
<1> QED BY <1>6, <1>7, <1>8, <1>9, <1>10 DEF PcsStep

LEMMA OtherSyncInv ==
  ASSUME OtherInv, SyncStep
  PROVE  OtherInv'
<1>1. {"create", "wait", "open", "enter", "read", "yield", "write", "leave", "close"}
        \cap (ChildLabels \cup OtherMain) = {}
  BY DEF ChildLabels, OtherMain
<1>2. ~MainCreates /\ ~MainWaits /\ ~WorkerOpens /\ ~WorkerEnters /\ ~WorkerReads
      /\ ~WorkerYields /\ ~WorkerWrites /\ ~WorkerLeaves /\ ~WorkerCloses
  BY <1>1, OtherAt DEF MainCreates, MainWaits, WorkerOpens, WorkerEnters, WorkerReads,
     WorkerYields, WorkerWrites, WorkerLeaves, WorkerCloses
<1>3. UNCHANGED round
  BY DEF SyncStep
<1>4. CASE Returns \/ SyncTick
  BY <1>3, <1>4, OtherStays DEF Returns, SyncTick, progVars
<1>5. CASE WorkerExits
  <2>1. "exit" \in ChildLabels /\ "gone" \in ChildLabels
    BY DEF ChildLabels
  <2>2. Goto(Caller, "gone") /\ Caller \in Slots \ {Main}
    BY <1>5, <2>1, OtherAt DEF WorkerExits
  <2> QED BY <1>3, <2>1, <2>2, ChildGoes
<1> QED BY <1>2, <1>4, <1>5 DEF SyncStep, UserStep

-----------------------------------------------------------------------------

LEMMA SyncAlone ==
  ASSUME SyncInv
  PROVE  ~PrioStep /\ ~PcsStep
<1>1. ASSUME NEW l, At(l)
      PROVE  l \in WorkerLabels \cup MainLabels
  <2>1. /\ Caller \in Slots \ {IDLE_PID} /\ state[Caller] = "RUNNING" /\ pc[Caller] = l
    BY <1>1, AtFacts
  <2> QED BY <2>1 DEF SyncInv, Control, Programs, Main, Live
<1>2. {"prio_create", "prio_block", "prio_nice", "prio_unblock", "prio_wait", "count",
       "pcs_create", "pcs_act", "pcs_unblock", "pcs_wait"}
        \cap (WorkerLabels \cup MainLabels) = {}
  BY DEF WorkerLabels, UseLabels, HoldLabels, MainLabels
<1>3. ~PrioStep
  BY <1>1, <1>2 DEF PrioStep, PrioCreates, PrioBlocks, PrioIsNice, PrioUnblocks,
     PrioWaits, ChildCounts
<1>4. ~PcsStep
  BY <1>1, <1>2 DEF PcsStep, PcsCreates, PcsKills, PcsBlocks, PcsUnblocks, PcsWaits
<1> QED BY <1>3, <1>4

LEMMA SyncNextInv ==
  ASSUME USE_SEM, OnlyShellCreates, SyncInv, [TestNext]_testVars
  PROVE  SyncInv'
<1>1. ~PrioStep /\ ~PcsStep
  BY SyncAlone
<1>2. CASE UserStep
  BY <1>2, CreatesInv, SyncWaitsInv, ReturnsInv, OpensInv, EntersInv, SlowIncInv,
     LeavesInv, ClosesInv, WorkerExitsInv DEF UserStep
<1>3. CASE SyncTick
  BY <1>3, TickInv DEF SyncTick, progVars
<1>4. CASE UNCHANGED testVars
  BY <1>4, TickInv DEF testVars, syncVars, procVars, progVars, TableStays, SemStays
<1> QED BY <1>1, <1>2, <1>3, <1>4 DEF TestNext, SyncStep

LEMMA OtherNextInv ==
  ASSUME OtherInv, [TestNext]_testVars
  PROVE  OtherInv'
<1>1. CASE UNCHANGED testVars
  BY <1>1, OtherStays DEF testVars, syncVars, progVars
<1> QED BY <1>1, OtherSyncInv, OtherPrioInv, OtherPcsInv DEF TestNext

LEMMA TestInitInv ==
  ASSUME TestInit
  PROVE  SyncInv \/ OtherInv
<1>1. CASE program = "sync"
  BY <1>1, SyncInitInv DEF TestInit, FirstLabel
<1>2. CASE program # "sync"
  <2>0. program = "prio" \/ program = "pcs"
    BY <1>2 DEF TestInit, FirstLabel
  <2> DEFINE l == FirstLabel[program]
  <2>a. l \in OtherMain
    <3>1. FirstLabel["prio"] = "prio_create" /\ FirstLabel["pcs"] = "pcs_create"
      BY DEF FirstLabel
    <3> QED BY <2>0, <3>1 DEF OtherMain
  <2>b. "gone" \in ChildLabels
    BY DEF ChildLabels
  <2>1. /\ pc = [p \in Slots |-> IF p = Main THEN l ELSE "gone"]
        /\ round = 1
    BY DEF TestInit, SyncStart
  <2> HIDE DEF l
  <2>2. Main \in Slots
    BY ShellIsNotIdle DEF Main
  <2> QED BY <2>a, <2>b, <2>1, <2>2 DEF OtherInv
<1> QED BY <1>1, <1>2

\* Who holds the semaphore and does not queue for it is one at most: the value
\* counts those who hold it, and the queue counts those who sleep.
LEMMA OneInside ==
  ASSUME SyncInv
  PROVE  MutualExclusion
<1> DEFINE s == sems[SEM_ID]
<1>1. Inside = Holders \ Sleepers
  <2>1. HoldLabels = {"read", "yield", "write", "leave"} /\ "gone" \notin HoldLabels
        /\ MainLabels \cap HoldLabels = {}
    BY DEF HoldLabels, MainLabels
  <2>2. pc[IDLE_PID] = "gone" /\ pc[Main] \in MainLabels
    BY DEF SyncInv, Control
  <2>3. Programs = Slots \ {IDLE_PID, Main}
    BY DEF Programs, Main
  <2> QED BY <2>1, <2>2, <2>3 DEF Inside, Holders, Sleepers
<1>2. /\ Agrees(s, Users, Holders, Sleepers) /\ s \in SemType
      /\ Sleepers \subseteq Holders /\ Holders \subseteq Programs /\ Sleepers \subseteq Programs
  BY SemFacts DEF Holders, Sleepers, Agrees
<1>3. CASE ~s.initialized
  <2>1. Holders = {}
    BY <1>2, <1>3 DEF Agrees
  <2>2. Inside = {} /\ Cardinality({}) = 0
    BY <1>1, <2>1, FS_EmptySet
  <2> QED BY <2>2 DEF MutualExclusion
<1>4. CASE s.initialized
  <2>1. /\ IsFiniteSet(Holders) /\ Cardinality(Holders) \in Nat
        /\ IsFiniteSet(Sleepers) /\ Cardinality(Sleepers) \in Nat
    BY <1>2, CountOthers
  <2>2. Cardinality(Holders \ Sleepers) = Cardinality(Holders) - Cardinality(Sleepers)
    <3>1. Cardinality(Holders \ Sleepers)
            = Cardinality(Holders) - Cardinality(Holders \cap Sleepers)
      BY <2>1, FS_Difference
    <3>2. Holders \cap Sleepers = Sleepers
      BY <1>2
    <3> QED BY <3>1, <3>2
  <2>3. /\ s.value = 1 - Cardinality(Holders)
        /\ Cardinality(Sleepers) = IF s.value < 0 THEN -s.value ELSE 0
    BY <1>2, <1>4 DEF Agrees, Exact
  <2>4. Cardinality(Holders) - Cardinality(Sleepers) <= 1
    BY <2>1, <2>3
  <2> QED BY <1>1, <2>2, <2>4 DEF MutualExclusion
<1> QED BY <1>3, <1>4

LEMMA NobodyInside ==
  ASSUME OtherInv
  PROVE  MutualExclusion
<1>1. (ChildLabels \cup OtherMain) \cap {"read", "yield", "write", "leave"} = {}
  BY DEF ChildLabels, OtherMain
<1>2. Inside = {} /\ Cardinality({}) = 0
  BY <1>1, FS_EmptySet DEF Inside, OtherInv
<1> QED BY <1>2 DEF MutualExclusion

\* With its semaphore test-sync never has two processes in slowInc() at once,
\* however many pairs and increments it is given, whenever the timer ticks, and
\* however the slots and pids of those that have exited are given again; and
\* the test programs that use no semaphore have nobody there.
THEOREM TestSyncExcludes ==
  ASSUME USE_SEM, OnlyShellCreates
  PROVE  TestSpec => []MutualExclusion
<1> DEFINE Inv == SyncInv \/ OtherInv
<1>1. TestInit => Inv
  BY TestInitInv
<1>2. Inv /\ [TestNext]_testVars => Inv'
  BY SyncNextInv, OtherNextInv
<1>3. Inv => MutualExclusion
  BY OneInside, NobodyInside
<1> HIDE DEF Inv
<1> QED BY <1>1, <1>2, <1>3, PTL DEF TestSpec

-----------------------------------------------------------------------------
(* What is left of the processes that a test has made.                     *)

\* A process that is in the table is waited for, or is in the array a from
\* place n on.
Due(a, n) == \A p \in Programs : state[p] # "INVALID" =>
               waiting[Main] = p \/ \E i \in n .. Len(a) : a[i] = p

LEMMA DueStays ==
  ASSUME NEW a, NEW n, Due(a, n), waiting'[Main] = waiting[Main], NoneMade
  PROVE  Due(a, n)'
BY DEF Due, NoneMade

LEMMA DueGrows ==
  ASSUME NEW a \in Seq(Programs), NEW n \in 1 .. Len(a) + 1, Due(a, n), waiting' = waiting,
         NEW q \in Programs, \A p \in Programs \ {q} : Keeps(p)
  PROVE  Append(a, q) \in Seq(Programs) /\ Len(Append(a, q)) = Len(a) + 1
         /\ Due(Append(a, q), n)'
<1> DEFINE b == Append(a, q)
<1>1. /\ b \in Seq(Programs) /\ Len(a) \in Nat /\ Len(b) = Len(a) + 1
      /\ b[Len(a) + 1] = q /\ \A i \in 1 .. Len(a) : b[i] = a[i]
  BY AppendProperties, LenProperties
<1> HIDE DEF b
<1>2. /\ Len(a) + 1 \in n .. Len(b)
      /\ \A i \in n .. Len(a) : i \in n .. Len(b) /\ b[i] = a[i]
  BY <1>1
<1>3. Due(b, n)'
  <2> SUFFICES ASSUME NEW p \in Programs, state'[p] # "INVALID"
               PROVE  waiting'[Main] = p \/ \E i \in n .. Len(b) : b[i] = p
    BY DEF Due
  <2>1. CASE p = q
    BY <1>1, <1>2, <2>1
  <2>2. CASE p # q
    <3>1. waiting[Main] = p \/ \E i \in n .. Len(a) : a[i] = p
      BY <2>2 DEF Due, Keeps, Kept
    <3> QED BY <1>2, <3>1
  <2> QED BY <2>1, <2>2
<1> QED BY <1>1, <1>3 DEF b

\* What the wait() for the process in place n of the array leaves to wait for.
LEMMA DueWaits ==
  ASSUME WaitInv, Caller = Main, waiting[Main] = NoPid,
         NEW a \in Seq(Programs), NEW n \in 1 .. Len(a), Due(a, n),
         SysWait(a[n]) \/ (~IsPidValid(Kernel, a[n]) /\ UNCHANGED procVars)
  PROVE  WaitInv' /\ Due(a, n + 1)'
<1> DEFINE q == a[n]
<1>1. q \in Programs /\ q \in Slots
  BY ElementOfSeq DEF Programs
<1>2. Len(a) \in Nat
  BY LenProperties
<1>3. ASSUME NEW p \in Programs, state[p] # "INVALID", p # q
      PROVE  \E i \in n + 1 .. Len(a) : a[i] = p
  <2>1. PICK i \in n .. Len(a) : a[i] = p
    BY <1>3, MainFacts DEF Due, Programs
  <2>2. i # n
    BY <1>3, <2>1
  <2> QED BY <1>2, <2>1, <2>2
<1> HIDE DEF q
<1>4. CASE SysWait(q)
  <2>1. /\ WaitInv'
        /\ \/ /\ q \in Programs /\ ~Live(q)
              /\ state'[q] = "INVALID" /\ waiting' = waiting
              /\ \A p \in Programs \ {q} : Keeps(p)
           \/ Live(q) /\ Quiet /\ waiting'[Main] = q
    BY <1>4, WaitKeeps
  <2>2. Due(a, n + 1)'
    <3> SUFFICES ASSUME NEW p \in Programs, state'[p] # "INVALID"
                 PROVE  waiting'[Main] = p \/ \E i \in n + 1 .. Len(a) : a[i] = p
      BY DEF Due
    <3>1. CASE p = q
      BY <2>1, <3>1
    <3>2. CASE p # q
      BY <1>3, <2>1, <3>2 DEF Quiet, Keeps, Kept
    <3> QED BY <3>1, <3>2
  <2> QED BY <2>1, <2>2
<1>5. CASE ~IsPidValid(Kernel, q) /\ UNCHANGED procVars
  <2>1. state[q] = "INVALID" /\ state' = state /\ waiting' = waiting
    BY <1>1, <1>5 DEF IsPidValid, Kernel, procVars, schedVars
  <2>2. WaitInv'
    BY <1>5, NoKernelStep DEF procVars, TableStays
  <2>3. Due(a, n + 1)'
    BY <1>3, <2>1 DEF Due
  <2> QED BY <2>2, <2>3
<1> QED BY <1>4, <1>5 DEF q

LEMMA DueReturns ==
  ASSUME WaitInv, WaitReturns, NEW a, NEW n, Due(a, n)
  PROVE  Due(a, n)'
<1>1. PICK q : q = waiting[Main]
  OBVIOUS
<1>2. /\ q \in Programs /\ state'[q] = "INVALID"
      /\ \A p \in Programs \ {q} : Keeps(p)
  BY <1>1, ReturnKeeps
<1> QED BY <1>1, <1>2 DEF Due, Keeps, Kept

\* The calls on semaphores neither make nor end a process.
LEMMA SemCallsKeep ==
  ASSUME SyncInv, WorkerEnters \/ WorkerLeaves
  PROVE  \A p \in Programs : Kept(p)
<1>1. /\ sems \in [SemNames -> SemType] /\ SEM_ID \in SemNames
      /\ sems[SEM_ID].blocked \in Seq(Slots)
  BY SemFacts, EntryFacts
<1>2. PICK r : KernelBecomes(r) /\ Settled(r) /\ Phases(r) = Phases(Kernel)
  <2>1. CASE WorkerEnters
    <3> DEFINE r == SemWaitKernel(Kernel, sems, SEM_ID)
    <3>1. KernelBecomes(r)
      BY <2>1 DEF WorkerEnters, SysSemWait
    <3>2. GetPid(Kernel) \in Slots
      BY <2>1, AtFacts DEF WorkerEnters
    <3>3. Settled(r) /\ Phases(r) = Phases(Kernel)
      BY <3>2, WaitKernel, BlockPhases DEF SemWaitKernel, SyncInv
    <3> QED BY <3>1, <3>3
  <2>2. CASE WorkerLeaves
    <3> DEFINE r == SemPostKernel(Kernel, sems, SEM_ID)
    <3>1. KernelBecomes(r)
      BY <2>2 DEF WorkerLeaves, SysSemPost
    <3>2. CASE MustWake(sems, SEM_ID)
      <4>1. Head(sems[SEM_ID].blocked) \in Slots
        BY <1>1, <3>2, HeadTailProperties DEF MustWake
      <4> QED BY <3>1, <3>2, <4>1, WaitKernel, UnblockPhases DEF SemPostKernel, SyncInv
    <3>3. CASE ~MustWake(sems, SEM_ID)
      BY <3>1, <3>3, WaitKernel DEF SemPostKernel, SyncInv
    <3> QED BY <3>2, <3>3
  <2> QED BY <2>1, <2>2
<1>3. \A p \in Slots : Kept(p)
  BY <1>2, PhasesKept DEF SyncInv
<1> QED BY <1>3 DEF Programs

\* Nor does anything else a worker does before it exits.
LEMMA WorkersKeep ==
  ASSUME SyncInv,
         \/ WorkerOpens \/ WorkerEnters \/ WorkerReads \/ WorkerYields \/ WorkerWrites
         \/ WorkerLeaves \/ WorkerCloses \/ SyncTick
  PROVE  (\A p \in Programs : Kept(p)) /\ waiting' = waiting
<1>0. Quiet => \A p \in Programs : Kept(p)
  BY DEF Quiet, Keeps
<1>1. CASE \/ WorkerOpens \/ WorkerReads \/ WorkerWrites \/ WorkerCloses
  <2>1. TableStays /\ UNCHANGED schedVars
    BY <1>1 DEF WorkerOpens, SysSemOpen, WorkerReads, WorkerWrites, WorkerCloses, SysSemClose
  <2> QED BY <1>0, <2>1, NoKernelStep DEF SyncInv, TableStays
<1>2. CASE WorkerYields
  <2>1. KernelBecomes(Yield(Kernel)) /\ TableStays
    BY <1>2 DEF WorkerYields, SysYield
  <2> QED BY <1>0, <2>1, WaitKernel, YieldFacts, YieldSleepers, QuietStep DEF SyncInv, TableStays
<1>3. CASE WorkerEnters \/ WorkerLeaves
  BY <1>3, SemCallsKeep DEF WorkerEnters, WorkerLeaves, TableStays
<1>4. CASE SyncTick
  BY <1>0, <1>4, TickQuiet DEF SyncInv, SyncTick, TableStays
<1> QED BY <1>1, <1>2, <1>3, <1>4

LEMMA WorkersMakeNone ==
  ASSUME SyncInv,
         \/ WorkerOpens \/ WorkerEnters \/ WorkerReads \/ WorkerYields \/ WorkerWrites
         \/ WorkerLeaves \/ WorkerCloses \/ WorkerExits \/ SyncTick
  PROVE  NoneMade /\ waiting'[Main] = waiting[Main]
BY WorkersKeep, WorkerExitsInv DEF Kept, NoneMade

-----------------------------------------------------------------------------
(* test-sync: pids[] from the place after the last wait() on holds whoever *)
(* is in the table.                                                        *)

SyncLeft ==
  /\ pids \in Seq(Programs) /\ waited \in Nat
  /\ pc[Main] = "create" => waited = 0 /\ Len(pids) < 2 * PAIRS
  /\ pc[Main] # "create" => Len(pids) = 2 * PAIRS
  /\ pc[Main] = "wait" => waited < 2 * PAIRS
  /\ pc[Main] = "print" => waited = 2 * PAIRS
  /\ Due(pids, waited + 1)

\* The main process and its array stay as they are.
LEMMA SyncLeftStays ==
  ASSUME SyncLeft, UNCHANGED <<pids, waited>>, pc'[Main] = pc[Main],
         \A n : Due(pids, n) => Due(pids, n)'
  PROVE  SyncLeft'
BY DEF SyncLeft

LEMMA SyncLeftWorkers ==
  ASSUME SyncInv, SyncLeft,
         \/ WorkerOpens \/ WorkerEnters \/ WorkerReads \/ WorkerYields \/ WorkerWrites
         \/ WorkerLeaves \/ WorkerCloses \/ WorkerExits \/ SyncTick
  PROVE  SyncLeft'
<1>1. UNCHANGED <<pids, waited>>
  BY DEF WorkerOpens, WorkerEnters, WorkerReads, WorkerYields, WorkerWrites,
     WorkerLeaves, WorkerCloses, WorkerExits, SyncTick, progVars
<1>2. pc'[Main] = pc[Main]
  <2>1. CASE SyncTick
    BY <2>1 DEF SyncTick, progVars
  <2>2. CASE ~SyncTick
    <3>1. PICK l : Goto(Caller, l)
      BY <2>2 DEF WorkerOpens, WorkerEnters, WorkerReads, WorkerYields, WorkerWrites,
         WorkerLeaves, WorkerCloses, WorkerExits
    <3>2. PICK m \in WorkerLabels : At(m)
      <4>1. {"open", "enter", "read", "yield", "write", "leave", "close", "exit"}
              \subseteq WorkerLabels
        BY DEF WorkerLabels, UseLabels, HoldLabels
      <4> QED BY <2>2, <4>1 DEF WorkerOpens, WorkerEnters, WorkerReads, WorkerYields,
             WorkerWrites, WorkerLeaves, WorkerCloses, WorkerExits
    <3>3. Caller # Main
      BY <3>2, AtFacts, MainFacts
    <3> QED BY <3>1, <3>3, MainFacts DEF Goto, SyncInv, Control
  <2> QED BY <2>1, <2>2
<1>3. \A n : Due(pids, n) => Due(pids, n)'
  <2>1. TAKE n
  <2>2. HAVE Due(pids, n)
  <2>3. PICK a : a = pids
    OBVIOUS
  <2>4. Due(a, n)'
    BY <2>2, <2>3, WorkersMakeNone, DueStays
  <2> QED BY <1>1, <2>3, <2>4 DEF Due
<1> QED BY <1>1, <1>2, <1>3, SyncLeftStays

LEMMA SyncLeftCreates ==
  ASSUME SyncInv, SyncLeft, USE_SEM, OnlyShellCreates, MainCreates
  PROVE  SyncLeft'
<1>0. PICK q : q = Least(FreeSlots(Kernel))
  OBVIOUS
<1>1. /\ SysCreate /\ state'[q] = "READY" /\ UNCHANGED waited
      /\ pids' = Append(pids, q)
      /\ pc' = [pc EXCEPT ![q] = "open", ![Main] = IF Len(pids) + 1 = 2 * PAIRS
                                                   THEN "wait" ELSE "create"]
  BY <1>0 DEF MainCreates
<1>2. /\ q \in Programs /\ waiting' = waiting
      /\ \A p \in Programs \ {q} : Keeps(p)
  BY <1>0, <1>1, CreateKeeps DEF SyncInv
<1>3. Caller = Main /\ pc[Main] = "create" /\ waited = 0
  <2>1. "create" \in MainLabels
    BY DEF MainLabels
  <2>2. At("create")
    BY DEF MainCreates
  <2> QED BY <2>1, <2>2, AtFacts DEF SyncLeft
<1>4. PICK a : a = pids
  OBVIOUS
<1>5. a \in Seq(Programs) /\ Len(a) \in Nat /\ 1 \in 1 .. Len(a) + 1
  BY <1>4, LenProperties DEF SyncLeft
<1>6. Due(a, 1)
  BY <1>3, <1>4 DEF SyncLeft
<1>7. /\ Append(a, q) \in Seq(Programs) /\ Len(Append(a, q)) = Len(a) + 1
      /\ Due(Append(a, q), 1)'
  BY <1>2, <1>5, <1>6, DueGrows
<1>8. pc'[Main] = IF Len(a) + 1 = 2 * PAIRS THEN "wait" ELSE "create"
  BY <1>1, <1>2, <1>4, MainFacts DEF SyncInv, Control
<1>9. Len(a) < 2 * PAIRS /\ PAIRS \in Nat /\ PAIRS # 0
  BY <1>3, <1>4, SyncAssumption DEF SyncLeft
<1>10. pids' \in Seq(Programs) /\ waited' = 0 /\ Len(pids') = Len(a) + 1
  BY <1>1, <1>3, <1>4, <1>7
<1>11. Due(pids, waited + 1)'
  BY <1>1, <1>4, <1>7, <1>10 DEF Due
<1>12. IF Len(a) + 1 = 2 * PAIRS THEN TRUE ELSE Len(a) + 1 < 2 * PAIRS
  BY <1>5, <1>9
<1> QED BY <1>8, <1>9, <1>10, <1>11, <1>12 DEF SyncLeft

LEMMA SyncLeftWaits ==
  ASSUME SyncInv, SyncLeft, MainWaits
  PROVE  SyncLeft'
<1>1. Caller = Main /\ pc[Main] = "wait" /\ waiting[Main] = NoPid
  <2>1. "wait" \in MainLabels /\ At("wait")
    BY DEF MainLabels, MainWaits
  <2> QED BY <2>1, AtFacts
<1>2. PICK a, n : a = pids /\ n = waited + 1
  OBVIOUS
<1>3. /\ a \in Seq(Programs) /\ Len(a) = 2 * PAIRS /\ waited \in Nat /\ waited < 2 * PAIRS
      /\ PAIRS \in Nat
  BY <1>1, <1>2, SyncAssumption DEF SyncLeft
<1>4. n \in 1 .. Len(a) /\ Due(a, n)
  BY <1>1, <1>2, <1>3 DEF SyncLeft
<1>5. /\ SysWait(a[n]) \/ (~IsPidValid(Kernel, a[n]) /\ UNCHANGED procVars)
      /\ waited' = n /\ pids' = a
      /\ Goto(Main, IF n = 2 * PAIRS THEN "print" ELSE "wait")
  <2>1. SysWait(a[n]) \/ (~IsPidValid(Kernel, a[n]) /\ UNCHANGED procVars)
    BY <1>2 DEF MainWaits
  <2>2. waited' = n /\ pids' = a
    BY <1>2 DEF MainWaits
  <2>3. Goto(Main, IF n = 2 * PAIRS THEN "print" ELSE "wait")
    BY <1>2 DEF MainWaits
  <2> QED BY <2>1, <2>2, <2>3
<1>6. Due(a, n + 1)'
  BY <1>1, <1>3, <1>4, <1>5, DueWaits DEF SyncInv
<1>7. Due(pids, waited + 1)'
  BY <1>5, <1>6 DEF Due
<1>8. pc'[Main] = IF n = 2 * PAIRS THEN "print" ELSE "wait"
  BY <1>5, MainFacts DEF SyncInv, Control, Goto
<1>9. n \in Nat /\ (n = 2 * PAIRS \/ n < 2 * PAIRS)
  BY <1>2, <1>3
<1> QED BY <1>3, <1>5, <1>7, <1>8, <1>9 DEF SyncLeft

LEMMA SyncLeftNext ==
  ASSUME USE_SEM, OnlyShellCreates, SyncInv, SyncLeft, UserStep \/ SyncTick
  PROVE  SyncLeft'
<1>1. CASE Returns
  <2>1. UNCHANGED <<pids, waited>> /\ pc' = pc /\ WaitReturns
    BY <1>1 DEF Returns, progVars
  <2>2. PICK a : a = pids
    OBVIOUS
  <2>3. \A n : Due(a, n) => Due(a, n)'
    BY <2>1, DueReturns DEF SyncInv
  <2>4. \A n : Due(pids, n) => Due(pids, n)'
    BY <2>1, <2>2, <2>3 DEF Due
  <2> QED BY <2>1, <2>4, SyncLeftStays
<1> QED BY <1>1, SyncLeftWorkers, SyncLeftCreates, SyncLeftWaits DEF UserStep

LEMMA SyncLeftInit ==
  ASSUME SyncStart("create")
  PROVE  SyncLeft
<1>1. /\ pids = <<>> /\ waited = 0 /\ pc[Main] = "create"
      /\ \A p \in Programs : state[p] = "INVALID"
  <2>1. /\ state = [p \in Slots |-> IF p = IDLE_PID THEN "BLOCKED"
                                    ELSE IF p = SHELL_PID THEN "RUNNING" ELSE "INVALID"]
    BY FirstIsAClient, ShellAssumption, ShellIsNotIdle
       DEF SyncStart, ProcInit, SchedInit
  <2> QED BY <2>1, MainFacts DEF SyncStart, Programs
<1>2. <<>> \in Seq(Programs) /\ Len(<<>>) = 0
  BY EmptySeq
<1>3. PAIRS \in Nat /\ 0 < 2 * PAIRS
  BY SyncAssumption
<1> QED BY <1>1, <1>2, <1>3 DEF SyncLeft, Due

\* Whoever uses the semaphore is in the table.
LEMMA SyncLeavesNothing ==
  ASSUME SyncInv, SyncLeft
  PROVE  NothingLeftBehind
<1> SUFFICES ASSUME Over
             PROVE  /\ \A n \in SemNames : ~sems[n].initialized
                    /\ \A p \in Slots \ {IDLE_PID, Main} : state[p] = "INVALID"
  BY DEF NothingLeftBehind
<1>1. pc[Main] = "print" /\ waiting[Main] = NoPid
  BY DEF Over, Waits
<1>2. \A p \in Programs : state[p] = "INVALID"
  <2>1. /\ waited = 2 * PAIRS /\ Len(pids) = 2 * PAIRS /\ PAIRS \in Nat
        /\ Due(pids, waited + 1)
    BY <1>1, SyncAssumption DEF SyncLeft
  <2>2. \A i : i \notin waited + 1 .. Len(pids)
    BY <2>1
  <2> QED BY <1>1, <2>1, <2>2, MainFacts DEF Due, Programs
<1>3. Users = {}
  BY <1>2 DEF Users, Live
<1>4. \A n \in SemNames : ~sems[n].initialized
  BY <1>3, SemFacts DEF SyncInv, SemsInv, Agrees
<1> QED BY <1>2, <1>4, MainFacts

-----------------------------------------------------------------------------
(* The children of test-prio and test-pcs.                                 *)

\* A block, an unblock or a change of priority of one of the others.
LEMMA ActsKeep ==
  ASSUME WaitInv, TableStays, NEW q \in Programs, NEW prio_q,
         SysBlock(q) \/ SysUnblock(q) \/ SysBeNice(q, prio_q)
  PROVE  /\ WaitInv' /\ \A p \in Slots : Kept(p)
         /\ \A p \in Programs \ {q} : Keeps(p)
<1>1. q \in Slots /\ SHELL_PID \in Slots \ {q, IDLE_PID}
  BY ShellIsNotIdle DEF Programs
<1>2. PICK r : /\ KernelBecomes(r) /\ Settled(r) /\ IdleLives(r)
               /\ Phases(r) = Phases(Kernel)
               /\ \A p \in Slots \ {q, IDLE_PID} : Untouched(Kernel, r, p)
  <2>1. CASE SysBlock(q)
    BY <1>1, <2>1, WaitKernel, BlockPhases DEF SysBlock
  <2>2. CASE SysUnblock(q)
    BY <1>1, <2>2, WaitKernel, UnblockPhases DEF SysUnblock
  <2>3. CASE SysBeNice(q, prio_q)
    <3> DEFINE r == BeNice(Kernel, q, prio_q)
    <3>1. KernelBecomes(r) /\ Settled(r)
      BY <1>1, <2>3, WaitKernel, BeNiceFacts DEF SysBeNice
    <3>2. r.state = Kernel.state /\ r.blocks_amount = Kernel.blocks_amount
      BY WaitKernel DEF BeNice, Settled, KernelType
    <3> HIDE DEF r
    <3>3. /\ IdleLives(r) /\ Phases(r) = Phases(Kernel)
          /\ \A p \in Slots : Untouched(Kernel, r, p)
      BY <3>2, WaitKernel DEF IdleLives, Phases, Untouched
    <3> QED BY <3>1, <3>3
  <2> QED BY <2>1, <2>2, <2>3
<1>3. WaitInv'
  BY <1>1, <1>2, PhasesWaits DEF TableStays
<1>4. \A p \in Slots : Kept(p)
  BY <1>2, PhasesKept
<1>5. state' = r.state /\ blocks_amount' = r.blocks_amount
  BY <1>2, KernelNext
<1>6. \A p \in Programs \ {q} : Keeps(p)
  BY <1>2, <1>4, <1>5, WaitKernel DEF Keeps, Untouched, Programs
<1> QED BY <1>3, <1>4, <1>6

\* The place in an array after the last comes before the first.
LEMMA NextPlace ==
  ASSUME NEW m \in Nat \ {0}, NEW i \in 0 .. m - 1
  PROVE  (i + 1) % m = IF i + 1 = m THEN 0 ELSE i + 1
OBVIOUS

\* Who is on the CPU at label l of a program that uses no semaphore.
LEMMA OtherRuns ==
  ASSUME WaitInv, OtherInv, NEW l, At(l)
  PROVE  /\ Caller \in Slots \ {IDLE_PID} /\ waiting[Caller] = NoPid /\ pc[Caller] = l
         /\ state[Caller] = "RUNNING"
         /\ l \in OtherMain => Caller = Main
         /\ l \in ChildLabels => Caller \in Programs
<1>1. /\ Caller \in Slots \ {IDLE_PID} /\ pc[Caller] = l /\ state[Caller] = "RUNNING"
  BY WaitKernel, RunnerFacts DEF At, UserRuns
<1>2. waiting[Caller] = NoPid
  BY DEF At, InWait, UserRuns
<1>3. \A x \in OtherMain : x \notin ChildLabels
  BY DEF OtherMain, ChildLabels
<1> QED BY <1>1, <1>2, <1>3, MainFacts DEF OtherInv

-----------------------------------------------------------------------------
(* test-prio.                                                              *)

PrioLabels == {"prio_create", "prio_block", "prio_nice", "prio_unblock", "prio_wait", "print"}

\* The place in pids[] of the first child that has not been waited for.
FirstDue == IF pc[Main] = "prio_wait" THEN waited + 1 ELSE 1

PrioInv ==
  /\ WaitInv /\ OtherInv
  /\ pc[Main] \in PrioLabels
  /\ \A n \in SemNames : ~sems[n].initialized
  /\ pids \in Seq(Programs) /\ waited \in Nat
  /\ pc[Main] \in {"prio_create", "prio_block", "prio_nice"} => waited = 0
  /\ pc[Main] = "prio_create" => Len(pids) < TOTAL_PROCESSES
  /\ pc[Main] \in {"prio_block", "prio_nice"} => Len(pids) \in 1 .. TOTAL_PROCESSES
  /\ pc[Main] \in {"prio_unblock", "prio_wait"} =>
       Len(pids) = TOTAL_PROCESSES /\ waited < TOTAL_PROCESSES
  /\ pc[Main] = "print" => pids = <<>>
  /\ Due(pids, FirstDue)

\* A step of a child, of the timer, or of the kernel: Main and its array stay.
LEMMA PrioStays ==
  ASSUME PrioInv, WaitInv', OtherInv', UNCHANGED <<sems, pids, waited>>,
         pc'[Main] = pc[Main], \A n : Due(pids, n) => Due(pids, n)'
  PROVE  PrioInv'
<1>1. FirstDue' = FirstDue
  BY DEF FirstDue
<1>2. PICK n : n = FirstDue
  OBVIOUS
<1>3. Due(pids, n)'
  BY <1>2 DEF PrioInv
<1>4. Due(pids, FirstDue)'
  BY <1>1, <1>2, <1>3 DEF Due
<1> QED BY <1>4 DEF PrioInv

\* Main goes to l, and its array and index become a and w.
LEMMA PrioGoes ==
  ASSUME PrioInv, WaitInv', OtherInv', UNCHANGED sems,
         NEW a \in Seq(Programs), NEW w \in Nat, pids' = a, waited' = w,
         NEW l \in PrioLabels, pc'[Main] = l,
         l \in {"prio_create", "prio_block", "prio_nice"} => w = 0,
         l = "prio_create" => Len(a) < TOTAL_PROCESSES,
         l \in {"prio_block", "prio_nice"} => Len(a) \in 1 .. TOTAL_PROCESSES,
         l \in {"prio_unblock", "prio_wait"} =>
           Len(a) = TOTAL_PROCESSES /\ w < TOTAL_PROCESSES,
         l = "print" => a = <<>>,
         Due(a, IF l = "prio_wait" THEN w + 1 ELSE 1)'
  PROVE  PrioInv'
<1>1. Due(pids, FirstDue)'
  BY DEF Due, FirstDue
<1> QED BY <1>1 DEF PrioInv

LEMMA DuePids ==
  ASSUME UNCHANGED pids, \A a, n : Due(a, n) => Due(a, n)'
  PROVE  \A n : Due(pids, n) => Due(pids, n)'
<1>1. TAKE n
<1>2. HAVE Due(pids, n)
<1>3. PICK a : a = pids
  OBVIOUS
<1>4. Due(a, n)'
  BY <1>2, <1>3
<1> QED BY <1>3, <1>4 DEF Due

LEMMA KeptDue ==
  ASSUME \A p \in Slots : Kept(p), waiting'[Main] = waiting[Main]
  PROVE  \A a, n : Due(a, n) => Due(a, n)'
<1>1. NoneMade
  BY DEF NoneMade, Kept, Programs
<1> QED BY <1>1, DueStays

\* What the three programs have in common.
LEMMA PrioShared ==
  ASSUME PrioInv, OtherInv', Returns \/ SyncTick \/ WorkerExits \/ ChildCounts
  PROVE  PrioInv'
<1>1. WaitInv /\ OtherInv
  BY DEF PrioInv
<1>2. CASE Returns
  <2>1. WaitReturns /\ UNCHANGED <<sems, pids, waited, pc>>
    BY <1>2 DEF Returns, progVars, SemStays
  <2>2. WaitInv'
    BY <1>1, <2>1, ReturnKeeps
  <2>3. \A a, n : Due(a, n) => Due(a, n)'
    BY <1>1, <2>1, DueReturns
  <2> QED BY <2>1, <2>2, <2>3, DuePids, PrioStays
<1>3. CASE SyncTick
  <2>1. TableStays /\ TimerTick /\ UNCHANGED <<sems, pids, waited, pc, waiting>>
    BY <1>3 DEF SyncTick, progVars, SemStays, TableStays
  <2>2. WaitInv' /\ \A p \in Slots : Kept(p)
    BY <1>1, <2>1, TickQuiet
  <2> QED BY <2>1, <2>2, KeptDue, DuePids, PrioStays
<1>4. CASE WorkerExits
  <2>1. At("exit") /\ Kill(Caller) /\ Goto(Caller, "gone") /\ UNCHANGED <<sems, pids, waited>>
    BY <1>4 DEF WorkerExits, SysExit, SemStays
  <2>2. Caller \in Programs /\ "exit" \in ChildLabels
    BY <1>1, <2>1, OtherRuns DEF ChildLabels
  <2>3. PICK c \in Programs : c = Caller
    BY <2>2
  <2>4. /\ WaitInv' /\ waiting'[Main] = waiting[Main]
        /\ state'[c] = "ZOMBIE" /\ Live(c)
        /\ \A p \in Programs \ {c} : Keeps(p)
    BY <1>1, <2>1, <2>3, KillKeeps
  <2>5. NoneMade
    BY <2>4 DEF NoneMade, Keeps, Kept, Live
  <2>6. pc'[Main] = pc[Main]
    BY <1>1, <2>1, <2>2, MainFacts DEF Goto, OtherInv
  <2> QED BY <2>1, <2>4, <2>5, <2>6, DueStays, DuePids, PrioStays
<1>5. CASE ChildCounts
  <2>1. /\ At("count") /\ TableStays /\ UNCHANGED schedVars /\ Goto(Caller, "exit")
        /\ UNCHANGED <<sems, pids, waited, waiting>>
    BY <1>5 DEF ChildCounts, SemStays, TableStays
  <2>2. WaitInv' /\ \A p \in Slots : Kept(p)
    BY <1>1, <2>1, NoKernelStep
  <2>3. Caller \in Programs /\ "count" \in ChildLabels
    BY <1>1, <2>1, OtherRuns DEF ChildLabels
  <2>4. pc'[Main] = pc[Main]
    BY <1>1, <2>1, <2>3, MainFacts DEF Goto, OtherInv
  <2> QED BY <2>1, <2>2, <2>4, KeptDue, DuePids, PrioStays
<1> QED BY <1>2, <1>3, <1>4, <1>5

\* Main runs, waits for nobody, and what it has to wait for is in its array.
LEMMA PrioMain ==
  ASSUME PrioInv, NEW l, At(l), l \in OtherMain
  PROVE  /\ Caller = Main /\ pc[Main] = l /\ waiting[Main] = NoPid
         /\ pids \in Seq(Programs) /\ Len(pids) \in Nat /\ waited \in Nat
         /\ l \notin {"print", "error"} => round \in {1, 2, 3}
         /\ pc \in [Slots -> ChildLabels \cup OtherMain]
         /\ Due(pids, IF l = "prio_wait" THEN waited + 1 ELSE 1)
<1>1. Caller = Main /\ pc[Main] = l /\ waiting[Main] = NoPid
  BY OtherRuns DEF PrioInv
<1>2. l \notin {"print", "error"} => round \in 1 .. 4 /\ round # 4
  BY <1>1 DEF PrioInv, OtherInv
<1>3. 1 .. 4 = {1, 2, 3, 4}
  OBVIOUS
<1> QED BY <1>1, <1>2, <1>3, LenProperties DEF PrioInv, OtherInv, FirstDue

LEMMA TotalFacts == TOTAL_PROCESSES \in Nat /\ TOTAL_PROCESSES # 0 /\ 0 < TOTAL_PROCESSES
<1>1. TOTAL_PROCESSES \in 1 .. 5
  BY TestAssumption
<1>2. \A n \in 1 .. 5 : n \in Nat /\ n # 0 /\ 0 < n
  OBVIOUS
<1> QED BY <1>1, <1>2

LEMMA AfterChildFacts ==
  ASSUME NEW n \in 1 .. TOTAL_PROCESSES, NEW l, l = AfterChild(n)
  PROVE  \/ l = "prio_create" /\ n < TOTAL_PROCESSES
         \/ l \in {"prio_unblock", "prio_wait"} /\ n = TOTAL_PROCESSES
BY TotalFacts DEF AfterChild

LEMMA PrioCreatesInv ==
  ASSUME OnlyShellCreates, PrioInv, OtherInv', PrioCreates
  PROVE  PrioInv'
<1>0. PICK q, a, l : /\ q = Least(FreeSlots(Kernel)) /\ a = pids
                     /\ l = CASE round = 1 -> AfterChild(Len(pids) + 1)
                              [] round = 2 -> "prio_nice"
                              [] round = 3 -> "prio_block"
  OBVIOUS
<1>1. /\ Caller = Main /\ pc[Main] = "prio_create" /\ waiting[Main] = NoPid
      /\ a \in Seq(Programs) /\ Len(a) \in Nat /\ round \in {1, 2, 3}
      /\ pc \in [Slots -> ChildLabels \cup OtherMain] /\ Due(a, 1)
  BY <1>0, PrioMain DEF PrioCreates, OtherMain
<1>2. waited = 0 /\ Len(a) < TOTAL_PROCESSES /\ TOTAL_PROCESSES \in Nat
  BY <1>0, <1>1, TotalFacts DEF PrioInv
<1>3. /\ SysCreate /\ state'[q] = "READY" /\ pids' = Append(a, q)
      /\ pc' = [pc EXCEPT ![q] = "count", ![Main] = l]
      /\ UNCHANGED <<sems, waited>>
  BY <1>0 DEF PrioCreates, Creates, OthersStay, SemStays
<1>4. /\ WaitInv' /\ waiting' = waiting /\ q \in Programs
      /\ \A p \in Programs \ {q} : Keeps(p)
  BY <1>0, <1>3, CreateKeeps DEF PrioInv
<1>5. PICK b : b = Append(a, q)
  OBVIOUS
<1>6. b \in Seq(Programs) /\ Len(b) = Len(a) + 1 /\ Due(b, 1)'
  <2>1. 1 \in 1 .. Len(a) + 1
    BY <1>1
  <2> QED BY <1>1, <1>4, <1>5, <2>1, DueGrows
<1>7. pc'[Main] = l
  BY <1>1, <1>3, MainFacts
<1>8. Len(b) \in 1 .. TOTAL_PROCESSES
  BY <1>1, <1>2, <1>6
<1>9. \/ l = "prio_create" /\ Len(b) < TOTAL_PROCESSES
      \/ l \in {"prio_unblock", "prio_wait"} /\ Len(b) = TOTAL_PROCESSES
      \/ l \in {"prio_nice", "prio_block"}
  <2>1. CASE round = 1
    <3>1. l = AfterChild(Len(b))
      BY <1>0, <1>6, <2>1
    <3> QED BY <1>8, <3>1, AfterChildFacts
  <2>2. CASE round # 1
    BY <1>0, <1>1, <2>2
  <2> QED BY <2>1, <2>2
<1>10. 0 < TOTAL_PROCESSES
  BY TotalFacts
<1>11. pids' = b /\ waited' = 0 /\ l \in PrioLabels
  BY <1>2, <1>3, <1>5, <1>9 DEF PrioLabels
<1>12. Due(b, IF l = "prio_wait" THEN 0 + 1 ELSE 1)'
  BY <1>6
<1>13. UNCHANGED sems
  BY <1>3
<1> QED BY <1>4, <1>6, <1>7, <1>8, <1>9, <1>10, <1>11, <1>12, <1>13, PrioGoes

LEMMA PrioActsInv ==
  ASSUME PrioInv, OtherInv', PrioBlocks \/ PrioIsNice \/ PrioUnblocks
  PROVE  PrioInv'
<1>0. PICK a, w : a = pids /\ w = waited
  OBVIOUS
<1>1. PICK x \in {"prio_block", "prio_nice", "prio_unblock"} :
        /\ At(x)
        /\ x = "prio_block" => PrioBlocks
        /\ x = "prio_nice" => PrioIsNice
        /\ x = "prio_unblock" => PrioUnblocks
  BY DEF PrioBlocks, PrioIsNice, PrioUnblocks
<1>2. /\ Caller = Main /\ pc[Main] = x /\ waiting[Main] = NoPid
      /\ a \in Seq(Programs) /\ Len(a) \in Nat /\ w \in Nat
      /\ pc \in [Slots -> ChildLabels \cup OtherMain] /\ Due(a, 1)
  <2>1. x \in OtherMain /\ x # "prio_wait"
    BY DEF OtherMain
  <2> QED BY <1>0, <1>1, <2>1, PrioMain
<1>3. TOTAL_PROCESSES \in Nat /\ TOTAL_PROCESSES # 0
  BY TotalFacts
<1>4. /\ x # "prio_unblock" => w = 0 /\ Len(a) \in 1 .. TOTAL_PROCESSES
      /\ x = "prio_unblock" => Len(a) = TOTAL_PROCESSES /\ w < TOTAL_PROCESSES
  BY <1>0, <1>2 DEF PrioInv
<1>5. PICK i, prio_q :
        /\ i \in 1 .. Len(a)
        /\ TableStays
        /\ SysBlock(a[i]) \/ SysUnblock(a[i]) \/ SysBeNice(a[i], prio_q)
  <2>1. Len(a) \in 1 .. Len(a) /\ w + 1 \in 1 .. Len(a)
    BY <1>2, <1>3, <1>4
  <2> QED BY <1>0, <1>1, <2>1 DEF PrioBlocks, PrioIsNice, PrioUnblocks, NewPid
<1>6. a[i] \in Programs
  BY <1>2, <1>5, ElementOfSeq
<1>7. WaitInv' /\ (\A p \in Slots : Kept(p)) /\ waiting' = waiting
  BY <1>5, <1>6, ActsKeep DEF PrioInv, TableStays
<1>8. Due(a, 1)'
  BY <1>2, <1>7, KeptDue
<1>9. pids' = a /\ UNCHANGED sems
  BY <1>0, <1>1 DEF PrioBlocks, PrioIsNice, PrioUnblocks, OthersStay, SemStays
<1>10. PICK l, v : /\ Goto(Main, l) /\ waited' = v
                   /\ \/ x = "prio_block" /\ l = "prio_nice" /\ v = w
                      \/ x = "prio_nice" /\ l = AfterChild(Len(a)) /\ v = w
                      \/ x = "prio_unblock" /\ v = (w + 1) % TOTAL_PROCESSES
                         /\ l = IF v = 0 THEN "prio_wait" ELSE "prio_unblock"
  BY <1>0, <1>1 DEF PrioBlocks, PrioIsNice, PrioUnblocks
<1>11. pc'[Main] = l
  BY <1>2, <1>10, MainFacts DEF Goto
<1>12. CASE x = "prio_block"
  <2>1. l = "prio_nice" /\ v = 0 /\ l \in PrioLabels
    BY <1>4, <1>10, <1>12 DEF PrioLabels
  <2> QED BY <1>2, <1>4, <1>7, <1>8, <1>9, <1>10, <1>11, <1>12, <2>1, PrioGoes
<1>13. CASE x = "prio_nice"
  <2>1. v = 0 /\ l = AfterChild(Len(a)) /\ 0 < TOTAL_PROCESSES
    BY <1>3, <1>4, <1>10, <1>13
  <2>2. \/ l = "prio_create" /\ Len(a) < TOTAL_PROCESSES
        \/ l \in {"prio_unblock", "prio_wait"} /\ Len(a) = TOTAL_PROCESSES
    BY <1>4, <1>13, <2>1, AfterChildFacts
  <2>3. l \in PrioLabels
    BY <2>2 DEF PrioLabels
  <2> QED BY <1>2, <1>7, <1>8, <1>9, <1>10, <1>11, <2>1, <2>2, <2>3, PrioGoes
<1>14. CASE x = "prio_unblock"
  <2>1. w \in 0 .. TOTAL_PROCESSES - 1
    BY <1>2, <1>3, <1>4, <1>14
  <2>2. v = IF w + 1 = TOTAL_PROCESSES THEN 0 ELSE w + 1
    BY <1>3, <1>10, <1>14, <2>1, NextPlace
  <2>3. v \in Nat /\ v < TOTAL_PROCESSES
    BY <1>3, <2>1, <2>2
  <2>4. \/ l = "prio_wait" /\ v = 0
        \/ l = "prio_unblock"
    BY <1>10, <1>14
  <2>5. l \in PrioLabels
    BY <2>4 DEF PrioLabels
  <2> QED BY <1>2, <1>4, <1>7, <1>8, <1>9, <1>10, <1>11, <1>14, <2>3, <2>4, <2>5, PrioGoes
<1> QED BY <1>12, <1>13, <1>14

LEMMA PrioWaitsInv ==
  ASSUME PrioInv, OtherInv', PrioWaits
  PROVE  PrioInv'
<1>0. PICK a, n : a = pids /\ n = waited + 1
  OBVIOUS
<1>1. /\ Caller = Main /\ pc[Main] = "prio_wait" /\ waiting[Main] = NoPid
      /\ a \in Seq(Programs) /\ Len(a) \in Nat /\ waited \in Nat
      /\ pc \in [Slots -> ChildLabels \cup OtherMain] /\ Due(a, n)
  BY <1>0, PrioMain DEF PrioWaits, OtherMain
<1>2. Len(a) = TOTAL_PROCESSES /\ waited < TOTAL_PROCESSES
  BY <1>0, <1>1 DEF PrioInv
<1>3. n \in 1 .. Len(a) /\ n \in Nat
  BY <1>0, <1>1, <1>2, TotalFacts
<1>4. SysWait(a[n]) \/ (~IsPidValid(Kernel, a[n]) /\ UNCHANGED procVars)
  BY <1>0 DEF PrioWaits, WaitsFor
<1>5. WaitInv' /\ Due(a, n + 1)'
  BY <1>1, <1>3, <1>4, DueWaits DEF PrioInv
<1>6. UNCHANGED sems
  BY DEF PrioWaits, OthersStay, SemStays
<1>7. CASE n < TOTAL_PROCESSES
  <2>1. waited' = n /\ pids' = a /\ pc' = pc
    BY <1>0, <1>7 DEF PrioWaits
  <2>2. "prio_wait" \in PrioLabels
    BY DEF PrioLabels
  <2> QED BY <1>1, <1>2, <1>3, <1>5, <1>6, <1>7, <2>1, <2>2, PrioGoes
<1>8. CASE ~(n < TOTAL_PROCESSES)
  <2>1. PICK l : /\ waited' = 0 /\ pids' = <<>> /\ Goto(Main, l)
                 /\ l \in {"print", "prio_create"}
    BY <1>0, <1>8 DEF PrioWaits
  <2>2. pc'[Main] = l /\ l \in PrioLabels
    BY <1>1, <2>1, MainFacts DEF Goto, PrioLabels
  <2>3. \A i : i \notin n + 1 .. Len(a) /\ i \notin 1 .. Len(<<>>)
    BY <1>2, <1>3, <1>8
  <2>4. Due(<<>>, 1)'
    BY <1>5, <2>3 DEF Due
  <2>5. <<>> \in Seq(Programs) /\ Len(<<>>) = 0 /\ 0 < TOTAL_PROCESSES
    BY EmptySeq, TotalFacts
  <2>6. PICK b : b = <<>>
    OBVIOUS
  <2>7. Due(b, 1)'
    BY <2>4, <2>6 DEF Due
  <2> QED BY <1>5, <1>6, <2>1, <2>2, <2>5, <2>6, <2>7, PrioGoes
<1> QED BY <1>7, <1>8

\* At the labels of the other two programs there is nobody.
LEMMA PrioNextInv ==
  ASSUME OnlyShellCreates, PrioInv, [TestNext]_testVars
  PROVE  PrioInv'
<1>1. OtherInv /\ OtherInv' /\ WaitInv
  BY OtherNextInv DEF PrioInv
<1>2. CASE UNCHANGED testVars
  <2>1. TableStays /\ UNCHANGED schedVars /\ UNCHANGED <<sems, pids, waited, pc, waiting>>
    BY <1>2 DEF testVars, syncVars, procVars, progVars, TableStays
  <2>2. WaitInv' /\ \A p \in Slots : Kept(p)
    BY <1>1, <2>1, NoKernelStep
  <2> QED BY <1>1, <2>1, <2>2, KeptDue, DuePids, PrioStays
<1>3. CASE SyncStep
  <2>1. {"create", "wait", "open", "enter", "read", "yield", "write", "leave", "close"}
          \cap (ChildLabels \cup OtherMain) = {}
    BY DEF ChildLabels, OtherMain
  <2>2. ~MainCreates /\ ~MainWaits /\ ~WorkerOpens /\ ~WorkerEnters /\ ~WorkerReads
        /\ ~WorkerYields /\ ~WorkerWrites /\ ~WorkerLeaves /\ ~WorkerCloses
    BY <1>1, <2>1, OtherAt DEF MainCreates, MainWaits, WorkerOpens, WorkerEnters,
       WorkerReads, WorkerYields, WorkerWrites, WorkerLeaves, WorkerCloses
  <2> QED BY <1>1, <1>3, <2>2, PrioShared DEF SyncStep, UserStep
<1>4. CASE PrioStep
  BY <1>1, <1>4, PrioCreatesInv, PrioActsInv, PrioWaitsInv, PrioShared DEF PrioStep
<1>5. ~PcsStep
  <2>1. ASSUME NEW l \in {"pcs_create", "pcs_act", "pcs_unblock", "pcs_wait"}, At(l)
        PROVE  FALSE
    <3>1. l \in OtherMain /\ l \notin PrioLabels
      BY DEF OtherMain, PrioLabels
    <3>2. pc[Main] = l
      BY <1>1, <2>1, <3>1, OtherRuns
    <3> QED BY <3>1, <3>2 DEF PrioInv
  <2> QED BY <2>1 DEF PcsStep, PcsCreates, PcsKills, PcsBlocks, PcsUnblocks, PcsWaits
<1> QED BY <1>2, <1>3, <1>4, <1>5 DEF TestNext

\* What holds when the shell has started the test and nobody else has run.
LEMMA TestStarts ==
  ASSUME NEW l, SyncStart(l)
  PROVE  /\ WaitInv /\ pc[Main] = l /\ pids = <<>> /\ waited = 0
         /\ pc = [p \in Slots |-> IF p = Main THEN l ELSE "gone"]
         /\ waiting[Main] = NoPid
         /\ \A n \in SemNames : ~sems[n].initialized
         /\ \A p \in Programs : state[p] = "INVALID"
<1>1. state = [p \in Slots |-> IF p = IDLE_PID THEN "BLOCKED"
                               ELSE IF p = SHELL_PID THEN "RUNNING" ELSE "INVALID"]
  BY FirstIsAClient, ShellAssumption, ShellIsNotIdle DEF SyncStart, ProcInit, SchedInit
<1>2. WaitInv
  BY WaitInitInv DEF SyncStart
<1>3. waiting[Main] = NoPid
  BY MainFacts DEF SyncStart, ProcInit
<1>4. \A n \in SemNames : ~sems[n].initialized
  BY DEF SyncStart, SemInit, NoSem
<1> QED BY <1>1, <1>2, <1>3, <1>4, MainFacts DEF SyncStart, Programs

LEMMA PrioInitInv ==
  ASSUME SyncStart("prio_create"), OtherInv
  PROVE  PrioInv
<1>1. "prio_create" \in PrioLabels
  BY DEF PrioLabels
<1>2. <<>> \in Seq(Programs) /\ Len(<<>>) = 0
  BY EmptySeq
<1>3. /\ WaitInv /\ pc[Main] = "prio_create" /\ pids = <<>> /\ waited = 0
      /\ \A n \in SemNames : ~sems[n].initialized
      /\ \A p \in Programs : state[p] = "INVALID"
  BY TestStarts
<1>4. Due(pids, FirstDue)
  BY <1>3 DEF Due
<1> QED BY <1>1, <1>2, <1>3, <1>4, TotalFacts DEF PrioInv

LEMMA PrioLeavesNothing ==
  ASSUME PrioInv
  PROVE  NothingLeftBehind
<1> SUFFICES ASSUME Over
             PROVE  /\ \A n \in SemNames : ~sems[n].initialized
                    /\ \A p \in Slots \ {IDLE_PID, Main} : state[p] = "INVALID"
  BY DEF NothingLeftBehind
<1>1. pc[Main] = "print" /\ waiting[Main] = NoPid /\ pids = <<>> /\ Due(pids, FirstDue)
  BY DEF PrioInv, Over, Waits
<1>2. FirstDue = 1
  BY <1>1 DEF FirstDue
<1>3. \A i : i \notin 1 .. Len(<<>>)
  OBVIOUS
<1>4. \A p \in Programs : state[p] = "INVALID"
  BY <1>1, <1>2, <1>3, MainFacts DEF Due, Programs
<1> QED BY <1>4, MainFacts DEF PrioInv

-----------------------------------------------------------------------------
(* test-pcs.                                                               *)

PcsLabels == {"pcs_create", "pcs_act", "pcs_unblock", "pcs_wait", "error"}
Verdicts == {"RUNNING", "BLOCKED", "KILLED"}

\* What the verdict v on process p says of the process table.
Believed(v, p) == /\ v = "RUNNING" => state[p] \in {"READY", "RUNNING"}
                  /\ v = "BLOCKED" => state[p] = "BLOCKED" /\ blocks_amount[p] = 1
                  /\ v = "KILLED" => state[p] = "ZOMBIE"

\* The verdicts v are right for the processes in a, which are different ones.
Sure(a, v) == /\ \A i \in 1 .. Len(a) : Believed(v[i], a[i])
              /\ \A i, j \in 1 .. Len(a) : a[i] = a[j] => i = j

\* Nobody waits at the start of a call of test-pcs: it kills before it waits.
PcsInv ==
  /\ WaitInv /\ OtherInv
  /\ pc[Main] \in PcsLabels /\ \A p \in Slots \ {Main} : pc[p] \in {"spin", "gone"}
  /\ waiting[Main] = NoPid
  /\ max \in Nat \ {0} /\ waited \in Nat
  /\ pids \in Seq(Programs) /\ rq \in Seq(Verdicts) /\ Len(rq) = Len(pids)
  /\ pc[Main] = "pcs_create" => /\ waited = 0 /\ Len(pids) < max
                                /\ \A i \in 1 .. Len(pids) : rq[i] = "RUNNING"
  /\ pc[Main] \in {"pcs_act", "pcs_unblock", "pcs_wait"} => Len(pids) = max /\ waited < max
  /\ pc[Main] = "pcs_wait" => \A i \in 1 .. Len(pids) : ~Live(pids[i])
  /\ pc[Main] # "pcs_wait" => Sure(pids, rq)
  /\ pc[Main] = "error" => FreeSlots(Kernel) = {}

LEMMA BlockMarks ==
  ASSUME WaitInv, NEW q \in Programs, SysBlock(q), state[q] \in {"READY", "RUNNING"}
  PROVE  state'[q] = "BLOCKED" /\ blocks_amount'[q] = 1
<1> DEFINE r == BlockProcess(Kernel, q)
<1>1. q \in Slots \ {IDLE_PID} /\ KernelBecomes(r)
  BY DEF Programs, SysBlock
<1>2. Settled(r) /\ blocks_amount[q] = 0
  BY <1>1, WaitKernel, BlockProcessFacts DEF Settled, Counted
<1>3. PICK m : /\ Coherent(m) /\ r = Yield(m)
               /\ m.state[q] = "BLOCKED" /\ m.blocks_amount[q] = 1
  BY <1>1, <1>2, WaitKernel, BlockProcessCases
<1> HIDE DEF r
<1>4. Untouched(m, r, q)
  BY <1>1, <1>3, YieldSleepers DEF SameSleepers
<1> QED BY <1>1, <1>2, <1>3, <1>4, KernelNext DEF Untouched

LEMMA UnblockMarks ==
  ASSUME WaitInv, NEW q \in Programs, SysUnblock(q),
         state[q] = "BLOCKED", blocks_amount[q] = 1
  PROVE  state'[q] = "READY"
<1> DEFINE r == UnblockProcess(Kernel, q)
<1>1. q \in Slots /\ KernelBecomes(r)
  BY DEF Programs, SysUnblock
<1>2. Kernel \in KernelType /\ Counted(Kernel)
  BY WaitKernel DEF Settled
<1>3. Kernel.state[q] = "BLOCKED" /\ ~(Kernel.blocks_amount[q] > 1)
  BY WaitKernel
<1>4. r.state[q] = "READY"
  BY <1>1, <1>2, <1>3, UnblockProcessFacts
<1> QED BY <1>1, <1>4 DEF KernelBecomes

\* A verdict on a process holds as long as nothing is done to it.
LEMMA BelievedStays ==
  ASSUME WaitInv, WaitInv', NEW v, NEW p \in Programs, Believed(v, p), Keeps(p)
  PROVE  Believed(v, p)'
<1>1. p \in Slots /\ state[p] \in ProcessState /\ state'[p] \in ProcessState
  <2>1. SchedInv /\ SchedInv'
    BY DEF WaitInv, ProcInv
  <2>2. p \in Slots
    BY DEF Programs
  <2> QED BY <2>1, <2>2 DEF SchedInv, Settled, KernelType, Kernel
<1> QED BY <1>1 DEF Believed, Keeps, Kept, Live, ProcessState

LEMMA BelievedLives ==
  ASSUME NEW p, Believed("RUNNING", p) \/ Believed("BLOCKED", p)
  PROVE  Live(p) /\ state[p] # "INVALID" /\ state[p] # "ZOMBIE"
BY DEF Believed, Live

\* Main runs and waits for nobody, and process i of the two arrays is one.
LEMMA PcsMain ==
  ASSUME PcsInv, NEW l, At(l), l \in OtherMain
  PROVE  /\ Caller = Main /\ pc[Main] = l
         /\ pc \in [Slots -> ChildLabels \cup OtherMain]
         /\ pids \in Seq(Programs) /\ rq \in Seq(Verdicts) /\ Len(pids) \in Nat
         /\ Len(rq) = Len(pids) /\ max \in Nat \ {0} /\ waited \in Nat
         /\ \A i \in 1 .. Len(pids) : pids[i] \in Programs /\ rq[i] \in Verdicts
         /\ l # "pcs_wait" => Sure(pids, rq)
         /\ l \in {"pcs_act", "pcs_unblock", "pcs_wait"} =>
              Len(pids) = max /\ waited < max /\ waited + 1 \in 1 .. max
<1>1. /\ pids \in Seq(Programs) /\ rq \in Seq(Verdicts) /\ Len(rq) = Len(pids)
      /\ max \in Nat \ {0} /\ waited \in Nat
  BY DEF PcsInv
<1>2. Caller = Main /\ pc[Main] = l
  BY OtherRuns DEF PcsInv
<1>3. l \in {"pcs_act", "pcs_unblock", "pcs_wait"} => Len(pids) = max /\ waited < max
  BY <1>2 DEF PcsInv
<1>4. \A i \in 1 .. Len(pids) : pids[i] \in Programs /\ rq[i] \in Verdicts
  BY <1>1, ElementOfSeq
<1>5. waited < max => waited + 1 \in 1 .. max
  BY <1>1
<1> QED BY <1>1, <1>2, <1>3, <1>4, <1>5, LenProperties DEF PcsInv, OtherInv

LEMMA KeptSlots ==
  ASSUME WaitInv, WaitInv', \A p \in Slots : Kept(p)
  PROVE  FreeSlots(Kernel)' = FreeSlots(Kernel)
<1>1. \A p \in Slots : state[p] \in ProcessState /\ state'[p] \in ProcessState
  <2>1. SchedInv /\ SchedInv'
    BY DEF WaitInv, ProcInv
  <2> QED BY <2>1 DEF SchedInv, Settled, KernelType, Kernel
<1>2. FreeSlots(Kernel) = {p \in Slots : state[p] \in {"INVALID", "ZOMBIE"}}
  BY DEF FreeSlots, Kernel
<1>3. FreeSlots(Kernel)' = {p \in Slots : state'[p] \in {"INVALID", "ZOMBIE"}}
  BY DEF FreeSlots, Kernel
<1>4. \A p \in Slots : state'[p] \in {"INVALID", "ZOMBIE"} <=> state[p] \in {"INVALID", "ZOMBIE"}
  BY <1>1 DEF Kept, Live, ProcessState
<1> QED BY <1>2, <1>3, <1>4

\* The arrays become a and v, the index w, and Main goes to l.
LEMMA PcsGoesTo ==
  ASSUME PcsInv, WaitInv', OtherInv', waiting'[Main] = NoPid, max' = max,
         \A p \in Slots \ {Main} : pc'[p] \in {"spin", "gone"},
         NEW a \in Seq(Programs), NEW v \in Seq(Verdicts), NEW w \in Nat, Len(v) = Len(a),
         pids' = a, rq' = v, waited' = w,
         NEW l \in PcsLabels, pc'[Main] = l,
         l = "pcs_create" => /\ w = 0 /\ Len(a) < max
                             /\ \A i \in 1 .. Len(a) : v[i] = "RUNNING",
         l \in {"pcs_act", "pcs_unblock", "pcs_wait"} => Len(a) = max /\ w < max,
         l = "pcs_wait" => \A i \in 1 .. Len(a) : ~Live(a[i])',
         l # "pcs_wait" => Sure(a, v)',
         l = "error" => FreeSlots(Kernel)' = {}
  PROVE  PcsInv'
<1>1. l # "pcs_wait" => Sure(pids, rq)'
  BY DEF Sure, Believed
<1>2. l = "pcs_wait" => (\A i \in 1 .. Len(pids) : ~Live(pids[i]))'
  BY DEF Live
<1> QED BY <1>1, <1>2 DEF PcsInv

\* What concerns the children alone: a tick or nothing.
LEMMA PcsTicks ==
  ASSUME PcsInv, TableStays, TimerTick \/ UNCHANGED schedVars,
         UNCHANGED <<progVars, choiceVars, round, rq>>
  PROVE  PcsInv'
<1>0. PICK a, v, w, l : a = pids /\ v = rq /\ w = waited /\ l = pc[Main]
  OBVIOUS
<1>1. WaitInv /\ OtherInv
  BY DEF PcsInv
<1>2. WaitInv' /\ Quiet /\ \A p \in Slots : Kept(p)
  BY <1>1, TickQuiet, NoKernelStep
<1>3. /\ UNCHANGED <<pc, pids, rq, waited, max, round, waiting>>
  BY DEF progVars, choiceVars, TableStays
<1>4. OtherInv'
  BY <1>1, <1>3, OtherStays
<1>5. a \in Seq(Programs) /\ v \in Seq(Verdicts) /\ Len(v) = Len(a) /\ w \in Nat
  BY <1>0 DEF PcsInv
<1>6. \A i \in 1 .. Len(a) : a[i] \in Programs /\ a[i] \in Slots
  BY <1>5, ElementOfSeq DEF Programs
<1>7. Sure(a, v) => Sure(a, v)'
  BY <1>1, <1>2, <1>6, BelievedStays DEF Sure, Quiet
<1>8. (\A i \in 1 .. Len(a) : ~Live(a[i])) => \A i \in 1 .. Len(a) : ~Live(a[i])'
  BY <1>2, <1>6 DEF Kept
<1>9. FreeSlots(Kernel)' = FreeSlots(Kernel)
  BY <1>1, <1>2, KeptSlots
<1>10. /\ l \in PcsLabels /\ waiting[Main] = NoPid
       /\ \A p \in Slots \ {Main} : pc[p] \in {"spin", "gone"}
       /\ l = "pcs_create" => /\ w = 0 /\ Len(a) < max
                              /\ \A i \in 1 .. Len(a) : v[i] = "RUNNING"
       /\ l \in {"pcs_act", "pcs_unblock", "pcs_wait"} => Len(a) = max /\ w < max
  BY <1>0 DEF PcsInv
<1>11. l = "pcs_wait" => \A i \in 1 .. Len(a) : ~Live(a[i])'
  BY <1>0, <1>8 DEF PcsInv
<1>12. l # "pcs_wait" => Sure(a, v)'
  BY <1>0, <1>7 DEF PcsInv
<1>13. l = "error" => FreeSlots(Kernel)' = {}
  BY <1>0, <1>9 DEF PcsInv
<1>14. /\ pids' = a /\ rq' = v /\ waited' = w /\ pc'[Main] = l /\ max' = max
       /\ waiting'[Main] = NoPid
       /\ \A p \in Slots \ {Main} : pc'[p] \in {"spin", "gone"}
  BY <1>0, <1>3, <1>10
<1> QED BY <1>2, <1>4, <1>5, <1>10, <1>11, <1>12, <1>13, <1>14, PcsGoesTo

\* The new process is not one of those in the array: they live.
LEMMA PcsCreatesInv ==
  ASSUME OnlyShellCreates, PcsInv, OtherInv', PcsCreates
  PROVE  PcsInv'
<1>0. PICK q, a, v, l : /\ q = Least(FreeSlots(Kernel)) /\ a = pids /\ v = rq
                        /\ l = IF Len(pids) + 1 = max THEN "pcs_act" ELSE "pcs_create"
  OBVIOUS
<1>1. /\ Caller = Main /\ pc[Main] = "pcs_create"
      /\ pc \in [Slots -> ChildLabels \cup OtherMain]
      /\ a \in Seq(Programs) /\ v \in Seq(Verdicts) /\ Len(a) \in Nat
      /\ Len(v) = Len(a) /\ max \in Nat \ {0}
      /\ \A i \in 1 .. Len(a) : a[i] \in Programs
      /\ Sure(a, v)
  BY <1>0, PcsMain DEF PcsCreates, OtherMain
<1>2. /\ waited = 0 /\ Len(a) < max /\ WaitInv /\ waiting[Main] = NoPid
      /\ \A i \in 1 .. Len(a) : v[i] = "RUNNING"
      /\ \A p \in Slots \ {Main} : pc[p] \in {"spin", "gone"}
  BY <1>0, <1>1 DEF PcsInv
<1>3. waited' = 0 /\ max' = max
  BY <1>2 DEF PcsCreates, OthersStay, choiceVars
<1>4. CASE FreeSlots(Kernel) = {}
  <2>1. /\ Goto(Main, "error") /\ TableStays /\ UNCHANGED schedVars
        /\ pids' = a /\ rq' = v /\ waiting' = waiting
    BY <1>0, <1>4 DEF PcsCreates, procVars, TableStays
  <2>2. WaitInv' /\ Quiet /\ \A p \in Slots : Kept(p)
    BY <1>2, <2>1, NoKernelStep
  <2>3. Sure(a, v)'
    BY <1>1, <1>2, <2>2, BelievedStays DEF Sure, Quiet
  <2>4. FreeSlots(Kernel)' = {}
    BY <1>2, <1>4, <2>2, KeptSlots
  <2>5. /\ pc'[Main] = "error" /\ "error" \in PcsLabels
        /\ \A p \in Slots \ {Main} : pc'[p] \in {"spin", "gone"}
    BY <1>1, <1>2, <2>1, MainFacts DEF Goto, PcsLabels
  <2>6. waiting'[Main] = NoPid
    BY <1>2, <2>1
  <2> QED BY <1>1, <1>3, <2>1, <2>2, <2>3, <2>4, <2>5, <2>6, PcsGoesTo
<1>5. CASE FreeSlots(Kernel) # {}
  <2>1. /\ SysCreate /\ state'[q] = "READY" /\ pids' = Append(a, q)
        /\ pc' = [pc EXCEPT ![q] = "spin", ![Main] = l]
        /\ rq' = Append(v, "RUNNING")
    BY <1>0, <1>5 DEF PcsCreates, Creates
  <2>2. /\ WaitInv' /\ waiting' = waiting /\ q \in Programs /\ ~Live(q)
        /\ \A p \in Programs \ {q} : Keeps(p)
    BY <1>0, <1>2, <2>1, CreateKeeps
  <2>3. PICK b, u : b = Append(a, q) /\ u = Append(v, "RUNNING")
    OBVIOUS
  <2>4. /\ b \in Seq(Programs) /\ u \in Seq(Verdicts)
        /\ Len(b) = Len(a) + 1 /\ Len(u) = Len(a) + 1
        /\ b[Len(a) + 1] = q /\ u[Len(a) + 1] = "RUNNING"
        /\ \A i \in 1 .. Len(a) : b[i] = a[i] /\ u[i] = v[i]
    <3>1. "RUNNING" \in Verdicts
      BY DEF Verdicts
    <3> QED BY <1>1, <2>2, <2>3, <3>1, AppendProperties
  <2>5. /\ \A i \in 1 .. Len(b) : i \in 1 .. Len(a) \/ i = Len(a) + 1
        /\ 1 .. Len(a) \subseteq 1 .. Len(b)
    BY <1>1, <2>4
  <2>6. \A i \in 1 .. Len(a) : Live(a[i]) /\ a[i] # q /\ Believed("RUNNING", a[i])
    BY <1>1, <1>2, <2>2, BelievedLives DEF Sure
  <2>7. Sure(b, u)'
    <3>1. Believed("RUNNING", q)'
      BY <2>1 DEF Believed
    <3>2. \A i \in 1 .. Len(a) : Believed("RUNNING", a[i])'
      BY <1>1, <1>2, <2>2, <2>6, BelievedStays
    <3>3. \A i \in 1 .. Len(b) : Believed(u[i], b[i])'
      BY <1>2, <2>4, <2>5, <3>1, <3>2 DEF Believed
    <3>4. \A i, j \in 1 .. Len(b) : b[i] = b[j] => i = j
      BY <1>1, <2>4, <2>5, <2>6 DEF Sure
    <3> QED BY <3>3, <3>4 DEF Sure
  <2>8. /\ pc'[Main] = l
        /\ \A p \in Slots \ {Main} : pc'[p] \in {"spin", "gone"}
    BY <1>1, <1>2, <2>1, <2>2, MainFacts
  <2>9. /\ (l = "pcs_act" /\ Len(b) = max) \/ (l = "pcs_create" /\ Len(b) < max)
        /\ 0 < max
    BY <1>0, <1>1, <1>2, <2>4
  <2>10. \A i \in 1 .. Len(b) : u[i] = "RUNNING"
    BY <1>2, <2>4, <2>5
  <2>11. l \in PcsLabels /\ waiting'[Main] = NoPid /\ pids' = b /\ rq' = u /\ 0 \in Nat
         /\ Len(u) = Len(b)
    BY <1>2, <2>1, <2>2, <2>3, <2>4, <2>9 DEF PcsLabels
  <2> QED BY <1>3, <2>2, <2>4, <2>7, <2>8, <2>9, <2>10, <2>11, PcsGoesTo
<1> QED BY <1>4, <1>5

\* The call for process i of the array is over: its verdict becomes s, and the
\* other verdicts are as before.
LEMMA PcsGoes ==
  ASSUME PcsInv, OtherInv', WaitInv', NEW x \in {"pcs_act", "pcs_unblock"}, At(x),
         NEW s \in Verdicts, Goes(s), waiting'[Main] = NoPid, max' = max,
         NEW q, q = pids[waited + 1], Believed(s, q)',
         \A p \in Programs \ {q} : Keeps(p)
  PROVE  PcsInv'
<1>0. PICK a, v, i, u, l :
        /\ a = pids /\ v = rq /\ i = waited + 1 /\ u = [rq EXCEPT ![waited + 1] = s]
        /\ l = pc'[Main]
  OBVIOUS
<1>1. /\ Caller = Main /\ pc[Main] = x
      /\ pc \in [Slots -> ChildLabels \cup OtherMain]
      /\ a \in Seq(Programs) /\ v \in Seq(Verdicts) /\ Len(a) \in Nat /\ Len(v) = Len(a)
      /\ max \in Nat \ {0} /\ \A j \in 1 .. Len(a) : a[j] \in Programs /\ v[j] \in Verdicts
      /\ Sure(a, v) /\ Len(a) = max /\ i \in 1 .. max /\ waited \in Nat
  <2>1. x \in OtherMain /\ x \in {"pcs_act", "pcs_unblock", "pcs_wait"} /\ x # "pcs_wait"
    BY DEF OtherMain
  <2> QED BY <1>0, <2>1, PcsMain
<1>2. /\ WaitInv /\ waiting[Main] = NoPid
      /\ \A p \in Slots \ {Main} : pc[p] \in {"spin", "gone"}
  BY DEF PcsInv
<1>3. /\ u = [v EXCEPT ![i] = s] /\ u \in Seq(Verdicts) /\ Len(u) = Len(a)
      /\ \A j \in 1 .. Len(a) : u[j] = IF j = i THEN s ELSE v[j]
      /\ DOMAIN v = 1 .. Len(a)
  <2>1. u = [v EXCEPT ![i] = s] /\ i \in 1 .. Len(v)
    BY <1>0, <1>1
  <2> QED BY <1>1, <2>1, ExceptSeq, LenProperties
<1>4. Sure(a, u)'
  <2>1. \A j \in 1 .. Len(a) : Believed(u[j], a[j])'
    <3> SUFFICES ASSUME NEW j \in 1 .. Len(a)
                 PROVE  Believed(u[j], a[j])'
      OBVIOUS
    <3>1. CASE j = i
      BY <1>0, <1>3, <3>1 DEF Believed
    <3>2. CASE j # i
      <4>1. a[j] \in Programs \ {q}
        BY <1>0, <1>1, <3>2 DEF Sure
      <4>2. Believed(v[j], a[j])
        BY <1>1 DEF Sure
      <4>3. Believed(v[j], a[j])'
        BY <1>2, <4>1, <4>2, BelievedStays
      <4> QED BY <1>3, <3>2, <4>3 DEF Believed
    <3> QED BY <3>1, <3>2
  <2> QED BY <1>1, <2>1 DEF Sure
<1>5. /\ pids' = a /\ rq' = u
      /\ waited' = IF i = max THEN 0 ELSE i
      /\ \A p \in Slots \ {Main} : pc'[p] \in {"spin", "gone"}
  <2>1. i \in Nat /\ waited \in 0 .. max - 1 /\ waited' = (waited + 1) % max
    BY <1>0, <1>1 DEF Goes
  <2>2. waited' = IF i = max THEN 0 ELSE i
    BY <1>0, <1>1, <2>1, NextPlace
  <2>3. pids' = a /\ rq' = u
    BY <1>0 DEF Goes
  <2>4. PICK m : Goto(Main, m)
    BY DEF Goes
  <2> QED BY <1>1, <1>2, <2>2, <2>3, <2>4, MainFacts DEF Goto
<1>6. PICK w : w = waited' /\ w \in Nat /\ w < max
  BY <1>1, <1>5
<1>7. /\ l \in {"pcs_act", "pcs_unblock", "pcs_wait"}
      /\ l = "pcs_wait" => \A j \in 1 .. Len(a) : u[j] = "KILLED"
  <2> DEFINE alive == \E j \in DOMAIN rq : [rq EXCEPT ![waited + 1] = s][j] # "KILLED"
             m == IF waited + 1 < max THEN pc[Main]
                  ELSE IF pc[Main] = "pcs_act" THEN "pcs_unblock"
                  ELSE IF alive THEN "pcs_act" ELSE "pcs_wait"
  <2>1. Goto(Main, m)
    BY DEF Goes
  <2>2. ~alive => \A j \in 1 .. Len(a) : u[j] = "KILLED"
    BY <1>0, <1>3
  <2> HIDE DEF alive
  <2>3. l = m
    <3> HIDE DEF m
    <3> QED BY <1>0, <1>1, <2>1, MainFacts DEF Goto
  <2> QED BY <1>1, <2>2, <2>3
<1>8. l = "pcs_wait" => \A j \in 1 .. Len(a) : ~Live(a[j])'
  BY <1>3, <1>4, <1>7 DEF Sure, Believed, Live
<1>9. l \in PcsLabels /\ l # "pcs_create" /\ l # "error" /\ pc'[Main] = l /\ Len(a) = max
  BY <1>0, <1>1, <1>7 DEF PcsLabels
<1> QED BY <1>1, <1>3, <1>4, <1>5, <1>6, <1>8, <1>9, PcsGoesTo

\* What the three calls of the loop have in common, and where they are made.
LEMMA PcsTarget ==
  ASSUME PcsInv, NEW x \in {"pcs_act", "pcs_unblock"}, At(x),
         NEW q, q = pids[waited + 1], NEW v, v = rq[waited + 1]
  PROVE  q \in Programs /\ q \in Slots /\ v \in Verdicts /\ Believed(v, q)
<1>1. x \in OtherMain /\ x \in {"pcs_act", "pcs_unblock", "pcs_wait"} /\ x # "pcs_wait"
  BY DEF OtherMain
<1>2. PICK i : i = waited + 1
  OBVIOUS
<1>3. /\ i \in 1 .. Len(pids) /\ Sure(pids, rq)
      /\ \A j \in 1 .. Len(pids) : pids[j] \in Programs /\ rq[j] \in Verdicts
  BY <1>1, <1>2, PcsMain
<1> QED BY <1>2, <1>3 DEF Sure, Programs

\* A verdict that nothing happens to.
LEMMA PcsSkips ==
  ASSUME PcsInv, OtherInv', NEW x \in {"pcs_act", "pcs_unblock"}, At(x),
         TableStays, UNCHANGED schedVars, max' = max, Goes(rq[waited + 1])
  PROVE  PcsInv'
<1>0. PICK q, v : q = pids[waited + 1] /\ v = rq[waited + 1]
  OBVIOUS
<1>1. q \in Programs /\ v \in Verdicts /\ Believed(v, q)
  BY <1>0, PcsTarget
<1>2. WaitInv /\ WaitInv' /\ Quiet
  BY NoKernelStep DEF PcsInv
<1>3. Believed(v, q)' /\ \A p \in Programs \ {q} : Keeps(p)
  BY <1>1, <1>2, BelievedStays DEF Quiet
<1>4. Goes(v) /\ waiting'[Main] = NoPid
  BY <1>0 DEF TableStays, PcsInv
<1> QED BY <1>0, <1>1, <1>2, <1>3, <1>4, PcsGoes

LEMMA PcsKillsInv ==
  ASSUME PcsInv, OtherInv', PcsKills
  PROVE  PcsInv'
<1>0. PICK q, v : q = pids[waited + 1] /\ v = rq[waited + 1]
  OBVIOUS
<1>1. At("pcs_act") /\ max' = max
  BY DEF PcsKills, OthersStay, choiceVars
<1>2. q \in Programs /\ q \in Slots /\ v \in Verdicts /\ Believed(v, q) /\ WaitInv
  BY <1>0, <1>1, PcsTarget DEF PcsInv
<1>3. CASE v = "KILLED"
  <2>1. Goes(v) /\ TableStays /\ UNCHANGED schedVars
    BY <1>0, <1>3 DEF PcsKills, procVars, TableStays
  <2> QED BY <1>0, <1>1, <2>1, PcsSkips
<1>4. CASE v # "KILLED"
  <2>1. Live(q) /\ state[q] # "INVALID" /\ state[q] # "ZOMBIE"
    BY <1>2, <1>4, BelievedLives DEF Verdicts
  <2>2. Goes("KILLED") /\ SysKill(q)
    BY <1>0, <1>2, <1>4, <2>1 DEF PcsKills, IsPidValid, Kernel
  <2>3. Kill(q)
    BY <2>2 DEF SysKill
  <2>4. /\ WaitInv' /\ state'[q] = "ZOMBIE" /\ waiting'[Main] = waiting[Main]
        /\ \A p \in Programs \ {q} : Keeps(p)
    BY <1>2, <2>3, KillKeeps
  <2>5. Believed("KILLED", q)' /\ "KILLED" \in Verdicts /\ waiting'[Main] = NoPid
    BY <2>4 DEF Believed, Verdicts, PcsInv
  <2> QED BY <1>0, <1>1, <2>2, <2>4, <2>5, PcsGoes
<1> QED BY <1>3, <1>4

LEMMA PcsBlocksInv ==
  ASSUME PcsInv, OtherInv', PcsBlocks
  PROVE  PcsInv'
<1>0. PICK q, v : q = pids[waited + 1] /\ v = rq[waited + 1]
  OBVIOUS
<1>1. At("pcs_act") /\ TableStays /\ max' = max
  BY DEF PcsBlocks, OthersStay, choiceVars
<1>2. q \in Programs /\ q \in Slots /\ v \in Verdicts /\ Believed(v, q) /\ WaitInv
  BY <1>0, <1>1, PcsTarget DEF PcsInv
<1>3. CASE v # "RUNNING"
  <2>1. Goes(v) /\ UNCHANGED schedVars
    BY <1>0, <1>3 DEF PcsBlocks
  <2> QED BY <1>0, <1>1, <2>1, PcsSkips
<1>4. CASE v = "RUNNING"
  <2>1. Live(q) /\ state[q] # "INVALID" /\ state[q] # "ZOMBIE"
        /\ state[q] \in {"READY", "RUNNING"}
    BY <1>2, <1>4, BelievedLives DEF Believed
  <2>2. Goes("BLOCKED") /\ SysBlock(q)
    BY <1>0, <1>2, <1>4, <2>1 DEF PcsBlocks, IsPidValid, Kernel
  <2>3. WaitInv' /\ \A p \in Programs \ {q} : Keeps(p)
    BY <1>1, <1>2, <2>2, ActsKeep
  <2>4. state'[q] = "BLOCKED" /\ blocks_amount'[q] = 1
    BY <1>2, <2>1, <2>2, BlockMarks
  <2>5. Believed("BLOCKED", q)' /\ "BLOCKED" \in Verdicts /\ waiting'[Main] = NoPid
    BY <1>1, <2>4 DEF Believed, Verdicts, PcsInv, TableStays
  <2> QED BY <1>0, <1>1, <2>2, <2>3, <2>5, PcsGoes
<1> QED BY <1>3, <1>4

LEMMA PcsUnblocksInv ==
  ASSUME PcsInv, OtherInv', PcsUnblocks
  PROVE  PcsInv'
<1>0. PICK q, v : q = pids[waited + 1] /\ v = rq[waited + 1]
  OBVIOUS
<1>1. At("pcs_unblock") /\ TableStays /\ max' = max
  BY DEF PcsUnblocks, OthersStay, choiceVars
<1>2. q \in Programs /\ q \in Slots /\ v \in Verdicts /\ Believed(v, q) /\ WaitInv
  BY <1>0, <1>1, PcsTarget DEF PcsInv
<1>3. CASE Goes(v) /\ UNCHANGED schedVars
  BY <1>0, <1>1, <1>3, PcsSkips
<1>4. CASE ~(Goes(v) /\ UNCHANGED schedVars)
  <2>1. v = "BLOCKED"
    BY <1>0, <1>4 DEF PcsUnblocks
  <2>2. state[q] = "BLOCKED" /\ blocks_amount[q] = 1 /\ state[q] # "INVALID"
    BY <1>2, <2>1 DEF Believed
  <2>3. Goes("RUNNING") /\ SysUnblock(q)
    BY <1>0, <1>2, <1>4, <2>2 DEF PcsUnblocks, IsPidValid, Kernel
  <2>4. WaitInv' /\ \A p \in Programs \ {q} : Keeps(p)
    BY <1>1, <1>2, <2>3, ActsKeep
  <2>5. state'[q] = "READY"
    BY <1>2, <2>2, <2>3, UnblockMarks
  <2>6. Believed("RUNNING", q)' /\ "RUNNING" \in Verdicts /\ waiting'[Main] = NoPid
    BY <1>1, <2>5 DEF Believed, Verdicts, PcsInv, TableStays
  <2> QED BY <1>0, <1>1, <2>3, <2>4, <2>6, PcsGoes
<1> QED BY <1>3, <1>4

\* The loop of waits: all of them have been killed, so none of them blocks Main.
LEMMA PcsWaitsInv ==
  ASSUME PcsInv, OtherInv', PcsWaits
  PROVE  PcsInv'
<1>0. PICK q, a, v : q = pids[waited + 1] /\ a = pids /\ v = rq
  OBVIOUS
<1>1. /\ Caller = Main /\ pc[Main] = "pcs_wait"
      /\ pc \in [Slots -> ChildLabels \cup OtherMain]
      /\ a \in Seq(Programs) /\ v \in Seq(Verdicts) /\ Len(a) \in Nat /\ Len(v) = Len(a)
      /\ max \in Nat \ {0} /\ \A j \in 1 .. Len(a) : a[j] \in Programs
      /\ Len(a) = max /\ waited + 1 \in 1 .. max /\ waited \in Nat
  BY <1>0, PcsMain DEF PcsWaits, OtherMain
<1>2. /\ WaitInv /\ waiting[Main] = NoPid /\ \A j \in 1 .. Len(a) : ~Live(a[j])
      /\ \A p \in Slots \ {Main} : pc[p] \in {"spin", "gone"}
      /\ q \in Programs /\ q \in Slots /\ ~Live(q)
  BY <1>0, <1>1 DEF PcsInv, Programs
<1>3. /\ SysWait(q) \/ (~IsPidValid(Kernel, q) /\ UNCHANGED procVars)
      /\ max' = max
  BY <1>0 DEF PcsWaits, WaitsFor, OthersStay, choiceVars
<1>4. /\ WaitInv' /\ waiting'[Main] = NoPid /\ ~Live(q)'
      /\ \A p \in Programs \ {q} : Keeps(p)
  <2>1. CASE SysWait(q)
    <3>1. /\ WaitInv' /\ state'[q] = "INVALID" /\ waiting' = waiting
          /\ \A p \in Programs \ {q} : Keeps(p)
      BY <1>1, <1>2, <2>1, WaitKeeps
    <3> QED BY <1>2, <3>1 DEF Live
  <2>2. CASE ~IsPidValid(Kernel, q) /\ UNCHANGED procVars
    <3>1. TableStays /\ UNCHANGED schedVars
      BY <2>2 DEF procVars, TableStays
    <3>2. WaitInv' /\ Quiet /\ waiting' = waiting
      BY <1>2, <3>1, NoKernelStep DEF TableStays
    <3> QED BY <1>2, <3>2 DEF Quiet, Keeps, Kept
  <2> QED BY <1>3, <2>1, <2>2
<1>5. \A j \in 1 .. Len(a) : ~Live(a[j])'
  <2> SUFFICES ASSUME NEW j \in 1 .. Len(a)
               PROVE  ~Live(a[j])'
    OBVIOUS
  <2>1. CASE a[j] = q
    BY <1>4, <2>1 DEF Live
  <2>2. CASE a[j] # q
    BY <1>1, <1>2, <1>4, <2>2 DEF Keeps, Kept
  <2> QED BY <2>1, <2>2
<1>6. CASE waited + 1 < max
  <2>1. waited' = waited + 1 /\ pc' = pc /\ pids' = a /\ rq' = v
    BY <1>0, <1>6 DEF PcsWaits
  <2>2. PICK w : w = waited + 1 /\ w \in Nat /\ w < max
    BY <1>1, <1>6
  <2>3. "pcs_wait" \in PcsLabels /\ pc'[Main] = "pcs_wait" /\ waited' = w
        /\ \A p \in Slots \ {Main} : pc'[p] \in {"spin", "gone"}
    BY <1>1, <1>2, <2>1, <2>2 DEF PcsLabels
  <2> QED BY <1>1, <1>3, <1>4, <1>5, <2>1, <2>2, <2>3, PcsGoesTo
<1>7. CASE ~(waited + 1 < max)
  <2>1. waited' = 0 /\ pids' = <<>> /\ rq' = <<>> /\ Goto(Main, "pcs_create")
    BY <1>7 DEF PcsWaits
  <2>2. PICK b : b = <<>> /\ pids' = b /\ rq' = b
    BY <2>1
  <2>3. b \in Seq(Programs) /\ b \in Seq(Verdicts) /\ Len(b) = 0
        /\ \A j : j \notin 1 .. Len(b)
    BY <2>2, EmptySeq
  <2>4. Sure(b, b)'
    BY <2>3 DEF Sure
  <2>5. "pcs_create" \in PcsLabels /\ pc'[Main] = "pcs_create" /\ 0 < max /\ 0 \in Nat
        /\ \A p \in Slots \ {Main} : pc'[p] \in {"spin", "gone"}
    BY <1>1, <1>2, <2>1, MainFacts DEF PcsLabels, Goto
  <2> QED BY <1>3, <1>4, <2>1, <2>2, <2>3, <2>4, <2>5, PcsGoesTo
<1> QED BY <1>6, <1>7

LEMMA PcsNextInv ==
  ASSUME OnlyShellCreates, PcsInv, [TestNext]_testVars
  PROVE  PcsInv'
<1>1. OtherInv /\ OtherInv' /\ WaitInv
  BY OtherNextInv DEF PcsInv
<1>2. ASSUME NEW l, At(l), l \notin {"spin", "gone"}
      PROVE  l \in PcsLabels
  <2>1. /\ Caller \in Slots /\ pc[Caller] = l
        /\ l \in ChildLabels => Caller \in Programs
        /\ l \in OtherMain => Caller = Main
    BY <1>1, <1>2, OtherRuns
  <2>2. l \in ChildLabels \cup OtherMain
    BY <1>1, <1>2, OtherAt
  <2> QED BY <1>2, <2>1, <2>2, MainFacts DEF PcsInv
<1>3. CASE UNCHANGED testVars
  <2>1. TableStays /\ UNCHANGED schedVars /\ UNCHANGED <<progVars, choiceVars, round, rq>>
    BY <1>3 DEF testVars, syncVars, procVars, TableStays
  <2> QED BY <2>1, PcsTicks
<1>4. CASE SyncStep
  <2>1. ~(UserStep /\ ~Returns)
    <3>1. {"create", "wait", "open", "enter", "read", "yield", "write", "leave", "close",
           "exit"} \cap (PcsLabels \cup {"spin", "gone"}) = {}
      BY DEF PcsLabels
    <3> QED BY <1>2, <3>1 DEF UserStep, MainCreates, MainWaits, WorkerOpens, WorkerEnters,
            WorkerReads, WorkerYields, WorkerWrites, WorkerLeaves, WorkerCloses, WorkerExits
  <2>2. ~Returns
    <3>1. ASSUME WaitReturns
          PROVE  FALSE
      <4>1. Caller = SHELL_PID
        BY <1>1, <3>1, ReturnFacts
      <4> QED BY <3>1, <4>1 DEF WaitReturns, InWait, PcsInv, Main
    <3> QED BY <3>1 DEF Returns
  <2>3. SyncTick /\ UNCHANGED <<choiceVars, round, rq>>
    BY <1>4, <2>1, <2>2 DEF SyncStep
  <2>4. TableStays /\ TimerTick /\ UNCHANGED progVars
    BY <2>3 DEF SyncTick
  <2> QED BY <2>3, <2>4, PcsTicks
<1>5. ~PrioStep
  <2>1. {"prio_create", "prio_block", "prio_nice", "prio_unblock", "prio_wait", "count"}
          \cap (PcsLabels \cup {"spin", "gone"}) = {}
    BY DEF PcsLabels
  <2> QED BY <1>2, <2>1 DEF PrioStep, PrioCreates, PrioBlocks, PrioIsNice, PrioUnblocks,
          PrioWaits, ChildCounts
<1>6. CASE PcsStep
  BY <1>1, <1>6, PcsCreatesInv, PcsKillsInv, PcsBlocksInv, PcsUnblocksInv, PcsWaitsInv
     DEF PcsStep
<1> QED BY <1>3, <1>4, <1>5, <1>6 DEF TestNext

LEMMA PcsInitInv ==
  ASSUME SyncStart("pcs_create"), OtherInv, max \in MaxProcesses, rq = <<>>
  PROVE  PcsInv
<1>1. "pcs_create" \in PcsLabels
  BY DEF PcsLabels
<1>2. PICK a : a = <<>>
  OBVIOUS
<1>3. /\ WaitInv /\ pc[Main] = "pcs_create" /\ pids = a /\ rq = a /\ waited = 0
      /\ pc = [p \in Slots |-> IF p = Main THEN "pcs_create" ELSE "gone"]
      /\ waiting[Main] = NoPid
  BY <1>2, TestStarts
<1>4. /\ a \in Seq(Programs) /\ a \in Seq(Verdicts) /\ Len(a) = 0
      /\ \A i : i \notin 1 .. Len(a)
  BY <1>2, EmptySeq
<1>5. max \in Nat \ {0} /\ 0 < max
  <2>1. max \in Nat \ {0}
    BY TestAssumption
  <2> QED BY <2>1
<1>6. Sure(pids, rq)
  BY <1>3, <1>4 DEF Sure
<1>7. \A p \in Slots \ {Main} : pc[p] = "gone"
  BY <1>3
<1> QED BY <1>1, <1>3, <1>4, <1>5, <1>6, <1>7 DEF PcsInv

-----------------------------------------------------------------------------
(* The three programs together: the one that runs was chosen at the start. *)

ProgramInv == \/ program = "sync" /\ SyncInv /\ SyncLeft
              \/ program = "prio" /\ PrioInv
              \/ program = "pcs" /\ PcsInv

LEMMA OtherInitInv ==
  ASSUME NEW l \in OtherMain, SyncStart(l), round = 1
  PROVE  OtherInv
<1>1. pc = [p \in Slots |-> IF p = Main THEN l ELSE "gone"]
  BY DEF SyncStart
<1>2. "gone" \in ChildLabels /\ 1 \in 1 .. 4
  BY DEF ChildLabels
<1> QED BY <1>1, <1>2, MainFacts DEF OtherInv

\* test-sync takes no step of the other two.
LEMMA SyncLeftTest ==
  ASSUME USE_SEM, OnlyShellCreates, SyncInv, SyncLeft, [TestNext]_testVars
  PROVE  SyncLeft'
<1>1. CASE UserStep \/ SyncTick
  BY <1>1, SyncLeftNext
<1>2. CASE UNCHANGED testVars
  <2>1. UNCHANGED <<pids, waited, pc, state, waiting>>
    BY <1>2 DEF testVars, syncVars, procVars, schedVars, progVars
  <2> QED BY <2>1 DEF SyncLeft, Due
<1>3. ~PrioStep /\ ~PcsStep
  BY SyncAlone
<1> QED BY <1>1, <1>2, <1>3 DEF TestNext, SyncStep

LEMMA ProgramInitInv ==
  ASSUME TestInit
  PROVE  ProgramInv
<1>1. /\ SyncStart(FirstLabel[program]) /\ rq = <<>>
      /\ program \in {"sync", "prio", "pcs"}
      /\ program = "pcs" => max \in MaxProcesses
  BY DEF TestInit, FirstLabel
<1>2. /\ FirstLabel["sync"] = "create" /\ FirstLabel["prio"] = "prio_create"
      /\ FirstLabel["pcs"] = "pcs_create"
  BY DEF FirstLabel
<1>3. CASE program = "sync"
  BY <1>1, <1>2, <1>3, SyncInitInv, SyncLeftInit DEF ProgramInv
<1>4. CASE program # "sync"
  <2>1. OtherInv
    BY <1>1, <1>2, <1>4, OtherInitInv DEF TestInit, OtherMain
  <2> QED BY <1>1, <1>2, <1>4, <2>1, PrioInitInv, PcsInitInv DEF ProgramInv
<1> QED BY <1>3, <1>4

LEMMA ProgramStays ==
  ASSUME [TestNext]_testVars
  PROVE  program' = program
BY DEF TestNext, SyncStep, PrioStep, PcsStep, PrioCreates, PrioBlocks, PrioIsNice,
   PrioUnblocks, PrioWaits, ChildCounts, PcsCreates, PcsKills, PcsBlocks, PcsUnblocks,
   PcsWaits, OthersStay, testVars, choiceVars

LEMMA ProgramNextInv ==
  ASSUME USE_SEM, OnlyShellCreates, ProgramInv, [TestNext]_testVars
  PROVE  ProgramInv'
<1>1. program' = program
  BY ProgramStays
<1>2. CASE program = "sync" /\ SyncInv /\ SyncLeft
  <2>1. SyncInv'
    BY <1>2, SyncNextInv
  <2>2. SyncLeft'
    BY <1>2, SyncLeftTest
  <2> QED BY <1>1, <1>2, <2>1, <2>2 DEF ProgramInv
<1>3. CASE program = "prio" /\ PrioInv
  BY <1>1, <1>3, PrioNextInv DEF ProgramInv
<1>4. CASE program = "pcs" /\ PcsInv
  BY <1>1, <1>4, PcsNextInv DEF ProgramInv
<1> QED BY <1>2, <1>3, <1>4 DEF ProgramInv

\* test-pcs never prints that it has come to an end.
LEMMA PcsGoesOn ==
  ASSUME PcsInv
  PROVE  NothingLeftBehind
BY DEF PcsInv, PcsLabels, NothingLeftBehind, Over

LEMMA PcsBeliefs ==
  ASSUME PcsInv
  PROVE  BeliefsHold
<1>1. pc[Main] = "error" => FreeSlots(Kernel) = {}
  BY DEF PcsInv
<1>2. ASSUME pc[Main] # "pcs_wait", NEW i \in DOMAIN rq
      PROVE  /\ rq[i] = "RUNNING" <=> state[pids[i]] \in {"READY", "RUNNING"}
             /\ rq[i] = "BLOCKED" <=> state[pids[i]] = "BLOCKED"
  <2>1. rq \in Seq(Verdicts) /\ Len(rq) = Len(pids) /\ Sure(pids, rq)
    BY <1>2 DEF PcsInv
  <2>2. i \in 1 .. Len(pids) /\ rq[i] \in Verdicts
    BY <1>2, <2>1, ElementOfSeq, LenProperties
  <2> QED BY <2>1, <2>2 DEF Sure, Believed, Verdicts
<1> QED BY <1>1, <1>2 DEF BeliefsHold

LEMMA OtherBeliefs ==
  ASSUME program # "pcs", pc[Main] # "error"
  PROVE  BeliefsHold
BY DEF BeliefsHold

\* When test-sync or test-prio is over none of the processes it has created is
\* left in the table, and no semaphore is open, however many it is told to
\* create, whichever slots they are given and whenever the timer ticks.
THEOREM TestsLeaveNothing ==
  ASSUME USE_SEM, OnlyShellCreates
  PROVE  TestSpec => []NothingLeftBehind
<1>1. TestInit => ProgramInv
  BY ProgramInitInv
<1>2. ProgramInv /\ [TestNext]_testVars => ProgramInv'
  BY ProgramNextInv
<1>3. ProgramInv => NothingLeftBehind
  BY SyncLeavesNothing, PrioLeavesNothing, PcsGoesOn DEF ProgramInv
<1> QED BY <1>1, <1>2, <1>3, PTL DEF TestSpec

\* Where test-sync is, with its semaphore or without.
SyncLabels == WorkerLabels \cup MainLabels \cup {"gone"}

LEMMA SyncLabelsNext ==
  ASSUME pc \in [Slots -> SyncLabels], [TestNext]_testVars
  PROVE  pc' \in [Slots -> SyncLabels]
<1>1. \A l : At(l) => l \in SyncLabels
  BY DEF At, UserRuns, CurrentRuns, Kernel, Caller
<1>2. ~PrioStep /\ ~PcsStep
  <2>1. {"prio_create", "prio_block", "prio_nice", "prio_unblock", "prio_wait", "count",
         "pcs_create", "pcs_act", "pcs_unblock", "pcs_wait"} \cap SyncLabels = {}
    BY DEF SyncLabels, WorkerLabels, UseLabels, HoldLabels, MainLabels
  <2>2. ~PrioStep
    BY <1>1, <2>1 DEF PrioStep, PrioCreates, PrioBlocks, PrioIsNice, PrioUnblocks,
       PrioWaits, ChildCounts
  <2>3. ~PcsStep
    BY <1>1, <2>1 DEF PcsStep, PcsCreates, PcsKills, PcsBlocks, PcsUnblocks, PcsWaits
  <2> QED BY <2>2, <2>3
<1>3. {"open", "enter", "read", "yield", "write", "leave", "close", "exit", "gone",
       "create", "wait", "print"} \subseteq SyncLabels
  BY DEF SyncLabels, WorkerLabels, UseLabels, HoldLabels, MainLabels
<1>4. CASE UNCHANGED pc
  BY <1>4
<1>5. CASE MainCreates
  <2>1. PICK q, l, m : /\ pc' = [pc EXCEPT ![q] = l, ![Main] = m]
                       /\ l \in {"open", "read"} /\ m \in {"create", "wait"}
    BY <1>5 DEF MainCreates
  <2> QED BY <1>3, <2>1
<1>6. CASE UserStep /\ ~MainCreates /\ ~Returns
  <2>1. PICK p, l : Goto(p, l) /\ l \in {"open", "enter", "read", "yield", "write", "leave",
                                        "close", "exit", "gone", "wait", "print"}
    BY <1>6 DEF UserStep, MainWaits, WorkerOpens, WorkerEnters, WorkerReads, WorkerYields,
       WorkerWrites, WorkerLeaves, WorkerCloses, WorkerExits
  <2> QED BY <1>3, <2>1 DEF Goto
<1>7. Returns \/ SyncTick \/ UNCHANGED testVars => UNCHANGED pc
  BY DEF Returns, SyncTick, testVars, syncVars, progVars
<1> QED BY <1>2, <1>4, <1>5, <1>6, <1>7 DEF TestNext, SyncStep, UserStep

BeliefInv == \/ program = "sync" /\ pc \in [Slots -> SyncLabels]
             \/ program = "prio" /\ PrioInv
             \/ program = "pcs" /\ PcsInv

\* test-pcs is right about every process it has created at every instant
\* between its calls, for any number of processes, and so reports an error only
\* when create_process() finds the table full.
THEOREM TestPcsIsRight ==
  ASSUME OnlyShellCreates
  PROVE  TestSpec => []BeliefsHold
<1>1. TestInit => BeliefInv
  <2> SUFFICES ASSUME TestInit, program = "sync"
               PROVE  pc \in [Slots -> SyncLabels]
    BY ProgramInitInv DEF BeliefInv, ProgramInv
  <2>1. SyncStart("create")
    BY DEF TestInit, FirstLabel
  <2>2. {"create", "gone"} \subseteq SyncLabels
    BY DEF SyncLabels, MainLabels
  <2> QED BY <2>1, <2>2 DEF SyncStart
<1>2. BeliefInv /\ [TestNext]_testVars => BeliefInv'
  BY ProgramStays, SyncLabelsNext, PrioNextInv, PcsNextInv DEF BeliefInv
<1>3. BeliefInv => BeliefsHold
  <2>1. CASE program = "sync" /\ pc \in [Slots -> SyncLabels]
    <3>1. "error" \notin SyncLabels
      BY DEF SyncLabels, WorkerLabels, UseLabels, HoldLabels, MainLabels
    <3>2. pc[Main] # "error"
      BY <2>1, <3>1, MainFacts
    <3> QED BY <2>1, <3>2, OtherBeliefs
  <2>2. CASE program = "prio" /\ PrioInv
    <3>1. pc[Main] # "error"
      BY <2>2 DEF PrioInv, PrioLabels
    <3> QED BY <2>2, <3>1, OtherBeliefs
  <2> QED BY <2>1, <2>2, PcsBeliefs DEF BeliefInv
<1> QED BY <1>1, <1>2, <1>3, PTL DEF TestSpec

-----------------------------------------------------------------------------
(* The sum of test-sync.  What the shared variable still lacks is counted   *)
(* and not added up: ToDo(s) has one element for each increment by s that  *)
(* is still to be made, and while the number of processes created is odd   *)
(* the last of them has no partner yet.                                    *)

\* Without an entry for its semaphore a worker gives up at once.
Goal == IF MAX_SEMAPHORES = 0 THEN 0 ELSE LOOPS

Owes(p, s, k) == Live(p) /\ inc[p] = s /\ done[p] <= k

ToDo(s) == {x \in Programs \X (0 .. Goal - 1) : Owes(x[1], s, x[2])}

Unpaired == IF Len(pids) % 2 = 0 THEN 0 ELSE Goal

\* How far p is; between its read and its write nobody else has written.
Tells(p) ==
  /\ inc[p] \in {-1, 1} /\ done[p] \in 0 .. Goal
  /\ pc[p] = "open" => done[p] = 0
  /\ pc[p] \in {"enter", "read", "yield", "write"} => done[p] < Goal
  /\ pc[p] \in {"close", "exit"} => done[p] = Goal
  /\ pc[p] \in UseLabels => Goal # 0
  /\ pc[p] \in {"yield", "write"} => aux[p] = global

TallyTypes == /\ inc \in [Slots -> Int] /\ done \in [Slots -> Int]
              /\ aux \in [Slots -> Int] /\ global \in Int

Tally == /\ TallyTypes
         /\ \A p \in Programs : Live(p) => Tells(p)
         /\ global = Cardinality(ToDo(-1)) - Cardinality(ToDo(1)) - Unpaired

LEMMA GoalFacts == Goal \in Nat /\ LOOPS \in Nat /\ LOOPS # 0
BY SyncAssumption DEF Goal

LEMMA ToDoFinite ==
  ASSUME NEW s
  PROVE  IsFiniteSet(ToDo(s)) /\ Cardinality(ToDo(s)) \in Nat
<1>1. IsFiniteSet(Programs)
  BY JobsFinite
<1>2. IsFiniteSet(0 .. Goal - 1)
  BY GoalFacts, FS_Interval
<1>3. IsFiniteSet(Programs \X (0 .. Goal - 1))
  BY <1>1, <1>2, FS_Product
<1>4. IsFiniteSet(ToDo(s))
  BY <1>3, FS_Subset DEF ToDo
<1> QED BY <1>4, FS_CardinalityType

\* Nobody is added, and whoever ends has done what it had to.
LEMMA TallyStays ==
  ASSUME Tally, TallyTypes', UNCHANGED <<pids, inc, done, global>>,
         \A p \in Programs : Live(p)' => Live(p) /\ Tells(p)',
         \A p \in Programs : Live(p) /\ ~Live(p)' => done[p] = Goal
  PROVE  Tally'
<1>1. ASSUME NEW s
      PROVE  ToDo(s)' = ToDo(s)
  <2>1. \A p \in Programs, k \in 0 .. Goal - 1 : Owes(p, s, k)' <=> Owes(p, s, k)
    BY GoalFacts DEF Owes
  <2> QED BY <2>1 DEF ToDo
<1>2. ToDo(-1)' = ToDo(-1) /\ ToDo(1)' = ToDo(1)
  BY <1>1
<1>3. Unpaired' = Unpaired
  BY DEF Unpaired
<1> QED BY <1>2, <1>3 DEF Tally

LEMMA TallyInit ==
  ASSUME SyncStart("create")
  PROVE  Tally
<1>1. /\ pids = <<>> /\ global = 0 /\ TallyTypes
      /\ \A p \in Programs : state[p] = "INVALID"
  <2>1. /\ state = [p \in Slots |-> IF p = IDLE_PID THEN "BLOCKED"
                                    ELSE IF p = SHELL_PID THEN "RUNNING" ELSE "INVALID"]
    BY FirstIsAClient, ShellAssumption, ShellIsNotIdle
       DEF SyncStart, ProcInit, SchedInit
  <2> QED BY <2>1, MainFacts DEF SyncStart, Programs, TallyTypes
<1>2. ToDo(-1) = {} /\ ToDo(1) = {}
  BY <1>1 DEF ToDo, Owes, Live
<1>3. Cardinality(ToDo(-1)) = 0 /\ Cardinality(ToDo(1)) = 0
  BY <1>2, FS_EmptySet
<1>4. Unpaired = 0
  <2>1. Len(<<>>) = 0
    BY EmptySeq
  <2> QED BY <1>1, <2>1 DEF Unpaired
<1> QED BY <1>1, <1>3, <1>4 DEF Tally, Live

\* What is to be done by s grows by all that q has to do.
LEMMA ToDoGrows ==
  ASSUME NEW s, NEW q \in Programs, ~Live(q), Live(q)', inc'[q] = s, done'[q] = 0,
         \A p \in Programs \ {q} : /\ Live(p)' <=> Live(p)
                                   /\ inc'[p] = inc[p] /\ done'[p] = done[p]
  PROVE  /\ Cardinality(ToDo(s)') = Cardinality(ToDo(s)) + Goal
         /\ \A r : r # s => ToDo(r)' = ToDo(r)
<1> DEFINE D == {q} \X (0 .. Goal - 1)
<1>1. \A r, k : \A p \in Programs \ {q} : Owes(p, r, k)' <=> Owes(p, r, k)
  BY DEF Owes
<1>2. \A r, k : ~Owes(q, r, k)
  BY DEF Owes
<1>3. \A r : \A k \in 0 .. Goal - 1 : Owes(q, r, k)' <=> r = s
  BY GoalFacts DEF Owes
<1>4. ToDo(s)' = ToDo(s) \cup D
  BY <1>1, <1>2, <1>3 DEF ToDo
<1>5. \A r : r # s => ToDo(r)' = ToDo(r)
  BY <1>1, <1>2, <1>3 DEF ToDo
<1>6. IsFiniteSet(D) /\ Cardinality(D) = Goal
  <2>1. IsFiniteSet({q}) /\ Cardinality({q}) = 1
    BY FS_Singleton
  <2>2. IsFiniteSet(0 .. Goal - 1) /\ Cardinality(0 .. Goal - 1) = Goal
    BY GoalFacts, FS_Interval
  <2>3. IsFiniteSet(D) /\ Cardinality(D) = Cardinality({q}) * Cardinality(0 .. Goal - 1)
    BY <2>1, <2>2, FS_Product
  <2> QED BY <2>1, <2>2, <2>3, GoalFacts
<1>7. ToDo(s) \cap D = {}
  BY <1>2 DEF ToDo
<1>8. IsFiniteSet(ToDo(s)) /\ Cardinality(ToDo(s)) \in Nat
  BY ToDoFinite
<1> HIDE DEF D
<1>9. Cardinality(ToDo(s) \cup D)
        = Cardinality(ToDo(s)) + Cardinality(D) - Cardinality(ToDo(s) \cap D)
  BY <1>6, <1>8, FS_Union
<1>10. Cardinality(ToDo(s) \cap D) = 0
  BY <1>7, FS_EmptySet
<1>11. Cardinality(ToDo(s) \cup D) = Cardinality(ToDo(s)) + Goal
  BY <1>6, <1>8, <1>9, <1>10, GoalFacts
<1> QED BY <1>4, <1>5, <1>11

\* It shrinks by one when c has made an increment.
LEMMA ToDoShrinks ==
  ASSUME Tally, NEW c \in Programs, Live(c), done[c] < Goal,
         done' = [done EXCEPT ![c] = done[c] + 1], inc' = inc,
         \A p \in Programs : Live(p)' <=> Live(p)
  PROVE  /\ Cardinality(ToDo(inc[c])') = Cardinality(ToDo(inc[c])) - 1
         /\ \A r : r # inc[c] => ToDo(r)' = ToDo(r)
<1> DEFINE x == <<c, done[c]>>
<1>1. done[c] \in 0 .. Goal /\ done[c] \in 0 .. Goal - 1 /\ done \in [Slots -> Int] /\ c \in Slots
  BY GoalFacts DEF Tally, TallyTypes, Tells, Programs
<1>2. \A r, k : \A p \in Programs \ {c} : Owes(p, r, k)' <=> Owes(p, r, k)
  BY <1>1 DEF Owes, Programs
<1>3. \A r : \A k \in 0 .. Goal - 1 : Owes(c, r, k)' <=> Owes(c, r, k) /\ k # done[c]
  BY <1>1, GoalFacts DEF Owes
<1>4. x \in ToDo(inc[c])
  BY <1>1 DEF ToDo, Owes
<1>5. ToDo(inc[c])' = ToDo(inc[c]) \ {x}
  <2>1. PICK s : s = inc[c]
    OBVIOUS
  <2>2. ToDo(s)' = ToDo(s) \ {x}
    BY <1>2, <1>3 DEF ToDo
  <2>3. ToDo(inc[c])' = ToDo(s)'
    BY <2>1 DEF ToDo, Owes
  <2> QED BY <2>1, <2>2, <2>3
<1>6. \A r : r # inc[c] => ToDo(r)' = ToDo(r)
  <2> SUFFICES ASSUME NEW r, r # inc[c]
               PROVE  ToDo(r)' = ToDo(r)
    OBVIOUS
  <2>1. \A k : ~Owes(c, r, k)
    BY DEF Owes
  <2> QED BY <1>2, <1>3, <2>1 DEF ToDo
<1>7. IsFiniteSet(ToDo(inc[c]))
  BY ToDoFinite
<1>8. Cardinality(ToDo(inc[c]) \ {x}) = Cardinality(ToDo(inc[c])) - 1
  BY <1>4, <1>7, FS_RemoveElement
<1> QED BY <1>5, <1>6, <1>8

\* Who has read the shared variable and not yet written it is alone in slowInc().
LEMMA OneWrites ==
  ASSUME SyncInv, NEW c \in Programs, NEW p \in Programs, Live(c), Live(p),
         pc[c] \in {"yield", "write"}, pc[p] \in {"yield", "write"}
  PROVE  p = c
<1>1. p \notin Sleepers /\ c \notin Sleepers
  BY DEF SyncInv, Control
<1>2. {p, c} \subseteq Inside
  BY <1>1 DEF Inside, Sleepers, Programs
<1>3. IsFiniteSet(Inside)
  <2>1. IsFiniteSet(Programs) /\ Inside \ {IDLE_PID, Main} \subseteq Programs
    BY JobsFinite DEF Inside, Programs, Main
  <2>2. IsFiniteSet(Inside \ {IDLE_PID, Main})
    BY <2>1, FS_Subset
  <2>3. IsFiniteSet((Inside \ {IDLE_PID, Main}) \cup {IDLE_PID} \cup {Main})
    BY <2>2, FS_AddElement
  <2>4. Inside \subseteq (Inside \ {IDLE_PID, Main}) \cup {IDLE_PID} \cup {Main}
    OBVIOUS
  <2> QED BY <2>3, <2>4, FS_Subset
<1>4. Cardinality(Inside) <= 1 /\ Cardinality(Inside) \in Nat
  BY <1>3, OneInside, FS_CardinalityType DEF MutualExclusion
<1>5. Cardinality({p, c}) <= Cardinality(Inside) /\ Cardinality({p, c}) \in Nat
  BY <1>2, <1>3, FS_Subset, FS_CardinalityType
<1>6. ASSUME p # c
      PROVE  FALSE
  <2>1. IsFiniteSet({c}) /\ Cardinality({c}) = 1
    BY FS_Singleton
  <2>2. Cardinality({c} \cup {p}) = Cardinality({c}) + 1
    BY <1>6, <2>1, FS_AddElement
  <2>3. {c} \cup {p} = {p, c}
    OBVIOUS
  <2> QED BY <1>4, <1>5, <2>1, <2>2, <2>3
<1> QED BY <1>6

\* No other semaphore is open, so there is an entry for this one.
LEMMA OpensUnless ==
  ASSUME SyncInv, Tally
  PROVE  SemOpenResult(sems, SEM_ID) = -2 <=> Goal = 0
<1>1. Goal = 0 <=> MAX_SEMAPHORES = 0
  BY GoalFacts DEF Goal
<1>2. CASE sems[SEM_ID].initialized
  <2>1. PICK p \in Users : TRUE
    BY <1>2, SemFacts DEF Agrees
  <2>2. Goal # 0
    BY <2>1 DEF Users, Tally, Tells
  <2> QED BY <1>2, <2>2 DEF SemOpenResult
<1>3. CASE ~sems[SEM_ID].initialized
  <2>1. {n \in SemNames : sems[n].initialized} = {}
    BY <1>3 DEF SyncInv, SemsInv
  <2>2. Cardinality({n \in SemNames : sems[n].initialized}) = 0
    BY <2>1, FS_EmptySet
  <2>3. SlotLeft(sems) <=> MAX_SEMAPHORES # 0
    BY <2>2, SemAssumption DEF SlotLeft
  <2> QED BY <1>1, <1>3, <2>3 DEF SemOpenResult
<1> QED BY <1>2, <1>3

\* A worker goes on to its next label and has not written.
LEMMA TallyGoes ==
  ASSUME Tally, NEW c \in Programs, Live(c), NEW l, Goto(c, l),
         UNCHANGED <<pids, inc, done, global>>, TallyTypes', Control,
         \A p \in Programs \ {c} : aux'[p] = aux[p] /\ (Live(p)' => Live(p)),
         Live(c)' => Tells(c)',
         \A p \in Programs : Live(p) /\ ~Live(p)' => done[p] = Goal
  PROVE  Tally'
<1>1. ASSUME NEW p \in Programs \ {c}, Live(p)'
      PROVE  Live(p) /\ Tells(p)'
  <2>1. pc'[p] = pc[p] /\ aux'[p] = aux[p] /\ Live(p) /\ Tells(p)
    BY <1>1 DEF Goto, Programs, Tally, Control
  <2> QED BY <2>1 DEF Tells
<1> QED BY <1>1, TallyStays

\* Each step of a worker but its write.
LEMMA TallyWorkers ==
  ASSUME SyncInv, Tally,
         \/ WorkerOpens \/ WorkerEnters \/ WorkerReads \/ WorkerYields
         \/ WorkerLeaves \/ WorkerCloses \/ WorkerExits
  PROVE  Tally'
<1>0. PICK c : c = Caller
  OBVIOUS
<1>1. PICK l \in {"open", "enter", "read", "yield", "leave", "close", "exit"} : At(l)
  BY DEF WorkerOpens, WorkerEnters, WorkerReads, WorkerYields, WorkerLeaves,
     WorkerCloses, WorkerExits
<1>2. c \in Programs /\ Live(c) /\ pc[c] = l
  BY <1>0, <1>1, AtFacts DEF WorkerLabels, UseLabels, HoldLabels
<1>3. Tells(c) /\ c \in Slots /\ TallyTypes
  BY <1>2 DEF Tally, Programs
<1>4. Control
  BY DEF SyncInv
<1>5. UNCHANGED <<pids, inc, done, global>>
  BY DEF WorkerOpens, WorkerEnters, WorkerReads, WorkerYields, WorkerLeaves,
     WorkerCloses, WorkerExits
<1>6. /\ TallyTypes'
      /\ \A p \in Programs \ {c} : aux'[p] = aux[p]
      /\ WorkerReads \/ aux' = aux
  <2>1. CASE WorkerReads
    BY <1>0, <1>3, <2>1 DEF WorkerReads, TallyTypes, Programs
  <2>2. CASE ~WorkerReads
    BY <1>3, <2>2 DEF WorkerOpens, WorkerEnters, WorkerYields, WorkerLeaves,
       WorkerCloses, WorkerExits, TallyTypes
  <2> QED BY <2>1, <2>2
<1>7. CASE WorkerExits
  <2>1. Kill(c) /\ Goto(c, "gone") /\ l = "exit"
    BY <1>0, <1>2, <1>7 DEF WorkerExits, SysExit, At
  <2>2. /\ ~Live(c)' /\ \A p \in Programs \ {c} : Live(p)' <=> Live(p)
    BY <1>2, <2>1, KillKeeps DEF SyncInv, Keeps, Kept, Live
  <2>3. done[c] = Goal
    BY <1>2, <1>3, <2>1 DEF Tells
  <2> QED BY <1>2, <1>4, <1>5, <1>6, <2>1, <2>2, <2>3, TallyGoes
<1>8. ASSUME NEW m, Goto(c, m), \A p \in Programs : Live(p)' <=> Live(p), Tells(c)'
      PROVE  Tally'
  BY <1>2, <1>4, <1>5, <1>6, <1>8, TallyGoes
<1>9. ~WorkerExits => \A p \in Programs : Live(p)' <=> Live(p)
  BY WorkersKeep DEF Kept
<1>10. ASSUME NEW m, Goto(c, m)
       PROVE  pc'[c] = m
  BY <1>3, <1>4, <1>10 DEF Goto, Control
<1>11. c \in Users => sems[SEM_ID].initialized
  BY SemFacts DEF Agrees
<1>12. l \in UseLabels => c \in Users
  BY <1>2, LabelFacts
<1>13. CASE WorkerOpens
  <2>1. l = "open"
    BY <1>0, <1>2, <1>13 DEF WorkerOpens, At
  <2> DEFINE m == IF SemOpenResult(sems, SEM_ID) = -2 THEN "exit" ELSE "enter"
  <2>2. Goto(c, m)
    BY <1>0, <1>13 DEF WorkerOpens
  <2>3. m = IF Goal = 0 THEN "exit" ELSE "enter"
    BY OpensUnless
  <2> HIDE DEF m
  <2>4. done[c] = 0 /\ inc[c] \in {-1, 1} /\ pc'[c] = m
    BY <1>2, <1>3, <1>10, <2>1, <2>2 DEF Tells
  <2>5. Tells(c)'
    BY <1>5, <2>3, <2>4, GoalFacts DEF Tells, UseLabels, HoldLabels
  <2>6. ~WorkerExits
    BY <1>1, <2>1 DEF WorkerExits, At
  <2> QED BY <1>8, <1>9, <2>2, <2>5, <2>6
<1>14. CASE WorkerEnters
  <2>1. l = "enter"
    BY <1>0, <1>2, <1>14 DEF WorkerEnters, At
  <2>2. Goto(c, "read")
    BY <1>0, <1>11, <1>12, <1>14, <2>1 DEF WorkerEnters, UseLabels
  <2>3. Tells(c)'
    BY <1>2, <1>3, <1>5, <1>10, <2>1, <2>2 DEF Tells, UseLabels, HoldLabels
  <2>4. ~WorkerExits
    BY <1>1, <2>1 DEF WorkerExits, At
  <2> QED BY <1>8, <1>9, <2>2, <2>3, <2>4
<1>15. CASE WorkerReads
  <2>1. l = "read" /\ Goto(c, "yield") /\ aux' = [aux EXCEPT ![c] = global]
    BY <1>0, <1>2, <1>15 DEF WorkerReads, At
  <2>2. aux'[c] = global
    BY <1>3, <2>1 DEF TallyTypes
  <2>3. Tells(c)'
    BY <1>2, <1>3, <1>5, <1>10, <2>1, <2>2 DEF Tells, UseLabels, HoldLabels
  <2>4. ~WorkerExits
    BY <1>1, <2>1 DEF WorkerExits, At
  <2> QED BY <1>8, <1>9, <2>1, <2>3, <2>4
<1>16. CASE WorkerYields
  <2>1. l = "yield" /\ Goto(c, "write") /\ aux' = aux
    BY <1>0, <1>2, <1>16 DEF WorkerYields, At
  <2>2. Tells(c)'
    BY <1>2, <1>3, <1>5, <1>10, <2>1 DEF Tells, UseLabels, HoldLabels
  <2>3. ~WorkerExits
    BY <1>1, <2>1 DEF WorkerExits, At
  <2> QED BY <1>8, <1>9, <2>1, <2>2, <2>3
<1>17. CASE WorkerLeaves
  <2> DEFINE m == IF done[c] < LOOPS THEN "enter" ELSE "close"
  <2>1. l = "leave"
    BY <1>0, <1>2, <1>17 DEF WorkerLeaves, At
  <2>2. Goto(c, m)
    BY <1>0, <1>11, <1>12, <1>17, <2>1 DEF WorkerLeaves, UseLabels, HoldLabels
  <2>3. Goal # 0 /\ done[c] \in 0 .. Goal /\ inc[c] \in {-1, 1}
    BY <1>2, <1>3, <2>1 DEF Tells, UseLabels, HoldLabels
  <2>4. m = (IF done[c] < Goal THEN "enter" ELSE "close") /\ pc'[c] = m
    BY <1>10, <2>2, <2>3 DEF Goal
  <2> HIDE DEF m
  <2>5. Tells(c)'
    BY <1>5, <2>3, <2>4, GoalFacts DEF Tells, UseLabels, HoldLabels
  <2>6. ~WorkerExits
    BY <1>1, <2>1 DEF WorkerExits, At
  <2> QED BY <1>8, <1>9, <2>2, <2>5, <2>6
<1>18. CASE WorkerCloses
  <2>1. l = "close" /\ Goto(c, "exit")
    BY <1>0, <1>2, <1>18 DEF WorkerCloses, At
  <2>2. Tells(c)'
    BY <1>2, <1>3, <1>5, <1>10, <2>1 DEF Tells, UseLabels, HoldLabels
  <2>3. ~WorkerExits
    BY <1>1, <2>1 DEF WorkerExits, At
  <2> QED BY <1>8, <1>9, <2>1, <2>2, <2>3
<1> QED BY <1>7, <1>13, <1>14, <1>15, <1>16, <1>17, <1>18

LEMMA TallyWrites ==
  ASSUME SyncInv, Tally, USE_SEM, WorkerWrites
  PROVE  Tally'
<1>0. PICK c : c = Caller
  OBVIOUS
<1>1. c \in Programs /\ Live(c) /\ pc[c] = "write" /\ c \in Slots
  BY <1>0, AtFacts DEF WorkerWrites, WorkerLabels, UseLabels, HoldLabels, Programs
<1>2. /\ global' = aux[c] + inc[c] /\ done' = [done EXCEPT ![c] = done[c] + 1]
      /\ Goto(c, "leave") /\ UNCHANGED <<pids, inc, aux>>
  BY <1>0 DEF WorkerWrites
<1>3. \A p \in Programs : Live(p)' <=> Live(p)
  BY WorkersKeep DEF Kept
<1>4. TallyTypes /\ Tells(c)
  BY <1>1 DEF Tally
<1>5. /\ aux[c] = global /\ inc[c] \in {-1, 1} /\ Goal # 0
      /\ done[c] \in 0 .. Goal /\ done[c] < Goal
  BY <1>1, <1>4 DEF Tells, UseLabels, HoldLabels
<1>6. TallyTypes'
  BY <1>1, <1>2, <1>4 DEF TallyTypes
<1>7. Control
  BY DEF SyncInv
<1>8. ASSUME NEW p \in Programs, Live(p)'
      PROVE  Tells(p)'
  <2>1. CASE p = c
    <3>1. pc'[c] = "leave" /\ inc'[c] = inc[c] /\ done'[c] = done[c] + 1
      BY <1>1, <1>2, <1>4, <1>7 DEF Goto, Control, TallyTypes
    <3> QED BY <1>5, <2>1, <3>1, GoalFacts DEF Tells
  <2>2. CASE p # c
    <3>1. Tells(p) /\ Live(p)
      BY <1>3, <1>8 DEF Tally
    <3>2. /\ pc'[p] = pc[p] /\ inc'[p] = inc[p] /\ done'[p] = done[p]
      BY <1>2, <1>4, <1>7, <2>2 DEF Goto, Control, TallyTypes, Programs
    <3>3. pc[p] \notin {"yield", "write"}
      BY <1>1, <2>2, <3>1, OneWrites
    <3> QED BY <3>1, <3>2, <3>3 DEF Tells
  <2> QED BY <2>1, <2>2
<1>9. /\ Cardinality(ToDo(inc[c])') = Cardinality(ToDo(inc[c])) - 1
      /\ \A r : r # inc[c] => ToDo(r)' = ToDo(r)
  BY <1>1, <1>2, <1>3, <1>5, ToDoShrinks
<1>10. Unpaired' = Unpaired /\ Unpaired \in Int
  BY <1>2, GoalFacts DEF Unpaired
<1>11. global = Cardinality(ToDo(-1)) - Cardinality(ToDo(1)) - Unpaired /\ global \in Int
  BY DEF Tally, TallyTypes
<1>12. Cardinality(ToDo(-1)) \in Nat /\ Cardinality(ToDo(1)) \in Nat
  BY ToDoFinite
<1>13. global' = Cardinality(ToDo(-1)') - Cardinality(ToDo(1)') - Unpaired'
  <2>1. CASE inc[c] = 1
    <3>1. Cardinality(ToDo(1)') = Cardinality(ToDo(1)) - 1 /\ ToDo(-1)' = ToDo(-1)
      <4>1. ToDo(inc[c])' = ToDo(1)' /\ ToDo(inc[c]) = ToDo(1)
        BY <1>2, <2>1 DEF ToDo, Owes
      <4> QED BY <1>9, <2>1, <4>1
    <3>2. global' = global + 1
      BY <1>2, <1>5, <2>1
    <3> QED BY <1>10, <1>11, <1>12, <3>1, <3>2
  <2>2. CASE inc[c] = -1
    <3>1. Cardinality(ToDo(-1)') = Cardinality(ToDo(-1)) - 1 /\ ToDo(1)' = ToDo(1)
      <4>1. ToDo(inc[c])' = ToDo(-1)' /\ ToDo(inc[c]) = ToDo(-1)
        BY <1>2, <2>2 DEF ToDo, Owes
      <4> QED BY <1>9, <2>2, <4>1
    <3>2. global' = global - 1
      BY <1>2, <1>5, <1>11, <2>2
    <3> QED BY <1>10, <1>11, <1>12, <3>1, <3>2
  <2> QED BY <1>5, <2>1, <2>2
<1> QED BY <1>6, <1>8, <1>13 DEF Tally

\* Creations alternate: the first is of an argvDec.
LEMMA TallyCreates ==
  ASSUME SyncInv, SyncLeft, Tally, USE_SEM, OnlyShellCreates, MainCreates
  PROVE  Tally'
<1>0. PICK q : q = Least(FreeSlots(Kernel))
  OBVIOUS
<1>1. PICK s : s = IF Len(pids) % 2 = 0 THEN -1 ELSE 1
  OBVIOUS
<1>2. /\ SysCreate /\ state'[q] = "READY"
      /\ pids' = Append(pids, q) /\ UNCHANGED <<aux, global>>
      /\ inc' = [inc EXCEPT ![q] = s] /\ done' = [done EXCEPT ![q] = 0]
      /\ pc' = [pc EXCEPT ![q] = "open", ![Main] = IF Len(pids) + 1 = 2 * PAIRS
                                                   THEN "wait" ELSE "create"]
  BY <1>0, <1>1 DEF MainCreates
<1>3. /\ q \in Programs /\ ~Live(q) /\ q \in Slots
      /\ \A p \in Programs \ {q} : Live(p)' <=> Live(p)
  BY <1>0, <1>2, CreateKeeps DEF SyncInv, Keeps, Kept, Programs
<1>4. Live(q)'
  BY <1>2 DEF Live
<1>5. TallyTypes /\ Control
  BY DEF Tally, SyncInv
<1>6. /\ pc'[q] = "open" /\ inc'[q] = s /\ done'[q] = 0
      /\ \A p \in Programs \ {q} : /\ pc'[p] = pc[p] /\ inc'[p] = inc[p]
                                   /\ done'[p] = done[p]
  BY <1>2, <1>3, <1>5, MainFacts DEF TallyTypes, Control, Programs
<1>7. TallyTypes' /\ s \in {-1, 1}
  <2>1. s \in {-1, 1} /\ s \in Int /\ 0 \in Int
    BY <1>1
  <2>2. inc' \in [Slots -> Int] /\ done' \in [Slots -> Int]
    <3>1. inc \in [Slots -> Int] /\ done \in [Slots -> Int]
      BY <1>5 DEF TallyTypes
    <3> QED BY <1>2, <2>1, <3>1
  <2> QED BY <1>2, <1>5, <2>1, <2>2 DEF TallyTypes
<1>8. ASSUME NEW p \in Programs, Live(p)'
      PROVE  Tells(p)'
  <2>1. CASE p = q
    BY <1>6, <1>7, <2>1, GoalFacts DEF Tells, UseLabels, HoldLabels
  <2>2. CASE p # q
    BY <1>2, <1>3, <1>6, <1>8, <2>2 DEF Tally, Tells
  <2> QED BY <2>1, <2>2
<1>9. /\ Cardinality(ToDo(s)') = Cardinality(ToDo(s)) + Goal
      /\ \A r : r # s => ToDo(r)' = ToDo(r)
  BY <1>3, <1>4, <1>6, ToDoGrows
<1>10. Len(pids) \in Nat /\ Len(pids') = Len(pids) + 1
  BY <1>2, <1>3, AppendProperties, LenProperties DEF SyncLeft
<1>11. /\ Unpaired = IF s = -1 THEN 0 ELSE Goal
       /\ Unpaired' = IF s = -1 THEN Goal ELSE 0
  <2>1. PICK n \in Nat : n = Len(pids)
    BY <1>10
  <2>2. (n + 1) % 2 = 0 <=> n % 2 # 0
    OBVIOUS
  <2>3. /\ Unpaired = IF n % 2 = 0 THEN 0 ELSE Goal
        /\ Unpaired' = IF (n + 1) % 2 = 0 THEN 0 ELSE Goal
    BY <1>10, <2>1 DEF Unpaired, Goal
  <2>4. s = -1 <=> n % 2 = 0
    BY <1>1, <2>1
  <2> QED BY <2>2, <2>3, <2>4
<1>12. /\ global = Cardinality(ToDo(-1)) - Cardinality(ToDo(1)) - Unpaired /\ global \in Int
       /\ Cardinality(ToDo(-1)) \in Nat /\ Cardinality(ToDo(1)) \in Nat
  BY ToDoFinite DEF Tally, TallyTypes
<1>13. global' = Cardinality(ToDo(-1)') - Cardinality(ToDo(1)') - Unpaired'
  <2>1. CASE s = 1
    <3>1. Cardinality(ToDo(1)') = Cardinality(ToDo(1)) + Goal /\ ToDo(-1)' = ToDo(-1)
      BY <1>9, <2>1
    <3> QED BY <1>2, <1>11, <1>12, <2>1, <3>1, GoalFacts
  <2>2. CASE s = -1
    <3>1. Cardinality(ToDo(-1)') = Cardinality(ToDo(-1)) + Goal /\ ToDo(1)' = ToDo(1)
      BY <1>9, <2>2
    <3> QED BY <1>2, <1>11, <1>12, <2>2, <3>1, GoalFacts
  <2> QED BY <1>7, <2>1, <2>2
<1> QED BY <1>7, <1>8, <1>13 DEF Tally

\* The main process waits, and nothing happens to the workers that are alive.
LEMMA TallyQuiet ==
  ASSUME Tally, UNCHANGED <<pids, inc, done, aux, global>>,
         \A p \in Programs : pc'[p] = pc[p] /\ (Live(p)' <=> Live(p))
  PROVE  Tally'
<1>1. TallyTypes'
  BY DEF Tally, TallyTypes
<1>2. \A p \in Programs : Live(p)' => Live(p) /\ Tells(p)'
  BY DEF Tally, Tells
<1> QED BY <1>1, <1>2, TallyStays

LEMMA TallyWaits ==
  ASSUME SyncInv, Tally, MainWaits \/ Returns
  PROVE  Tally'
<1>1. /\ UNCHANGED <<pids, inc, done, aux, global>>
      /\ \A p \in Programs : pc'[p] = pc[p]
  BY MainFacts DEF MainWaits, Returns, progVars, Goto, SyncInv, Control
<1>2. CASE MainWaits
  <2>0. PICK q : q = pids[waited + 1]
    OBVIOUS
  <2>1. Caller = Main /\ (SysWait(q) \/ UNCHANGED procVars)
    BY <1>2, <2>0, AtFacts DEF MainWaits, MainLabels
  <2>2. CASE SysWait(q)
    <3>1. \/ /\ q \in Programs /\ ~Live(q) /\ state'[q] = "INVALID"
             /\ \A p \in Programs \ {q} : Keeps(p)
          \/ Quiet
      BY <2>1, <2>2, WaitKeeps DEF SyncInv
    <3>2. \A p \in Programs : Live(p)' <=> Live(p)
      BY <3>1 DEF Quiet, Keeps, Kept, Live
    <3> QED BY <1>1, <3>2, TallyQuiet
  <2>3. CASE UNCHANGED procVars
    BY <1>1, <2>3, TallyQuiet DEF procVars, schedVars, Live
  <2> QED BY <2>1, <2>2, <2>3
<1>3. CASE Returns
  <2>0. PICK q : q = waiting[Main]
    OBVIOUS
  <2>1. /\ q \in Programs /\ ~Live(q) /\ state'[q] = "INVALID"
        /\ \A p \in Programs \ {q} : Keeps(p)
    BY <1>3, <2>0, ReturnKeeps DEF SyncInv, Returns
  <2>2. \A p \in Programs : Live(p)' <=> Live(p)
    BY <2>1 DEF Keeps, Kept, Live
  <2> QED BY <1>1, <2>2, TallyQuiet
<1> QED BY <1>2, <1>3

LEMMA TallyNext ==
  ASSUME USE_SEM, OnlyShellCreates, SyncInv, SyncLeft, Tally, [TestNext]_testVars
  PROVE  Tally'
<1>1. CASE UserStep
  BY <1>1, TallyCreates, TallyWaits, TallyWorkers, TallyWrites DEF UserStep
<1>2. CASE SyncTick
  BY <1>2, WorkersKeep, TallyQuiet DEF SyncTick, progVars, Kept
<1>3. CASE UNCHANGED testVars
  BY <1>3, TallyQuiet DEF testVars, syncVars, procVars, schedVars, progVars, Live
<1> QED BY <1>1, <1>2, <1>3, SyncAlone DEF TestNext, SyncStep

LEMMA TallyIsZero ==
  ASSUME SyncInv, SyncLeft, Tally
  PROVE  FinalValueIsZero
<1> SUFFICES ASSUME pc[Main] = "print" /\ ~Waits(Main)
             PROVE  global = 0
  BY DEF FinalValueIsZero
<1>1. \A p \in Programs : state[p] = "INVALID"
  BY SyncLeavesNothing, MainFacts DEF NothingLeftBehind, Over
<1>2. ToDo(-1) = {} /\ ToDo(1) = {}
  BY <1>1 DEF ToDo, Owes, Live
<1>3. Cardinality(ToDo(-1)) = 0 /\ Cardinality(ToDo(1)) = 0
  BY <1>2, FS_EmptySet
<1>4. Unpaired = 0
  <2>1. Len(pids) = 2 * PAIRS /\ PAIRS \in Nat
    BY SyncAssumption DEF SyncLeft
  <2>2. Len(pids) % 2 = 0
    BY <2>1
  <2> QED BY <2>2 DEF Unpaired
<1> QED BY <1>3, <1>4 DEF Tally

\* The other programs have no shared variable.
LEMMA OtherLeavesGlobal ==
  ASSUME OtherInv, [TestNext]_testVars
  PROVE  global' = global
<1>1. "write" \notin ChildLabels \cup OtherMain
  BY DEF ChildLabels, OtherMain
<1>2. ~WorkerWrites
  BY <1>1, OtherAt DEF WorkerWrites
<1> QED BY <1>2 DEF TestNext, SyncStep, UserStep, MainCreates, MainWaits, Returns,
       WorkerOpens, WorkerEnters, WorkerReads, WorkerYields, WorkerLeaves, WorkerCloses,
       WorkerExits, SyncTick, PrioStep, PcsStep, PrioCreates, PrioBlocks, PrioIsNice,
       PrioUnblocks, PrioWaits, ChildCounts, PcsCreates, PcsKills, PcsBlocks,
       PcsUnblocks, PcsWaits, OthersStay, testVars, syncVars, progVars

SumInv == \/ SyncInv /\ SyncLeft /\ Tally
          \/ OtherInv /\ global = 0

\* With its semaphore test-sync ends with the shared variable at zero: no
\* increment is lost or made twice, however many pairs and increments it is
\* given, whenever the timer ticks between a read and its write, and whichever
\* slots the processes get.  Where the kernel has no entry for the semaphore no
\* worker makes any increment.
THEOREM TestSyncEndsAtZero ==
  ASSUME USE_SEM, OnlyShellCreates
  PROVE  TestSpec => []FinalValueIsZero
<1>1. TestInit => SumInv
  <2> SUFFICES ASSUME TestInit
               PROVE  SumInv
    OBVIOUS
  <2>1. /\ SyncStart(FirstLabel[program]) /\ round = 1
        /\ program \in {"sync", "prio", "pcs"}
    BY DEF TestInit, FirstLabel
  <2>2. /\ FirstLabel["sync"] = "create" /\ FirstLabel["prio"] = "prio_create"
        /\ FirstLabel["pcs"] = "pcs_create"
    BY DEF FirstLabel
  <2>3. CASE program = "sync"
    BY <2>1, <2>2, <2>3, SyncInitInv, SyncLeftInit, TallyInit DEF SumInv
  <2>4. CASE program # "sync"
    <3>1. OtherInv
      BY <2>1, <2>2, <2>4, OtherInitInv DEF OtherMain
    <3> QED BY <2>1, <3>1 DEF SyncStart, SumInv
  <2> QED BY <2>3, <2>4
<1>2. SumInv /\ [TestNext]_testVars => SumInv'
  BY SyncNextInv, SyncLeftTest, TallyNext, OtherNextInv, OtherLeavesGlobal DEF SumInv
<1>3. SumInv => FinalValueIsZero
  BY TallyIsZero DEF SumInv, FinalValueIsZero
<1> QED BY <1>1, <1>2, <1>3, PTL DEF TestSpec

=============================================================================
