------------------------------ MODULE PipeProofs ------------------------------
(***************************************************************************)
(* What the command lines  A | B  leave of the pipes' promises, for every  *)
(* number of processes, pipes and semaphores, every ring and every count   *)
(* of command lines, messages and kills: the counts of a pipe are those of *)
(* its holders, no anonymous pipe or semaphore of one outlives them, and   *)
(* the lock of a pipe is free between any two steps.                       *)
(*                                                                         *)
(* The C functions are operators on a world, so the first lemmas are about *)
(* those: what a function leaves of the kernel (Woken), of the semaphores  *)
(* (Shifted) and of the books that the pipes keep (Tallied, Matched).      *)
(*                                                                         *)
(* The second half is about the bytes.  FlowInv relates the histories of a *)
(* pipe to its ring (Ring), and both to the values of its semaphores and   *)
(* to those who sleep there (Seat): from it, nobody sleeps for what is     *)
(* there, and no byte is written over another.                             *)
(***************************************************************************)
EXTENDS Pipeline, ShellProofs, SequenceTheorems

-----------------------------------------------------------------------------
(* The names of the semaphores of the anonymous pipes.                     *)

Anon == {i \in PipeIds : i > STDERR}

Lock(i) == LockOf([name |-> AnonName(i)])
Items(i) == ItemsOf([name |-> AnonName(i)])
Space(i) == SpaceOf([name |-> AnonName(i)])
SemsOf(i) == {Lock(i), Items(i), Space(i)}

LEMMA NamesOfPipe ==
  ASSUME NEW i \in Anon
  PROVE  /\ SemsOf(i) \subseteq SemNames
         /\ Lock(i) # Items(i) /\ Lock(i) # Space(i) /\ Items(i) # Space(i)
<1>1. i \in PipeIds /\ i > STDERR
  BY DEF Anon
<1>2. SemsOf(i) \subseteq SemNames
  BY <1>1, NamesAssumption DEF SemsOf, Lock, Items, Space
<1>3. Lock(i) # Items(i) /\ Lock(i) # Space(i) /\ Items(i) # Space(i)
  BY <1>1, NamesAssumption DEF NamesDiffer, Lock, Items, Space
<1> QED BY <1>2, <1>3

LEMMA NamesApart ==
  ASSUME NEW i \in PipeIds, NEW j \in PipeIds, i # j
  PROVE  SemsOf(i) \cap SemsOf(j) = {}
<1>1. AnonName(i) # AnonName(j)
  BY NamesAssumption
<1>2. /\ Lock(i) # Lock(j) /\ Lock(i) # Items(j) /\ Lock(i) # Space(j)
      /\ Items(i) # Lock(j) /\ Items(i) # Items(j) /\ Items(i) # Space(j)
      /\ Space(i) # Lock(j) /\ Space(i) # Items(j) /\ Space(i) # Space(j)
  BY <1>1, NamesAssumption DEF NamesDiffer, Lock, Items, Space
<1> QED BY <1>2 DEF SemsOf

\* A pipe knows its semaphores by its name.
LEMMA NamesKnown ==
  ASSUME NEW i \in PipeIds, NEW x, x.name = AnonName(i)
  PROVE  LockOf(x) = Lock(i) /\ ItemsOf(x) = Items(i) /\ SpaceOf(x) = Space(i)
BY DEF LockOf, ItemsOf, SpaceOf, Lock, Items, Space

-----------------------------------------------------------------------------
(* The semaphores: no process but a program ever queues.                   *)

SemRecord == [initialized : BOOLEAN, value : Int, openings : Int,
              blocked : Seq(Programs)]
SemTables == [SemNames -> SemRecord]

\* What sem_wait(n) and sem_post(n) leave of the table.
Shifted(s, t, n) ==
  /\ t \in SemTables
  /\ \A m \in SemNames : /\ t[m].initialized = s[m].initialized
                         /\ t[m].openings = s[m].openings
                         /\ m # n => t[m] = s[m]

LEMMA PostTable ==
  ASSUME NEW s \in SemTables, NEW n \in SemNames
  PROVE  LET t == SemPostTable(s, n)
         IN  /\ Shifted(s, t, n)
             /\ s[n].initialized => t[n].value = s[n].value + 1
<1> DEFINE t == SemPostTable(s, n)
           v == s[n].value + 1
           b == IF MustWake(s, n) THEN Tail(s[n].blocked) ELSE s[n].blocked
<1>1. s[n].blocked \in Seq(Programs) /\ s[n].value \in Int
  BY DEF SemTables, SemRecord
<1>2. b \in Seq(Programs) /\ v \in Int
  BY <1>1, HeadTailProperties DEF MustWake
<1>3. ~s[n].initialized => t = s
  BY DEF SemPostTable
<1>4. CASE s[n].initialized
  <2>1. t = [s EXCEPT ![n].value = v, ![n].blocked = b]
    BY <1>4 DEF SemPostTable
  <2> HIDE DEF t, v, b
  <2>2. Shifted(s, t, n) /\ t[n].value = v
    BY <1>2, <2>1 DEF SemTables, SemRecord, Shifted
  <2> QED BY <2>2 DEF t, v
<1> HIDE DEF t
<1>5. CASE ~s[n].initialized
  BY <1>3, <1>5 DEF Shifted, t
<1> QED BY <1>4, <1>5 DEF t

LEMMA WaitTable ==
  ASSUME NEW s \in SemTables, NEW n \in SemNames, NEW k,
         MustSleep(s, n) => GetPid(k) \in Programs
  PROVE  LET t == SemWaitTable(k, s, n)
         IN  /\ Shifted(s, t, n)
             /\ s[n].initialized => t[n].value = s[n].value - 1
<1> DEFINE t == SemWaitTable(k, s, n)
           v == s[n].value - 1
           b == IF MustSleep(s, n) THEN Append(s[n].blocked, GetPid(k)) ELSE s[n].blocked
<1>1. s[n].blocked \in Seq(Programs) /\ s[n].value \in Int
  BY DEF SemTables, SemRecord
<1>2. b \in Seq(Programs) /\ v \in Int
  BY <1>1, AppendProperties
<1>3. ~s[n].initialized => t = s
  BY DEF SemWaitTable
<1>4. CASE s[n].initialized
  <2>1. t = [s EXCEPT ![n].value = v, ![n].blocked = b]
    BY <1>4 DEF SemWaitTable
  <2> HIDE DEF t, v, b
  <2>2. Shifted(s, t, n) /\ t[n].value = v
    BY <1>2, <2>1 DEF SemTables, SemRecord, Shifted
  <2> QED BY <2>2 DEF t, v
<1> HIDE DEF t
<1>5. CASE ~s[n].initialized
  BY <1>3, <1>5 DEF Shifted, t
<1> QED BY <1>4, <1>5 DEF t

\* sem_close() of a semaphore that is opened once, or not at all.
LEMMA CloseTable ==
  ASSUME NEW s \in SemTables, NEW n \in SemNames
  PROVE  LET t == SemClose(s, n)
         IN  /\ t \in SemTables
             /\ \A m \in SemNames \ {n} : t[m] = s[m]
             /\ ~s[n].initialized \/ s[n].openings = 1 => ~t[n].initialized
             /\ t[n].blocked = s[n].blocked
<1> DEFINE v == s[n].openings - 1
           o == [s EXCEPT ![n].openings = v]
           e == [s EXCEPT ![n].initialized = FALSE]
           z == 0
           d == [e EXCEPT ![n].value = z]
           c == [d EXCEPT ![n].openings = v]
<1>1. s[n].openings \in Int /\ v \in Int
  BY DEF SemTables, SemRecord
<1>2. SemClose(s, n) = IF ~s[n].initialized THEN s ELSE IF v > 0 THEN o ELSE c
  BY DEF SemClose, SemTables
<1>3. s[n].openings = 1 => ~(v > 0)
  OBVIOUS
<1> HIDE DEF v
<1>4. o \in SemTables /\ o[n].blocked = s[n].blocked /\ \A m \in SemNames \ {n} : o[m] = s[m]
  BY <1>1 DEF SemTables, SemRecord
<1>5. /\ e \in SemTables /\ ~e[n].initialized /\ e[n].blocked = s[n].blocked
      /\ \A m \in SemNames \ {n} : e[m] = s[m]
  BY DEF SemTables, SemRecord
<1>z. z \in Int
  OBVIOUS
<1> HIDE DEF e, z
<1>6. /\ d \in SemTables /\ ~d[n].initialized /\ d[n].blocked = s[n].blocked
      /\ \A m \in SemNames \ {n} : d[m] = s[m]
  BY <1>5, <1>z DEF SemTables, SemRecord
<1> HIDE DEF d
<1>7. /\ c \in SemTables /\ ~c[n].initialized /\ c[n].blocked = s[n].blocked
      /\ \A m \in SemNames \ {n} : c[m] = s[m]
  BY <1>1, <1>6 DEF SemTables, SemRecord
<1> HIDE DEF o, c
<1> QED BY <1>2, <1>3, <1>4, <1>7

\* sem_open_init() of a semaphore that does not exist.
LEMMA OpenTable ==
  ASSUME NEW s \in SemTables, NEW n \in SemNames, ~s[n].initialized, NEW v \in Int
  PROVE  LET t == SemOpen(s, n, v)
         IN  /\ t \in SemTables
             /\ \A m \in SemNames \ {n} : t[m] = s[m]
             /\ SemOpenResult(s, n) = 0 =>
                  /\ t[n].initialized /\ t[n].value = v /\ t[n].openings = 1
                  /\ t[n].blocked = <<>>
             /\ SemOpenResult(s, n) # 0 => t = s
<1> DEFINE r == [initialized |-> TRUE, value |-> v, openings |-> 1, blocked |-> <<>>]
<1>1. SemOpen(s, n, v) = IF SemOpenResult(s, n) = 0 THEN [s EXCEPT ![n] = r] ELSE s
  BY DEF SemOpen, SemOpenResult
<1>2. r \in SemRecord
  BY DEF SemRecord
<1> QED BY <1>1, <1>2 DEF SemTables

-----------------------------------------------------------------------------
(* The kernel: sem_post() may make programs READY, and nothing else.       *)

Woken(k, r) ==
  /\ r \in KernelType /\ Counted(r)
  /\ r.current_index = k.current_index
  /\ \A p \in Slots : /\ k.state[p] # "BLOCKED" => r.state[p] = k.state[p]
                      /\ k.state[p] = "BLOCKED" => r.state[p] \in {"BLOCKED", "READY"}
                      /\ p \notin Programs => /\ r.state[p] = k.state[p]
                                              /\ r.blocks_amount[p] = k.blocks_amount[p]

LEMMA WokenFirst ==
  ASSUME NEW k \in KernelType, Counted(k)
  PROVE  Woken(k, k)
BY DEF Woken

LEMMA WokenTwice ==
  ASSUME NEW k, NEW m, NEW r, Woken(k, m), Woken(m, r)
  PROVE  Woken(k, r)
BY DEF Woken

LEMMA WokenFacts ==
  ASSUME NEW k \in KernelType, NEW r, Woken(k, r)
  PROVE  /\ RunningSlots(r) = RunningSlots(k)
         /\ GetPid(r) = GetPid(k)
         /\ Phases(r) = Phases(k)
         /\ IdleLives(r) <=> IdleLives(k)
         /\ Untouched(k, r, SHELL_PID)
<1>1. RunningSlots(r) = RunningSlots(k)
  BY DEF RunningSlots, Woken
<1>2. GetPid(r) = GetPid(k)
  BY <1>1 DEF GetPid
<1>3. \A p \in Slots : PhaseOf(r.state[p]) = PhaseOf(k.state[p])
  <2> SUFFICES ASSUME NEW p \in Slots
               PROVE  PhaseOf(r.state[p]) = PhaseOf(k.state[p])
    OBVIOUS
  <2>1. r.state[p] = k.state[p] \/ (k.state[p] = "BLOCKED" /\ r.state[p] = "READY")
    BY DEF Woken
  <2> QED BY <2>1 DEF PhaseOf
<1>4. SHELL_PID \notin Programs /\ IDLE_PID \notin Programs
  BY DEF Programs
<1>5. IdleLives(r) <=> IdleLives(k)
  BY <1>4, ShellIsNotIdle DEF IdleLives, Woken
<1>6. Untouched(k, r, SHELL_PID)
  BY <1>4, ShellIsNotIdle DEF Untouched, Woken
<1> QED BY <1>1, <1>2, <1>3, <1>5, <1>6 DEF Phases

LEMMA PostKernel ==
  ASSUME NEW k \in KernelType, Counted(k), NEW s \in SemTables, NEW n \in SemNames
  PROVE  LET r == SemPostKernel(k, s, n)
         IN  /\ Woken(k, r)
             /\ s[n].initialized /\ s[n].value >= 0 => r = k
<1> DEFINE r == SemPostKernel(k, s, n)
           q == Head(s[n].blocked)
<1>1. s[n].blocked \in Seq(Programs) /\ s[n].value \in Int
  BY DEF SemTables, SemRecord
<1>2. CASE MustWake(s, n)
  <2>1. q \in Programs /\ q \in Slots
    BY <1>1, <1>2, HeadTailProperties DEF MustWake, Programs
  <2>2. r = UnblockProcess(k, q)
    BY <1>2 DEF SemPostKernel
  <2>3. ~(s[n].value >= 0)
    BY <1>1, <1>2 DEF MustWake
  <2> HIDE DEF q, r
  <2> DEFINE u == UnblockProcess(k, q)
  <2>4. /\ u \in KernelType /\ Counted(u)
        /\ u.current_index = k.current_index
        /\ \A p \in Slots \ {q} : /\ u.state[p] = k.state[p]
                                  /\ u.blocks_amount[p] = k.blocks_amount[p]
        /\ k.state[q] # "BLOCKED" => u = k
        /\ k.state[q] = "BLOCKED" =>
             u.state[q] = IF k.blocks_amount[q] > 1 THEN "BLOCKED" ELSE "READY"
    BY <2>1, UnblockProcessFacts, Zenon
  <2> HIDE DEF u
  <2>5. Woken(k, u)
    <3>1. CASE k.state[q] = "BLOCKED"
      BY <2>1, <2>4, <3>1 DEF Woken
    <3>2. CASE k.state[q] # "BLOCKED"
      BY <2>4, <3>2, WokenFirst
    <3> QED BY <3>1, <3>2
  <2> QED BY <2>2, <2>3, <2>5 DEF r, u
<1>3. CASE ~MustWake(s, n)
  <2>1. r = k
    BY <1>3 DEF SemPostKernel
  <2> QED BY <2>1, WokenFirst
<1> QED BY <1>2, <1>3

-----------------------------------------------------------------------------
(* The tokens that a semaphore of a pipe has for the process at its end.    *)

\* Whether q is in the queue of the semaphore x.
InQueue(x, q) == \E j \in DOMAIN x.blocked : x.blocked[j] = q

\* The semaphore x as v tokens leave it for p, the only process that waits for
\* it: tok says that p is past its sem_wait(), with its token when it is awake.
Seat(k, x, tok, p, v) ==
  IF tok
  THEN \/ /\ k.state[p] = "BLOCKED" /\ k.blocks_amount[p] = 1
          /\ x.value = -1 /\ x.blocked = <<p>> /\ v = 0
       \/ k.state[p] # "BLOCKED" /\ x.value = v - 1 /\ v > 0 /\ x.blocked = <<>>
  ELSE x.value = v /\ v >= 0 /\ x.blocked = <<>>

\* Whether q is asleep, and how often it is blocked.
SleepsAlike(k, r, q) == /\ r.state[q] = "BLOCKED" <=> k.state[q] = "BLOCKED"
                        /\ r.blocks_amount[q] = k.blocks_amount[q]

LEMMA SeatKept ==
  ASSUME NEW k, NEW r, NEW x, NEW tok, NEW q, NEW v, SleepsAlike(k, r, q),
         Seat(k, x, tok, q, v)
  PROVE  Seat(r, x, tok, q, v)
BY DEF Seat, SleepsAlike

\* What sem_post(n) does to its own queue.
LEMMA PostQueue ==
  ASSUME NEW s \in SemTables, NEW n \in SemNames, s[n].initialized,
         NEW t, t = SemPostTable(s, n)
  PROVE  /\ t[n].value = s[n].value + 1
         /\ t[n].blocked = IF MustWake(s, n) THEN Tail(s[n].blocked) ELSE s[n].blocked
<1>v. PICK v : v = s[n].value + 1
  OBVIOUS
<1>b. PICK b : b = IF MustWake(s, n) THEN Tail(s[n].blocked) ELSE s[n].blocked
  OBVIOUS
<1>1. t = [s EXCEPT ![n].value = v, ![n].blocked = b]
  BY <1>v, <1>b DEF SemPostTable
<1>2. t[n].value = v /\ t[n].blocked = b
  BY <1>1 DEF SemTables, SemRecord
<1> QED BY <1>2, <1>v, <1>b

\* sem_post() adds a token to the semaphore, or gives it to the sleeper.
LEMMA PostSeat ==
  ASSUME NEW k \in KernelType, Counted(k), NEW s \in SemTables, NEW n \in SemNames,
         s[n].initialized, NEW t, t = SemPostTable(s, n),
         NEW r, r = SemPostKernel(k, s, n),
         NEW tok, NEW q, NEW v \in Int, Seat(k, s[n], tok, q, v)
  PROVE  Seat(r, t[n], tok, q, v + 1)
<1>1. /\ t[n].value = s[n].value + 1
      /\ t[n].blocked = IF MustWake(s, n) THEN Tail(s[n].blocked) ELSE s[n].blocked
  BY PostQueue
<1>2. s[n].value \in Int /\ s[n].blocked \in Seq(Programs)
  BY DEF SemTables, SemRecord
<1>3. CASE s[n].blocked = <<>>
  <2>1. ~MustWake(s, n)
    BY <1>3 DEF MustWake
  <2>2. r = k /\ t[n].blocked = <<>> /\ t[n].value = s[n].value + 1
    BY <1>1, <1>3, <2>1 DEF SemPostKernel
  <2>3. <<>> # <<q>>
    OBVIOUS
  <2> QED BY <1>2, <1>3, <2>2, <2>3 DEF Seat
<1>4. CASE s[n].blocked # <<>>
  <2>1. /\ tok /\ k.state[q] = "BLOCKED" /\ k.blocks_amount[q] = 1
        /\ s[n].value = -1 /\ s[n].blocked = <<q>> /\ v = 0
    BY <1>4 DEF Seat
  <2>2. MustWake(s, n) /\ Head(s[n].blocked) = q /\ Tail(s[n].blocked) = <<>>
    BY <1>4, <2>1 DEF MustWake
  <2>3. q \in Programs /\ q \in Slots
    BY <1>2, <1>4, <2>2, HeadTailProperties DEF Programs
  <2>4. r = UnblockProcess(k, q)
    BY <2>2 DEF SemPostKernel
  <2> DEFINE u == UnblockProcess(k, q)
  <2>5. u.state[q] = IF k.blocks_amount[q] > 1 THEN "BLOCKED" ELSE "READY"
    BY <2>1, <2>3, UnblockProcessFacts, Zenon
  <2> HIDE DEF u
  <2>6. r.state[q] = "READY"
    BY <2>1, <2>4, <2>5 DEF u
  <2>7. t[n].value = 0 /\ t[n].blocked = <<>>
    BY <1>1, <2>1, <2>2
  <2> QED BY <2>1, <2>6, <2>7 DEF Seat
<1> QED BY <1>3, <1>4

\* It concerns nobody who is not in the queue, and puts nobody there.
LEMMA PostQueues ==
  ASSUME NEW k \in KernelType, Counted(k), NEW s \in SemTables, NEW n \in SemNames,
         NEW t, t = SemPostTable(s, n), NEW r, r = SemPostKernel(k, s, n), NEW q \in Slots
  PROVE  /\ InQueue(t[n], q) => InQueue(s[n], q)
         /\ ~InQueue(s[n], q) => SleepsAlike(k, r, q)
<1>0. s[n].blocked \in Seq(Programs)
  BY DEF SemTables, SemRecord
<1>1. CASE ~s[n].initialized
  BY <1>1 DEF SemPostTable, SemPostKernel, MustWake, SleepsAlike
<1>2. CASE s[n].initialized /\ ~MustWake(s, n)
  <2>1. t[n].blocked = s[n].blocked /\ r = k
    BY <1>2, PostQueue DEF SemPostKernel
  <2> QED BY <2>1 DEF InQueue, SleepsAlike
<1>3. CASE s[n].initialized /\ MustWake(s, n)
  <2>b. PICK b : b = s[n].blocked
    OBVIOUS
  <2>1. b \in Seq(Programs) /\ b # <<>>
    BY <1>0, <1>3, <2>b DEF MustWake
  <2>2. /\ Len(b) \in Nat /\ Len(b) > 0 /\ DOMAIN b = 1 .. Len(b) /\ Head(b) = b[1]
        /\ Tail(b) \in Seq(Programs) /\ Len(Tail(b)) = Len(b) - 1
        /\ \A j \in 1 .. Len(b) - 1 : Tail(b)[j] = b[j + 1]
    BY <2>1, HeadTailProperties, LenProperties, EmptySeq
  <2>3. DOMAIN Tail(b) = 1 .. Len(b) - 1
    BY <2>2, LenProperties
  <2>4. t[n].blocked = Tail(b)
    BY <1>3, <2>b, PostQueue
  <2>5. ASSUME NEW j \in DOMAIN Tail(b), Tail(b)[j] = q
        PROVE  InQueue(s[n], q)
    <3>1. j + 1 \in DOMAIN b /\ b[j + 1] = q
      BY <2>2, <2>3, <2>5
    <3> QED BY <2>b, <3>1 DEF InQueue
  <2>6. ASSUME ~InQueue(s[n], q)
        PROVE  SleepsAlike(k, r, q)
    <3>h. PICK h : h = Head(b)
      OBVIOUS
    <3>1. h \in Slots /\ h # q
      <4>1. 1 \in DOMAIN b
        BY <2>2
      <4> QED BY <2>1, <2>2, <2>6, <2>b, <3>h, <4>1, HeadTailProperties DEF InQueue, Programs
    <3>2. r = UnblockProcess(k, h)
      BY <1>3, <2>b, <3>h DEF SemPostKernel
    <3>3. r.state[q] = k.state[q] /\ r.blocks_amount[q] = k.blocks_amount[q]
      BY <3>1, <3>2, UnblockProcessFacts
    <3> QED BY <3>3 DEF SleepsAlike
  <2>7. InQueue(t[n], q) => InQueue(s[n], q)
    BY <2>4, <2>5 DEF InQueue
  <2> QED BY <2>6, <2>7
<1> QED BY <1>1, <1>2, <1>3

-----------------------------------------------------------------------------
(* The worlds in which every anonymous pipe that is in use has its three   *)
(* semaphores, nobody holds its lock, and nobody else has a semaphore of   *)
(* one.                                                                    *)

PipeShape(x) ==
  x = [is_in_use |-> x.is_in_use, is_named |-> x.is_named, name |-> x.name,
       ref_count |-> x.ref_count, write_open_count |-> x.write_open_count,
       read_open_count |-> x.read_open_count, eof_signaled |-> x.eof_signaled,
       buffer |-> x.buffer, read_index |-> x.read_index,
       write_index |-> x.write_index]

PipesShape(p) == p = [i \in PipeIds |-> p[i]] /\ \A i \in PipeIds : PipeShape(p[i])

Matched(s, x, i) ==
  IF x.is_in_use
  THEN /\ x.name = AnonName(i) /\ ~x.is_named
       /\ \A n \in SemsOf(i) : s[n].initialized /\ s[n].openings = 1
       /\ s[Lock(i)].value > 0
  ELSE \A n \in SemsOf(i) : ~s[n].initialized

AllMatched(s, p) ==
  /\ \A i \in Anon : Matched(s, p[i], i)
  /\ \A i \in PipeIds \ Anon : /\ p[i].is_in_use
                               /\ \A n \in SemsOf(i) \cap SemNames : ~s[n].initialized

Sound(w) == /\ w = [k |-> w.k, s |-> w.s, p |-> w.p]
            /\ w.k \in KernelType /\ Counted(w.k)
            /\ w.s \in SemTables
            /\ PipesShape(w.p)
            /\ AllMatched(w.s, w.p)

\* The pipes up to their rings.
SameBook(x, y) ==
  /\ y.is_in_use = x.is_in_use /\ y.is_named = x.is_named /\ y.name = x.name
  /\ y.ref_count = x.ref_count /\ y.eof_signaled = x.eof_signaled
  /\ y.read_open_count = x.read_open_count
  /\ y.write_open_count = x.write_open_count

SameBooks(p, q) == PipesShape(q) /\ \A i \in PipeIds : SameBook(p[i], q[i])

\* Tables that say the same of every semaphore, with values no less.
LEMMA MatchedMore ==
  ASSUME NEW s, NEW t, NEW p, NEW q, AllMatched(s, p), SameBooks(p, q),
         s \in SemTables, t \in SemTables,
         \A n \in SemNames : /\ t[n].initialized = s[n].initialized
                             /\ t[n].openings = s[n].openings,
         \A i \in Anon : t[Lock(i)].value >= s[Lock(i)].value
  PROVE  AllMatched(t, q)
<1>1. ASSUME NEW i \in Anon
      PROVE  Matched(t, q[i], i)
  <2>1. i \in PipeIds /\ SemsOf(i) \subseteq SemNames /\ Lock(i) \in SemsOf(i)
    BY NamesOfPipe DEF Anon, SemsOf
  <2>2. s[Lock(i)].value \in Int /\ t[Lock(i)].value \in Int
    BY <2>1 DEF SemTables, SemRecord
  <2>3. /\ q[i].is_in_use = p[i].is_in_use /\ q[i].is_named = p[i].is_named
        /\ q[i].name = p[i].name
    BY <2>1 DEF SameBooks, SameBook
  <2>4. Matched(s, p[i], i) /\ t[Lock(i)].value >= s[Lock(i)].value
    BY DEF AllMatched
  <2>5. t[Lock(i)].value > 0 \/ ~(s[Lock(i)].value > 0)
    BY <2>2, <2>4
  <2> QED BY <2>1, <2>3, <2>4, <2>5 DEF Matched
<1>2. \A i \in PipeIds \ Anon : /\ q[i].is_in_use
                                /\ \A n \in SemsOf(i) \cap SemNames : ~t[n].initialized
  BY DEF AllMatched, SameBooks, SameBook
<1> QED BY <1>1, <1>2 DEF AllMatched

LEMMA BooksKept ==
  ASSUME NEW p, PipesShape(p)
  PROVE  SameBooks(p, p)
BY DEF SameBooks, SameBook

\* sem_post(), of any semaphore.
LEMMA PostWorld ==
  ASSUME NEW w, Sound(w), NEW n \in SemNames, NEW v, v = SemPostIn(w, n)
  PROVE  /\ Sound(v) /\ v.p = w.p /\ Woken(w.k, v.k)
         /\ w.s[n].initialized /\ w.s[n].value >= 0 => v.k = w.k
<1>1. v = [k |-> v.k, s |-> v.s, p |-> v.p]
      /\ v.k = SemPostKernel(w.k, w.s, n) /\ v.s = SemPostTable(w.s, n) /\ v.p = w.p
  <2>1. w = [k |-> w.k, s |-> w.s, p |-> w.p]
    BY DEF Sound
  <2>2. v = [w EXCEPT !.k = SemPostKernel(w.k, w.s, n), !.s = SemPostTable(w.s, n)]
    BY DEF SemPostIn
  <2> QED BY <2>1, <2>2
<1>2. w.k \in KernelType /\ Counted(w.k) /\ w.s \in SemTables
  BY DEF Sound
<1>3. Woken(w.k, v.k) /\ (w.s[n].initialized /\ w.s[n].value >= 0 => v.k = w.k)
  BY <1>1, <1>2, PostKernel
<1>4. /\ Shifted(w.s, v.s, n)
      /\ w.s[n].initialized => v.s[n].value = w.s[n].value + 1
  BY <1>1, <1>2, PostTable
<1>5. v.k \in KernelType /\ Counted(v.k) /\ v.s \in SemTables
  BY <1>3, <1>4 DEF Woken, Shifted
<1>6. ~w.s[n].initialized => v.s = w.s
  BY <1>1 DEF SemPostTable
<1>7. \A i \in Anon : v.s[Lock(i)].value >= w.s[Lock(i)].value
  <2> SUFFICES ASSUME NEW i \in Anon
               PROVE  v.s[Lock(i)].value >= w.s[Lock(i)].value
    OBVIOUS
  <2>1. Lock(i) \in SemNames
    BY NamesOfPipe DEF SemsOf
  <2>2. w.s[Lock(i)].value \in Int
    BY <1>2, <2>1 DEF SemTables, SemRecord
  <2>3. v.s[Lock(i)].value = w.s[Lock(i)].value
        \/ v.s[Lock(i)].value = w.s[Lock(i)].value + 1
    BY <1>4, <1>6, <2>1 DEF Shifted
  <2> QED BY <2>2, <2>3
<1>8. AllMatched(v.s, v.p)
  BY <1>1, <1>2, <1>4, <1>5, <1>7, MatchedMore, BooksKept DEF Sound, Shifted
<1> QED BY <1>1, <1>3, <1>5, <1>8 DEF Sound

LEMMA NotALock ==
  ASSUME NEW i \in Anon, NEW j \in Anon
  PROVE  Items(i) # Lock(j) /\ Space(i) # Lock(j)
<1>1. i \in PipeIds /\ j \in PipeIds
  BY DEF Anon
<1>2. CASE i = j
  BY <1>2, NamesOfPipe
<1>3. CASE i # j
  BY <1>1, <1>3, NamesApart DEF SemsOf
<1> QED BY <1>2, <1>3

\* A world w goes to v, and what is not of pipe i is left alone: the bytes and
\* the counting semaphores of the other pipes, and the sleep of all who do not
\* queue for a byte or for space of i.  Nobody comes to queue.
Moved(w, v, i) ==
  /\ \A j \in Anon \ {i} : /\ v.s[Items(j)] = w.s[Items(j)]
                           /\ v.s[Space(j)] = w.s[Space(j)]
                           /\ v.p[j] = w.p[j]
  /\ \A q \in Slots :
       /\ InQueue(v.s[Items(i)], q) => InQueue(w.s[Items(i)], q)
       /\ InQueue(v.s[Space(i)], q) => InQueue(w.s[Space(i)], q)
       /\ ~InQueue(w.s[Items(i)], q) /\ ~InQueue(w.s[Space(i)], q)
            => SleepsAlike(w.k, v.k, q)

\* The processes at the ends of pipe i find a more tokens for bytes, and b more
\* for space, than they did.
Gives(w, v, i, a, b) ==
  \A q \in Slots, tok \in BOOLEAN, c \in Int :
    /\ ~InQueue(w.s[Space(i)], q) /\ Seat(w.k, w.s[Items(i)], tok, q, c)
         => Seat(v.k, v.s[Items(i)], tok, q, c + a)
    /\ ~InQueue(w.s[Items(i)], q) /\ Seat(w.k, w.s[Space(i)], tok, q, c)
         => Seat(v.k, v.s[Space(i)], tok, q, c + b)

LEMMA NothingMoves ==
  ASSUME NEW w, NEW v, NEW i \in Anon, v.k = w.k,
         \A j \in Anon : v.s[Items(j)] = w.s[Items(j)] /\ v.s[Space(j)] = w.s[Space(j)],
         \A j \in Anon \ {i} : v.p[j] = w.p[j]
  PROVE  Moved(w, v, i) /\ Gives(w, v, i, 0, 0)
<1>1. Moved(w, v, i)
  BY DEF Moved, SleepsAlike
<1>2. \A c \in Int : c + 0 = c
  OBVIOUS
<1> QED BY <1>1, <1>2 DEF Gives

LEMMA MovesTwice ==
  ASSUME NEW w, NEW m, NEW v, NEW i \in Anon, Moved(w, m, i), Moved(m, v, i)
  PROVE  Moved(w, v, i)
BY DEF Moved, SleepsAlike

LEMMA GivesTwice ==
  ASSUME NEW w, NEW m, NEW v, NEW i \in Anon, Moved(w, m, i),
         NEW a \in Int, NEW b \in Int, NEW c \in Int, NEW d \in Int,
         Gives(w, m, i, a, b), Gives(m, v, i, c, d)
  PROVE  Gives(w, v, i, a + c, b + d)
<1> SUFFICES ASSUME NEW q \in Slots, NEW tok \in BOOLEAN, NEW x \in Int
             PROVE  /\ ~InQueue(w.s[Space(i)], q) /\ Seat(w.k, w.s[Items(i)], tok, q, x)
                         => Seat(v.k, v.s[Items(i)], tok, q, x + (a + c))
                    /\ ~InQueue(w.s[Items(i)], q) /\ Seat(w.k, w.s[Space(i)], tok, q, x)
                         => Seat(v.k, v.s[Space(i)], tok, q, x + (b + d))
  BY DEF Gives
<1>1. /\ x + a \in Int /\ x + b \in Int
      /\ (x + a) + c = x + (a + c) /\ (x + b) + d = x + (b + d)
  OBVIOUS
<1>2. /\ InQueue(m.s[Items(i)], q) => InQueue(w.s[Items(i)], q)
      /\ InQueue(m.s[Space(i)], q) => InQueue(w.s[Space(i)], q)
  BY DEF Moved
<1>3. ASSUME ~InQueue(w.s[Space(i)], q), Seat(w.k, w.s[Items(i)], tok, q, x)
      PROVE  Seat(v.k, v.s[Items(i)], tok, q, x + (a + c))
  <2>1. Seat(m.k, m.s[Items(i)], tok, q, x + a)
    BY <1>3 DEF Gives
  <2>2. Seat(v.k, v.s[Items(i)], tok, q, (x + a) + c)
    BY <1>1, <1>2, <1>3, <2>1 DEF Gives
  <2> QED BY <1>1, <2>2
<1>4. ASSUME ~InQueue(w.s[Items(i)], q), Seat(w.k, w.s[Space(i)], tok, q, x)
      PROVE  Seat(v.k, v.s[Space(i)], tok, q, x + (b + d))
  <2>1. Seat(m.k, m.s[Space(i)], tok, q, x + b)
    BY <1>4 DEF Gives
  <2>2. Seat(v.k, v.s[Space(i)], tok, q, (x + b) + d)
    BY <1>1, <1>2, <1>4, <2>1 DEF Gives
  <2> QED BY <1>1, <2>2
<1> QED BY <1>3, <1>4

\* The counting semaphores of different pipes.
LEMMA CountsApart ==
  ASSUME NEW i \in Anon, NEW j \in Anon \ {i}
  PROVE  Items(j) \notin {Items(i), Space(i)} /\ Space(j) \notin {Items(i), Space(i)}
<1>1. i \in PipeIds /\ j \in PipeIds
  BY DEF Anon
<1> QED BY <1>1, NamesApart DEF SemsOf

\* sem_post() for a byte, or for space.
LEMMA PostMoves ==
  ASSUME NEW w, Sound(w), NEW i \in Anon, w.p[i].is_in_use,
         NEW n \in {Items(i), Space(i)}, NEW v, v = SemPostIn(w, n)
  PROVE  /\ Moved(w, v, i)
         /\ n = Items(i) => Gives(w, v, i, 1, 0)
         /\ n = Space(i) => Gives(w, v, i, 0, 1)
<1>1. /\ n \in SemNames /\ Items(i) \in SemNames /\ Space(i) \in SemNames
      /\ Items(i) # Space(i)
  BY NamesOfPipe DEF SemsOf
<1>2. w.k \in KernelType /\ Counted(w.k) /\ w.s \in SemTables /\ w.s[n].initialized
  BY DEF Sound, AllMatched, Matched, SemsOf
<1>s. PICK s : s = w.s
  OBVIOUS
<1>k. PICK k : k = w.k
  OBVIOUS
<1>t. PICK t : t = SemPostTable(s, n)
  OBVIOUS
<1>r. PICK r : r = SemPostKernel(k, s, n)
  OBVIOUS
<1>3. v.k = r /\ v.s = t /\ v.p = w.p
  <2>1. w = [k |-> w.k, s |-> w.s, p |-> w.p]
    BY DEF Sound
  <2>2. v = [w EXCEPT !.k = r, !.s = t]
    BY <1>s, <1>k, <1>t, <1>r DEF SemPostIn
  <2> QED BY <2>1, <2>2
<1>4. \A m \in SemNames \ {n} : t[m] = s[m]
  BY <1>1, <1>2, <1>s, <1>t, PostTable DEF Shifted
<1>5. \A q \in Slots : /\ InQueue(t[n], q) => InQueue(s[n], q)
                       /\ ~InQueue(s[n], q) => SleepsAlike(k, r, q)
  BY <1>1, <1>2, <1>s, <1>k, <1>t, <1>r, PostQueues
<1>6. \A q \in Slots, tok \in BOOLEAN, c \in Int :
        Seat(k, s[n], tok, q, c) => Seat(r, t[n], tok, q, c + 1)
  BY <1>1, <1>2, <1>s, <1>k, <1>t, <1>r, PostSeat
<1>7. \A j \in Anon \ {i} : t[Items(j)] = s[Items(j)] /\ t[Space(j)] = s[Space(j)]
  <2> SUFFICES ASSUME NEW j \in Anon \ {i}
               PROVE  t[Items(j)] = s[Items(j)] /\ t[Space(j)] = s[Space(j)]
    OBVIOUS
  <2>1. Items(j) \in SemNames \ {n} /\ Space(j) \in SemNames \ {n}
    BY CountsApart, NamesOfPipe DEF SemsOf
  <2> QED BY <1>4, <2>1
<1>8. CASE n = Items(i)
  <2>1. t[Space(i)] = s[Space(i)]
    BY <1>1, <1>4, <1>8
  <2>2. Moved(w, v, i)
    BY <1>3, <1>5, <1>7, <1>8, <1>s, <1>k, <2>1 DEF Moved
  <2>3. \A q \in Slots, tok \in BOOLEAN, c \in Int :
          ~InQueue(s[n], q) /\ Seat(k, s[Space(i)], tok, q, c)
            => Seat(r, t[Space(i)], tok, q, c + 0)
    BY <1>5, <2>1, SeatKept
  <2>4. Gives(w, v, i, 1, 0)
    BY <1>3, <1>6, <1>8, <1>s, <1>k, <2>3 DEF Gives
  <2> QED BY <1>1, <1>8, <2>2, <2>4
<1>9. CASE n = Space(i)
  <2>1. t[Items(i)] = s[Items(i)]
    BY <1>1, <1>4, <1>9
  <2>2. Moved(w, v, i)
    BY <1>3, <1>5, <1>7, <1>9, <1>s, <1>k, <2>1 DEF Moved
  <2>3. \A q \in Slots, tok \in BOOLEAN, c \in Int :
          ~InQueue(s[n], q) /\ Seat(k, s[Items(i)], tok, q, c)
            => Seat(r, t[Items(i)], tok, q, c + 0)
    BY <1>5, <2>1, SeatKept
  <2>4. Gives(w, v, i, 0, 1)
    BY <1>3, <1>6, <1>9, <1>s, <1>k, <2>3 DEF Gives
  <2> QED BY <1>1, <1>9, <2>2, <2>4
<1> QED BY <1>8, <1>9

\* sem_wait(), in the kernel and in the table.
LEMMA WaitParts ==
  ASSUME NEW w, Sound(w), NEW n \in SemNames, NEW v, v = SemWaitIn(w, n),
         MustSleep(w.s, n) => GetPid(w.k) \in Programs
  PROVE  /\ v = [k |-> v.k, s |-> v.s, p |-> v.p] /\ v.p = w.p
         /\ v.k = IF MustSleep(w.s, n) THEN BlockProcess(w.k, GetPid(w.k)) ELSE w.k
         /\ Shifted(w.s, v.s, n)
         /\ w.s[n].initialized => v.s[n].value = w.s[n].value - 1
<1>1. /\ v = [k |-> v.k, s |-> v.s, p |-> v.p] /\ v.p = w.p
      /\ v.k = SemWaitKernel(w.k, w.s, n) /\ v.s = SemWaitTable(w.k, w.s, n)
  <2>1. w = [k |-> w.k, s |-> w.s, p |-> w.p]
    BY DEF Sound
  <2>2. v = [w EXCEPT !.k = SemWaitKernel(w.k, w.s, n),
                      !.s = SemWaitTable(w.k, w.s, n)]
    BY DEF SemWaitIn
  <2> QED BY <2>1, <2>2
<1>2. /\ Shifted(w.s, v.s, n)
      /\ w.s[n].initialized => v.s[n].value = w.s[n].value - 1
  BY <1>1, WaitTable DEF Sound
<1> QED BY <1>1, <1>2 DEF SemWaitKernel

\* A process that waits for a byte or for space gets it or falls asleep.
LEMMA WaitWorld ==
  ASSUME NEW w, Sound(w), NEW i \in Anon, NEW n \in {Items(i), Space(i)},
         NEW v, v = SemWaitIn(w, n),
         MustSleep(w.s, n) => GetPid(w.k) \in Programs /\ Settled(w.k)
  PROVE  /\ Sound(v) /\ v.p = w.p
         /\ v.k = IF MustSleep(w.s, n) THEN BlockProcess(w.k, GetPid(w.k)) ELSE w.k
<1>1. n \in SemNames
  BY NamesOfPipe DEF SemsOf
<1>2. /\ v = [k |-> v.k, s |-> v.s, p |-> v.p] /\ v.p = w.p
      /\ v.k = IF MustSleep(w.s, n) THEN BlockProcess(w.k, GetPid(w.k)) ELSE w.k
      /\ Shifted(w.s, v.s, n)
  BY <1>1, WaitParts
<1>3. v.k \in KernelType /\ Counted(v.k)
  <2>1. CASE MustSleep(w.s, n)
    <3>1. Settled(BlockProcess(w.k, GetPid(w.k)))
      BY <2>1, BlockProcessFacts DEF Programs
    <3> QED BY <1>2, <2>1, <3>1 DEF Settled
  <2>2. CASE ~MustSleep(w.s, n)
    BY <1>2, <2>2 DEF Sound
  <2> QED BY <2>1, <2>2
<1>4. \A j \in Anon : v.s[Lock(j)].value >= w.s[Lock(j)].value
  <2> SUFFICES ASSUME NEW j \in Anon
               PROVE  v.s[Lock(j)].value >= w.s[Lock(j)].value
    OBVIOUS
  <2>1. Lock(j) \in SemNames /\ Lock(j) # n
    BY NamesOfPipe, NotALock DEF SemsOf
  <2>2. v.s[Lock(j)] = w.s[Lock(j)] /\ w.s[Lock(j)].value \in Int
    BY <1>2, <2>1 DEF Shifted, Sound, SemTables, SemRecord
  <2> QED BY <2>2
<1>5. AllMatched(v.s, v.p)
  BY <1>2, <1>4, MatchedMore, BooksKept DEF Sound, Shifted
<1> QED BY <1>2, <1>3, <1>5 DEF Sound, Shifted

\* The lock of a pipe, taken, and given back after a step on the pipe's ring:
\* nobody sleeps and nobody is woken up.
LEMMA LockRound ==
  ASSUME NEW w, Sound(w), NEW i \in Anon, w.p[i].is_in_use,
         NEW h, h = SemWaitIn(w, Lock(i)),
         NEW x, x = [k |-> h.k, s |-> h.s, p |-> x.p], SameBooks(w.p, x.p),
         NEW v, v = SemPostIn(x, Lock(i))
  PROVE  /\ Sound(v) /\ v.k = w.k /\ v.p = x.p
         /\ (\A j \in Anon \ {i} : x.p[j] = w.p[j]) =>
              Moved(w, v, i) /\ Gives(w, v, i, 0, 0)
<1> DEFINE n == Lock(i)
<1>1. n \in SemNames /\ i \in PipeIds
  BY NamesOfPipe DEF SemsOf, Anon
<1>2. w.s[n].initialized /\ w.s[n].value > 0
  BY DEF Sound, AllMatched, Matched, SemsOf
<1>3. w.s \in SemTables /\ w.s[n].value \in Int
  BY <1>1 DEF Sound, SemTables, SemRecord
<1> HIDE DEF n
<1>4. ~MustSleep(w.s, n)
  BY <1>2, <1>3 DEF MustSleep
<1>5. h.k = w.k /\ Shifted(w.s, h.s, n) /\ h.s[n].value = w.s[n].value - 1
  BY <1>1, <1>2, <1>4, WaitParts DEF n
<1>6. h.s \in SemTables /\ h.s[n].initialized /\ h.s[n].value >= 0 /\ h.s[n].value \in Int
  BY <1>1, <1>2, <1>3, <1>5 DEF Shifted
<1>7. v = [k |-> v.k, s |-> v.s, p |-> v.p] /\ v.p = x.p
      /\ v.k = SemPostKernel(w.k, h.s, n) /\ v.s = SemPostTable(h.s, n)
  <2>1. x.k = w.k /\ x.s = h.s
    BY <1>5
  <2>2. v = [x EXCEPT !.k = SemPostKernel(x.k, x.s, n), !.s = SemPostTable(x.s, n)]
    BY DEF SemPostIn, n
  <2> QED BY <2>1, <2>2
<1>8. v.k = w.k
  BY <1>1, <1>6, <1>7, PostKernel DEF Sound
<1>9. Shifted(h.s, v.s, n) /\ v.s[n].value = h.s[n].value + 1
  BY <1>1, <1>6, <1>7, PostTable
<1>10. v.s \in SemTables
       /\ \A m \in SemNames : /\ v.s[m].initialized = w.s[m].initialized
                              /\ v.s[m].openings = w.s[m].openings
                              /\ m # n => v.s[m] = w.s[m]
  BY <1>5, <1>9 DEF Shifted
<1>11. \A j \in Anon : v.s[Lock(j)].value >= w.s[Lock(j)].value
  <2> SUFFICES ASSUME NEW j \in Anon
               PROVE  v.s[Lock(j)].value >= w.s[Lock(j)].value
    OBVIOUS
  <2>1. Lock(j) \in SemNames
    BY NamesOfPipe DEF SemsOf
  <2>2. w.s[Lock(j)].value \in Int
    BY <1>3, <2>1 DEF SemTables, SemRecord
  <2>3. v.s[Lock(j)].value = w.s[Lock(j)].value
    BY <1>3, <1>5, <1>9, <1>10, <2>1
  <2> QED BY <2>2, <2>3
<1>12. AllMatched(v.s, x.p)
  BY <1>3, <1>10, <1>11, MatchedMore DEF Sound
<1>13. \A j \in Anon : v.s[Items(j)] = w.s[Items(j)] /\ v.s[Space(j)] = w.s[Space(j)]
  <2> SUFFICES ASSUME NEW j \in Anon
               PROVE  v.s[Items(j)] = w.s[Items(j)] /\ v.s[Space(j)] = w.s[Space(j)]
    OBVIOUS
  <2>1. Items(j) \in SemNames /\ Space(j) \in SemNames
    BY NamesOfPipe DEF SemsOf
  <2>2. Items(j) # n /\ Space(j) # n
    BY NotALock DEF n
  <2> QED BY <1>10, <2>1, <2>2
<1>14. (\A j \in Anon \ {i} : x.p[j] = w.p[j]) => Moved(w, v, i) /\ Gives(w, v, i, 0, 0)
  BY <1>7, <1>8, <1>13, NothingMoves
<1>15. Sound(v)
  BY <1>7, <1>8, <1>10, <1>12 DEF Sound, SameBooks
<1> QED BY <1>7, <1>8, <1>14, <1>15

\* A lock that is free is given back once more than it was taken.
LEMMA LockPosted ==
  ASSUME NEW w, Sound(w), NEW i \in Anon, w.p[i].is_in_use,
         NEW v, v = SemPostIn(w, Lock(i))
  PROVE  Moved(w, v, i) /\ Gives(w, v, i, 0, 0)
<1>1. Lock(i) \in SemNames /\ w.s \in SemTables /\ w.s[Lock(i)].initialized
  BY NamesOfPipe DEF SemsOf, Sound, AllMatched, Matched
<1>2. w.s[Lock(i)].value > 0 /\ w.s[Lock(i)].value \in Int
  BY <1>1 DEF Sound, AllMatched, Matched, SemTables, SemRecord
<1>3. w.s[Lock(i)].value >= 0
  BY <1>2
<1>4. v.k = w.k /\ v.p = w.p
  BY <1>1, <1>3, PostWorld
<1>5. v.s = SemPostTable(w.s, Lock(i))
  <2>1. w = [k |-> w.k, s |-> w.s, p |-> w.p]
    BY DEF Sound
  <2> QED BY <2>1 DEF SemPostIn
<1>6. Shifted(w.s, v.s, Lock(i))
  BY <1>1, <1>5, PostTable
<1>7. \A j \in Anon : v.s[Items(j)] = w.s[Items(j)] /\ v.s[Space(j)] = w.s[Space(j)]
  BY <1>6, NamesOfPipe, NotALock DEF SemsOf, Shifted
<1> QED BY <1>4, <1>7, NothingMoves

\* The two indices and the bytes of a ring are in no book.
Turn(w, i, e) == [w EXCEPT !.p[i].read_index = e]
Put(w, i, j, b, e) == [w EXCEPT !.p[i].buffer[j] = b, !.p[i].write_index = e]

\* What they are after a byte b more, and after a byte less.
ByteAt(x, y, j, b, e) == /\ y.buffer = [x.buffer EXCEPT ![j] = b]
                         /\ y.read_index = x.read_index /\ y.write_index = e
WithByte(x, y, b) ==
  ByteAt(x, y, x.write_index, b, (x.write_index + 1) % PIPE_BUFFER_SIZE)
WithoutByte(x, y) == /\ y.buffer = x.buffer /\ y.write_index = x.write_index
                     /\ y.read_index = (x.read_index + 1) % PIPE_BUFFER_SIZE

LEMMA OnePipe ==
  ASSUME NEW p, PipesShape(p), NEW i \in PipeIds, NEW q, q = [p EXCEPT ![i] = q[i]],
         PipeShape(q[i]), SameBook(p[i], q[i])
  PROVE  SameBooks(p, q)
<1>1. q = [j \in PipeIds |-> q[j]] /\ \A j \in PipeIds \ {i} : q[j] = p[j]
  BY DEF PipesShape
<1>2. PipesShape(q)
  BY <1>1 DEF PipesShape
<1> QED BY <1>1, <1>2 DEF SameBooks, SameBook

LEMMA Turned ==
  ASSUME NEW w, w = [k |-> w.k, s |-> w.s, p |-> w.p], PipesShape(w.p),
         NEW i \in PipeIds, NEW e, NEW x, x = Turn(w, i, e)
  PROVE  /\ x = [k |-> w.k, s |-> w.s, p |-> x.p] /\ SameBooks(w.p, x.p)
         /\ \A j \in PipeIds \ {i} : x.p[j] = w.p[j]
         /\ x.p[i].buffer = w.p[i].buffer /\ x.p[i].write_index = w.p[i].write_index
         /\ x.p[i].read_index = e
<1>c. PICK c : c = w.p[i]
  OBVIOUS
<1>d. PICK d : d = [c EXCEPT !.read_index = e]
  OBVIOUS
<1>1. x = [k |-> w.k, s |-> w.s, p |-> x.p] /\ x.p = [w.p EXCEPT ![i] = d]
  BY <1>c, <1>d DEF Turn
<1>2. PipeShape(c)
  BY <1>c DEF PipesShape
<1>3. /\ PipeShape(d) /\ SameBook(c, d)
      /\ d.buffer = c.buffer /\ d.write_index = c.write_index /\ d.read_index = e
  BY <1>d, <1>2 DEF PipeShape, SameBook
<1>4. x.p[i] = d /\ \A j \in PipeIds \ {i} : x.p[j] = w.p[j]
  BY <1>1 DEF PipesShape
<1>5. SameBooks(w.p, x.p)
  <2>1. x.p[i] = d
    BY <1>4
  <2>2. x.p = [w.p EXCEPT ![i] = x.p[i]] /\ PipeShape(x.p[i]) /\ SameBook(w.p[i], x.p[i])
    BY <1>c, <1>1, <1>3, <2>1
  <2> QED BY <2>2, OnePipe
<1> QED BY <1>c, <1>1, <1>3, <1>4, <1>5

LEMMA PutIn ==
  ASSUME NEW w, w = [k |-> w.k, s |-> w.s, p |-> w.p], PipesShape(w.p),
         NEW i \in PipeIds, NEW j, NEW b, NEW e, NEW x, x = Put(w, i, j, b, e)
  PROVE  /\ x = [k |-> w.k, s |-> w.s, p |-> x.p] /\ SameBooks(w.p, x.p)
         /\ \A m \in PipeIds \ {i} : x.p[m] = w.p[m]
         /\ ByteAt(w.p[i], x.p[i], j, b, e)
<1>c. PICK c : c = w.p[i]
  OBVIOUS
<1>d. PICK d : d = [c EXCEPT !.buffer[j] = b, !.write_index = e]
  OBVIOUS
<1>1. x = [k |-> w.k, s |-> w.s, p |-> x.p] /\ x.p = [w.p EXCEPT ![i] = d]
  BY <1>c, <1>d DEF Put, PipesShape
<1>2. PipeShape(c)
  BY <1>c DEF PipesShape
<1>3. /\ PipeShape(d) /\ SameBook(c, d)
      /\ ByteAt(c, d, j, b, e)
  BY <1>d, <1>2 DEF PipeShape, SameBook, ByteAt
<1>4. x.p[i] = d /\ \A m \in PipeIds \ {i} : x.p[m] = w.p[m]
  BY <1>1 DEF PipesShape
<1>5. SameBooks(w.p, x.p)
  <2>1. x.p[i] = d
    BY <1>4
  <2>2. x.p = [w.p EXCEPT ![i] = x.p[i]] /\ PipeShape(x.p[i]) /\ SameBook(w.p[i], x.p[i])
    BY <1>c, <1>1, <1>3, <2>1
  <2> QED BY <2>2, OnePipe
<1> QED BY <1>c, <1>1, <1>3, <1>4, <1>5

LEMMA BooksTwice ==
  ASSUME NEW p, NEW q, NEW r, SameBooks(p, q), SameBooks(q, r)
  PROVE  SameBooks(p, r)
BY DEF SameBooks, SameBook

LEMMA SoundTurned ==
  ASSUME NEW w, Sound(w), NEW x, x = [k |-> w.k, s |-> w.s, p |-> x.p],
         SameBooks(w.p, x.p)
  PROVE  Sound(x)
<1>1. AllMatched(w.s, x.p)
  <2>1. \A i \in Anon : w.s[Lock(i)].value >= w.s[Lock(i)].value
    <3> SUFFICES ASSUME NEW i \in Anon
                 PROVE  w.s[Lock(i)].value >= w.s[Lock(i)].value
      OBVIOUS
    <3>1. w.s[Lock(i)].value \in Int
      BY NamesOfPipe DEF SemsOf, Sound, SemTables, SemRecord
    <3> QED BY <3>1
  <2> QED BY <2>1, MatchedMore DEF Sound
<1>2. x.k = w.k /\ x.s = w.s
  OBVIOUS
<1> QED BY <1>1, <1>2 DEF Sound, SameBooks

LEMMA InUseNames ==
  ASSUME NEW w, Sound(w), NEW i \in Anon, w.p[i].is_in_use
  PROVE  /\ i \in PipeIds
         /\ LockOf(w.p[i]) = Lock(i) /\ ItemsOf(w.p[i]) = Items(i)
         /\ SpaceOf(w.p[i]) = Space(i)
<1>1. i \in PipeIds
  BY DEF Anon
<1>2. w.p[i].name = AnonName(i)
  BY DEF Sound, AllMatched, Matched
<1> QED BY <1>1, <1>2, NamesKnown

\* One turn of the loop of pipe_write() wakes up readers, and that is all.
LEMMA WriteByteWorld ==
  ASSUME NEW w, Sound(w), NEW i \in Anon, w.p[i].is_in_use, NEW b,
         NEW v, v = WriteByte(w, i, b)
  PROVE  /\ Sound(v) /\ Woken(w.k, v.k) /\ SameBooks(w.p, v.p)
         /\ Moved(w, v, i) /\ Gives(w, v, i, 1, 0) /\ WithByte(w.p[i], v.p[i], b)
<1> DEFINE pp   == w.p[i]
           locked == SemWaitIn(w, LockOf(pp))
           j    == pp.write_index
           e    == (locked.p[i].write_index + 1) % PIPE_BUFFER_SIZE
           put  == [locked EXCEPT !.p[i].buffer[j] = b, !.p[i].write_index = e]
           back == SemPostIn(put, LockOf(pp))
<1>1. /\ i \in PipeIds /\ LockOf(pp) = Lock(i) /\ ItemsOf(pp) = Items(i)
      /\ Lock(i) \in SemNames /\ Items(i) \in SemNames
  BY InUseNames, NamesOfPipe DEF SemsOf
<1>2. v = SemPostIn(back, ItemsOf(pp))
  BY <1>1 DEF WriteByte
<1>f. j = w.p[i].write_index /\ (locked.p = w.p => e = (w.p[i].write_index + 1) % PIPE_BUFFER_SIZE)
  OBVIOUS
<1> HIDE DEF pp, e, j
<1>3. locked = [k |-> locked.k, s |-> locked.s, p |-> locked.p] /\ locked.p = w.p
  <2>1. w = [k |-> w.k, s |-> w.s, p |-> w.p]
    BY DEF Sound
  <2>2. locked = [w EXCEPT !.k = SemWaitKernel(w.k, w.s, LockOf(pp)),
                         !.s = SemWaitTable(w.k, w.s, LockOf(pp))]
    BY DEF SemWaitIn
  <2> HIDE DEF locked
  <2> QED BY <2>1, <2>2
<1>h. PICK h : h = locked
  OBVIOUS
<1>p. PICK x : x = put
  OBVIOUS
<1>q. PICK y : y = back
  OBVIOUS
<1>4. /\ h = SemWaitIn(w, Lock(i)) /\ y = SemPostIn(x, Lock(i))
      /\ v = SemPostIn(y, Items(i))
      /\ h = [k |-> h.k, s |-> h.s, p |-> h.p] /\ h.p = w.p
  BY <1>1, <1>2, <1>3, <1>h, <1>p, <1>q
<1>x. x = Put(h, i, j, b, e)
  BY <1>h, <1>p DEF Put
<1> HIDE DEF locked, put, back
<1>5. /\ x = [k |-> h.k, s |-> h.s, p |-> x.p] /\ SameBooks(w.p, x.p)
      /\ \A m \in Anon \ {i} : x.p[m] = w.p[m]
      /\ WithByte(w.p[i], x.p[i], b)
  <2>1. PipesShape(h.p)
    BY <1>4 DEF Sound
  <2>2. /\ x = [k |-> h.k, s |-> h.s, p |-> x.p] /\ SameBooks(h.p, x.p)
        /\ \A m \in PipeIds \ {i} : x.p[m] = h.p[m]
        /\ ByteAt(h.p[i], x.p[i], j, b, e)
    BY <1>1, <1>4, <1>x, <2>1, PutIn
  <2>3. j = w.p[i].write_index /\ e = (w.p[i].write_index + 1) % PIPE_BUFFER_SIZE
    BY <1>4, <1>h, <1>f, <1>3
  <2> QED BY <1>4, <2>2, <2>3 DEF Anon, WithByte
<1>6. /\ Sound(y) /\ y.k = w.k /\ y.p = x.p
      /\ Moved(w, y, i) /\ Gives(w, y, i, 0, 0)
  BY <1>4, <1>5, LockRound
<1>7. Sound(v) /\ v.p = y.p /\ Woken(y.k, v.k)
  BY <1>1, <1>4, <1>6, PostWorld
<1>8. y.p[i].is_in_use
  BY <1>1, <1>5, <1>6 DEF SameBooks, SameBook
<1>9. Moved(y, v, i) /\ Gives(y, v, i, 1, 0)
  BY <1>4, <1>6, <1>8, PostMoves
<1>10. Moved(w, v, i) /\ Gives(w, v, i, 0 + 1, 0 + 0)
  BY <1>6, <1>9, MovesTwice, GivesTwice
<1>11. 0 + 1 = 1 /\ 0 + 0 = 0
  OBVIOUS
<1> QED BY <1>5, <1>6, <1>7, <1>10, <1>11

\* One turn of the loop of pipe_read(), to EOF or to a byte, wakes up writers.
LEMMA ReadByteWorld ==
  ASSUME NEW w, Sound(w), NEW i \in Anon, w.p[i].is_in_use,
         NEW v, v = ReadByte(w, i).w
  PROVE  /\ Sound(v) /\ Woken(w.k, v.k) /\ SameBooks(w.p, v.p) /\ Moved(w, v, i)
         /\ IF LooksEmpty(w.p[i]) /\ w.p[i].eof_signaled
            THEN Gives(w, v, i, 0, 0) /\ v.p = w.p
            ELSE Gives(w, v, i, 0, 1) /\ WithoutByte(w.p[i], v.p[i])
<1> DEFINE pp    == w.p[i]
           locked  == SemWaitIn(w, LockOf(pp))
           a     == IF LooksEmpty(pp) THEN SemPostIn(locked, LockOf(pp)) ELSE locked
           e     == (a.p[i].read_index + 1) % PIPE_BUFFER_SIZE
           taken == [a EXCEPT !.p[i].read_index = e]
           back  == SemPostIn(taken, LockOf(pp))
<1>1. /\ i \in PipeIds /\ LockOf(pp) = Lock(i) /\ SpaceOf(pp) = Space(i)
      /\ Lock(i) \in SemNames /\ Space(i) \in SemNames
  BY InUseNames, NamesOfPipe DEF SemsOf
<1>2. v = IF LooksEmpty(pp) /\ pp.eof_signaled THEN a ELSE SemPostIn(back, SpaceOf(pp))
  BY DEF ReadByte
<1>f. pp = w.p[i] /\ (a.p = w.p => e = (w.p[i].read_index + 1) % PIPE_BUFFER_SIZE)
  OBVIOUS
<1> HIDE DEF pp, e
<1>h. PICK h : h = locked
  OBVIOUS
<1>a. PICK m : m = a
  OBVIOUS
<1>x. PICK x : x = taken
  OBVIOUS
<1>y. PICK y : y = back
  OBVIOUS
<1>3. h = [k |-> h.k, s |-> h.s, p |-> h.p] /\ h.p = w.p
  <2>1. w = [k |-> w.k, s |-> w.s, p |-> w.p]
    BY DEF Sound
  <2>2. locked = [w EXCEPT !.k = SemWaitKernel(w.k, w.s, LockOf(pp)),
                         !.s = SemWaitTable(w.k, w.s, LockOf(pp))]
    BY DEF SemWaitIn
  <2> HIDE DEF locked
  <2> QED BY <1>h, <2>1, <2>2
<1>4. /\ h = SemWaitIn(w, Lock(i))
      /\ m = IF LooksEmpty(pp) THEN SemPostIn(h, Lock(i)) ELSE h
      /\ y = SemPostIn(x, Lock(i))
      /\ v = IF LooksEmpty(pp) /\ pp.eof_signaled THEN m ELSE SemPostIn(y, Space(i))
  BY <1>1, <1>2, <1>h, <1>a, <1>x, <1>y
<1>5. x = Turn(m, i, e)
  BY <1>a, <1>x DEF Turn
<1>e. m.p = w.p => e = (w.p[i].read_index + 1) % PIPE_BUFFER_SIZE
  BY <1>a, <1>f
<1> HIDE DEF locked, a, taken, back
<1>6. PipesShape(w.p) /\ SameBooks(w.p, w.p) /\ w.k \in KernelType /\ Counted(w.k)
  BY BooksKept DEF Sound
<1> DEFINE Moves(u, z, b) == Moved(u, z, i) /\ Gives(u, z, i, 0, b)
<1>m. ASSUME NEW u, NEW o, NEW z, NEW b \in {0, 1}, Moves(u, o, 0), Moves(o, z, b)
      PROVE  Moves(u, z, b)
  <2>1. Moved(u, z, i) /\ Gives(u, z, i, 0 + 0, 0 + b)
    BY <1>m, MovesTwice, GivesTwice
  <2>2. 0 + 0 = 0 /\ 0 + b = b
    OBVIOUS
  <2> QED BY <2>1, <2>2
<1>7. CASE LooksEmpty(pp)
  <2>1. Sound(m) /\ m.k = w.k /\ m.p = w.p /\ Moves(w, m, 0)
    <3>1. m = SemPostIn(h, Lock(i)) /\ h = [k |-> h.k, s |-> h.s, p |-> h.p]
          /\ SameBooks(w.p, h.p)
      BY <1>3, <1>4, <1>6, <1>7
    <3>2. Sound(m) /\ m.k = w.k /\ m.p = h.p /\ Moves(w, m, 0)
      BY <1>3, <1>4, <3>1, LockRound
    <3> QED BY <1>3, <3>2
  <2>2. CASE pp.eof_signaled
    <3>1. v = m
      BY <1>4, <1>7, <2>2
    <3>2. Sound(v) /\ Woken(w.k, v.k) /\ SameBooks(w.p, v.p) /\ Moves(w, v, 0) /\ v.p = w.p
      BY <1>6, <2>1, <3>1, WokenFirst
    <3> QED BY <1>7, <1>f, <2>2, <3>2
  <2>3. CASE ~pp.eof_signaled
    <3>1. /\ x = [k |-> m.k, s |-> m.s, p |-> x.p] /\ SameBooks(m.p, x.p)
          /\ \A j \in PipeIds \ {i} : x.p[j] = m.p[j]
          /\ WithoutByte(w.p[i], x.p[i])
      BY <1>1, <1>5, <1>e, <2>1, Turned DEF Sound, WithoutByte
    <3>2. Sound(x) /\ x.k = m.k /\ x.s = m.s
      BY <2>1, <3>1, SoundTurned
    <3>3. Sound(y) /\ y.p = x.p /\ Woken(x.k, y.k)
      BY <1>1, <1>4, <3>2, PostWorld
    <3>4. v = SemPostIn(y, Space(i))
      BY <1>4, <2>3
    <3>5. Sound(v) /\ v.p = y.p /\ Woken(y.k, v.k)
      BY <1>1, <3>3, <3>4, PostWorld
    <3>6. Moves(m, x, 0)
      BY <3>1, <3>2, NothingMoves DEF Anon
    <3>7. x.p[i].is_in_use /\ y.p[i].is_in_use
      BY <1>1, <2>1, <3>1, <3>3 DEF SameBooks, SameBook
    <3>8. Moves(x, y, 0)
      BY <1>4, <3>2, <3>7, LockPosted
    <3>9. Moves(y, v, 1)
      BY <3>3, <3>4, <3>7, PostMoves
    <3>10. Moves(w, v, 1)
      <4>1. Moves(w, x, 0)
        BY <1>m, <2>1, <3>6
      <4>2. Moves(w, y, 0)
        BY <1>m, <3>8, <4>1
      <4> HIDE DEF Moves
      <4> QED BY <1>m, <3>9, <4>2
    <3> QED BY <1>f, <2>1, <2>3, <3>1, <3>2, <3>3, <3>5, <3>10, WokenTwice
  <2> QED BY <2>2, <2>3
<1>8. CASE ~LooksEmpty(pp)
  <2>1. m = h /\ v = SemPostIn(y, Space(i))
    BY <1>4, <1>8
  <2>2. /\ x = [k |-> h.k, s |-> h.s, p |-> x.p] /\ SameBooks(w.p, x.p)
        /\ \A j \in PipeIds \ {i} : x.p[j] = w.p[j]
        /\ WithoutByte(w.p[i], x.p[i])
    <3>1. /\ x = [k |-> h.k, s |-> h.s, p |-> x.p] /\ SameBooks(h.p, x.p)
          /\ \A j \in PipeIds \ {i} : x.p[j] = h.p[j]
          /\ WithoutByte(h.p[i], x.p[i])
      BY <1>1, <1>3, <1>5, <1>6, <1>e, <2>1, Turned DEF WithoutByte
    <3> QED BY <1>3, <3>1
  <2>3. Sound(y) /\ y.k = w.k /\ y.p = x.p /\ Moves(w, y, 0)
    BY <1>4, <2>2, LockRound DEF Anon
  <2>4. Sound(v) /\ v.p = y.p /\ Woken(y.k, v.k)
    BY <1>1, <2>1, <2>3, PostWorld
  <2>5. y.p[i].is_in_use
    BY <1>1, <2>2, <2>3 DEF SameBooks, SameBook
  <2>6. Moves(y, v, 1)
    BY <2>1, <2>3, <2>5, PostMoves
  <2>7. Moves(w, v, 1)
    BY <1>m, <2>3, <2>6
  <2> QED BY <1>8, <1>f, <2>2, <2>3, <2>4, <2>7
<1> QED BY <1>7, <1>8

-----------------------------------------------------------------------------
(* The posts of EOF, one after the other: a function by recursion on their *)
(* number.                                                                 *)

PostRound(w, n, times, f) ==
  [j \in 0 .. times |->
     IF j = 0 THEN {w} ELSE {SemPostIn(x, n) : x \in f[j - 1]}]

LEMMA PostsRepeat ==
  ASSUME NEW w, NEW n, NEW times
  PROVE  PostTimes(w, n, times) =
           CHOOSE x \in (CHOOSE f : f = PostRound(w, n, times, f))[times] : TRUE
BY DEF PostTimes, PostRound

\* What is so for 0 and for j when it is so for j - 1 is so up to times.
LEMMA UpTo ==
  ASSUME NEW times \in Nat, NEW A, 0 \in A,
         \A j \in 1 .. times : j - 1 \in A => j \in A
  PROVE  times \in A
<1> DEFINE D == {j \in 0 .. times : j \notin A}
<1>1. SUFFICES ASSUME D # {} PROVE FALSE
  <2>1. times \in 0 .. times
    OBVIOUS
  <2> QED BY <1>1, <2>1
<1>2. D \in SUBSET Nat
  OBVIOUS
<1> HIDE DEF D
<1>3. PICK d \in D : \A e \in D : d <= e
  BY <1>1, <1>2, LeastIsLeast
<1>4. d \in 0 .. times /\ d \notin A /\ d # 0
  BY <1>3 DEF D
<1>5. d - 1 \in 0 .. times /\ d \in 1 .. times /\ ~(d <= d - 1)
  BY <1>4
<1>6. d - 1 \in A
  BY <1>3, <1>5 DEF D
<1> QED BY <1>4, <1>5, <1>6

LEMMA PostsDefined ==
  ASSUME NEW w, NEW n, NEW times \in Nat
  PROVE  \E f : f = PostRound(w, n, times, f)
<1> DEFINE B(f, j) == IF j = 0 THEN {w} ELSE {SemPostIn(x, n) : x \in f[j - 1]}
           Partial(f, m) == /\ f = [j \in 0 .. times |-> f[j]]
                            /\ \A j \in 0 .. m : f[j] = B(f, j)
           A == {m \in 0 .. times : \E f : Partial(f, m)}
<1>1. \A f, g, j : (j # 0 => f[j - 1] = g[j - 1]) => B(f, j) = B(g, j)
  OBVIOUS
<1>2. \A f : PostRound(w, n, times, f) = [j \in 0 .. times |-> B(f, j)]
  BY DEF PostRound
<1> HIDE DEF B
<1>3. 0 \in A
  <2> DEFINE g == [j \in 0 .. times |-> B(<<>>, 0)]
  <2>1. B(g, 0) = B(<<>>, 0)
    BY <1>1
  <2>2. Partial(g, 0)
    BY <2>1
  <2> QED BY <2>2
<1>4. ASSUME NEW m \in 1 .. times, m - 1 \in A
      PROVE  m \in A
  <2>1. PICK f : Partial(f, m - 1)
    BY <1>4
  <2> DEFINE b == B(f, m)
             g == [f EXCEPT ![m] = b]
  <2> HIDE DEF b
  <2>2. g = [j \in 0 .. times |-> g[j]] /\ g[m] = b
        /\ \A j \in 0 .. times : j # m => g[j] = f[j]
    <3>1. f = [j \in 0 .. times |-> f[j]] /\ m \in 0 .. times
      BY <2>1
    <3> QED BY <3>1
  <2> HIDE DEF g
  <2>3. ASSUME NEW j \in 0 .. m
        PROVE  g[j] = B(g, j)
    <3>1. j # 0 => j - 1 \in 0 .. times /\ j - 1 # m
      OBVIOUS
    <3>2. j # 0 => f[j - 1] = g[j - 1]
      BY <2>2, <3>1
    <3>3. B(f, j) = B(g, j)
      BY <1>1, <3>2
    <3>4. CASE j = m
      BY <2>2, <3>3, <3>4 DEF b
    <3>5. CASE j # m
      <4>1. j \in 0 .. m - 1 /\ j \in 0 .. times
        BY <3>5
      <4>2. f[j] = B(f, j)
        BY <2>1, <4>1
      <4> QED BY <2>2, <3>3, <3>5, <4>1, <4>2
    <3> QED BY <3>4, <3>5
  <2>4. Partial(g, m)
    BY <2>2, <2>3
  <2> QED BY <2>4
<1>5. times \in A
  <2> HIDE DEF A
  <2> QED BY <1>3, <1>4, UpTo
<1>6. PICK f : Partial(f, times)
  BY <1>5
<1>7. f = PostRound(w, n, times, f)
  BY <1>2, <1>6
<1> QED BY <1>7

LEMMA PostTimesWorld ==
  ASSUME NEW w, Sound(w), NEW n \in SemNames, NEW times \in Nat,
         NEW v, v = PostTimes(w, n, times)
  PROVE  /\ Sound(v) /\ v.p = w.p /\ Woken(w.k, v.k)
         /\ \A i \in Anon : n = Items(i) /\ w.p[i].is_in_use =>
                           Moved(w, v, i) /\ Gives(w, v, i, times, 0)
<1> DEFINE f == CHOOSE g : g = PostRound(w, n, times, g)
           Right(x) == Sound(x) /\ x.p = w.p /\ Woken(w.k, x.k)
           Gave(x, j) == \A i \in Anon : n = Items(i) /\ w.p[i].is_in_use =>
                                         Moved(w, x, i) /\ Gives(w, x, i, j, 0)
           A == {j \in 0 .. times : \E x : f[j] = {x} /\ Right(x) /\ Gave(x, j)}
<1>1. f = PostRound(w, n, times, f)
  BY PostsDefined
<1>2. v = CHOOSE x \in f[times] : TRUE
  BY PostsRepeat
<1> HIDE DEF f
<1>3. \A j \in 0 .. times :
        f[j] = IF j = 0 THEN {w} ELSE {SemPostIn(x, n) : x \in f[j - 1]}
  BY <1>1 DEF PostRound
<1>4. 0 \in A
  <2>1. Right(w) /\ Gave(w, 0)
    BY WokenFirst, NothingMoves DEF Sound
  <2>2. f[0] = {w}
    <3>1. 0 \in 0 .. times
      OBVIOUS
    <3> QED BY <1>3, <3>1, Zenon
  <2> HIDE DEF Right, Gave
  <2> QED BY <2>1, <2>2
<1>5. ASSUME NEW j \in 1 .. times, j - 1 \in A
      PROVE  j \in A
  <2>1. PICK x : f[j - 1] = {x} /\ Right(x) /\ Gave(x, j - 1)
    <3> HIDE DEF Right, Gave
    <3> QED BY <1>5
  <2> DEFINE y == SemPostIn(x, n)
  <2>2. f[j] = {y}
    <3>1. j \in 0 .. times /\ j # 0
      OBVIOUS
    <3>2. f[j] = {SemPostIn(u, n) : u \in f[j - 1]}
      BY <1>3, <3>1, Zenon
    <3>3. f[j - 1] = {x}
      BY <2>1
    <3> QED BY <3>2, <3>3, Zenon
  <2>3. Sound(x) /\ x.p = w.p /\ Woken(w.k, x.k)
    BY <2>1
  <2>p. PICK z : z = y
    OBVIOUS
  <2>4. Sound(z) /\ z.p = x.p /\ Woken(x.k, z.k)
    BY <2>3, <2>p, PostWorld
  <2>5. Right(z)
    BY <2>3, <2>4, WokenTwice DEF Right
  <2>6. Gave(z, j)
    <3> SUFFICES ASSUME NEW i \in Anon, n = Items(i), w.p[i].is_in_use
                 PROVE  Moved(w, z, i) /\ Gives(w, z, i, j, 0)
      OBVIOUS
    <3>1. Moved(w, x, i) /\ Gives(w, x, i, j - 1, 0)
      BY <2>1
    <3>2. Moved(x, z, i) /\ Gives(x, z, i, 1, 0)
      BY <2>3, <2>p, PostMoves
    <3>3. j - 1 \in Int
      OBVIOUS
    <3>4. Moved(w, z, i) /\ Gives(w, z, i, (j - 1) + 1, 0 + 0)
      BY <3>1, <3>2, <3>3, MovesTwice, GivesTwice
    <3>5. (j - 1) + 1 = j /\ 0 + 0 = 0
      OBVIOUS
    <3> QED BY <3>4, <3>5
  <2> HIDE DEF y, Right, Gave
  <2> QED BY <2>2, <2>5, <2>6, <2>p
<1>6. times \in A
  <2> HIDE DEF A
  <2> QED BY <1>4, <1>5, UpTo
<1> HIDE DEF Right, Gave
<1>7. PICK x : f[times] = {x} /\ Right(x) /\ Gave(x, times)
  BY <1>6
<1>8. v = x
  BY <1>2, <1>7
<1> QED BY <1>7, <1>8 DEF Right, Gave

-----------------------------------------------------------------------------
(* The books of a pipe.                                                    *)

\* The sets of holders.
Parties == SUBSET Slots

\* The processes of a hold the read end, those of b the write end.
Tallied(x, a, b) ==
  IF x.is_in_use
  THEN /\ x.read_open_count = Cardinality(a)
       /\ x.write_open_count = Cardinality(b)
       /\ x.ref_count = Cardinality(a) + Cardinality(b)
       /\ a \cup b # {}
       /\ x.eof_signaled <=> b = {}
  ELSE a = {} /\ b = {}

LEMMA SlotsFinite == IsFiniteSet(Slots)
BY FS_Interval, SlotsAssumption DEF Slots

Entry(p, i, d) == [p EXCEPT ![i] = d]

\* Nothing but pipe i, and its semaphores, is changed.
LEMMA SoundEntry ==
  ASSUME NEW w, Sound(w), NEW i \in Anon, NEW d, PipeShape(d),
         NEW t \in SemTables, \A m \in SemNames \ SemsOf(i) : t[m] = w.s[m],
         Matched(t, d, i),
         NEW x, x = [k |-> w.k, s |-> t, p |-> Entry(w.p, i, d)]
  PROVE  /\ Sound(x) /\ x.k = w.k /\ x.s = t /\ x.p[i] = d
         /\ \A j \in PipeIds \ {i} : x.p[j] = w.p[j]
<1>1. i \in PipeIds /\ PipesShape(w.p)
  BY DEF Anon, Sound
<1>2. x.p = [w.p EXCEPT ![i] = d]
  BY DEF Entry
<1>3. /\ x.p = [j \in PipeIds |-> x.p[j]] /\ x.p[i] = d
      /\ \A j \in PipeIds \ {i} : x.p[j] = w.p[j]
  BY <1>1, <1>2 DEF PipesShape
<1>4. PipesShape(x.p)
  BY <1>1, <1>3 DEF PipesShape
<1>5. ASSUME NEW j \in PipeIds, j # i, NEW n \in SemsOf(j), n \in SemNames
      PROVE  t[n] = w.s[n]
  <2>1. n \notin SemsOf(i)
    BY <1>1, <1>5, NamesApart
  <2> QED BY <1>5, <2>1
<1>6. ASSUME NEW j \in Anon
      PROVE  Matched(t, x.p[j], j)
  <2>1. CASE j = i
    BY <1>3, <2>1
  <2>2. CASE j # i
    <3>1. j \in PipeIds /\ x.p[j] = w.p[j] /\ SemsOf(j) \subseteq SemNames
          /\ Lock(j) \in SemsOf(j)
      BY <1>3, <2>2, NamesOfPipe DEF Anon, SemsOf
    <3>2. \A n \in SemsOf(j) : t[n] = w.s[n]
      BY <1>5, <2>2, <3>1
    <3>3. Matched(w.s, w.p[j], j)
      BY DEF Sound, AllMatched
    <3> QED BY <3>1, <3>2, <3>3 DEF Matched
  <2> QED BY <2>1, <2>2
<1>7. ASSUME NEW j \in PipeIds \ Anon
      PROVE  /\ x.p[j].is_in_use
             /\ \A n \in SemsOf(j) \cap SemNames : ~t[n].initialized
  <2>1. w.p[j].is_in_use /\ \A n \in SemsOf(j) \cap SemNames : ~w.s[n].initialized
    BY DEF Sound, AllMatched
  <2>2. x.p[j] = w.p[j] /\ \A n \in SemsOf(j) \cap SemNames : t[n] = w.s[n]
    BY <1>3, <1>5, <1>7
  <2> QED BY <2>1, <2>2
<1>8. AllMatched(t, x.p)
  BY <1>6, <1>7 DEF AllMatched
<1> QED BY <1>3, <1>4, <1>8 DEF Sound

\* The counts and the flag of pipe i are changed, and nothing else.
LEMMA SoundCounts ==
  ASSUME NEW w, Sound(w), NEW i \in Anon, NEW d, PipeShape(d),
         d.is_in_use = w.p[i].is_in_use, d.is_named = w.p[i].is_named,
         d.name = w.p[i].name,
         NEW x, x = [k |-> w.k, s |-> w.s, p |-> Entry(w.p, i, d)]
  PROVE  /\ Sound(x) /\ x.k = w.k /\ x.s = w.s /\ x.p[i] = d
         /\ \A j \in PipeIds \ {i} : x.p[j] = w.p[j]
<1>1. Matched(w.s, d, i)
  <2>1. Matched(w.s, w.p[i], i)
    BY DEF Sound, AllMatched
  <2> QED BY <2>1 DEF Matched
<1>2. w.s \in SemTables
  BY DEF Sound
<1> QED BY <1>1, <1>2, SoundEntry

\* What closing an end does to whoever is at an end of pipe i.
SameRing(x, y) == /\ y.buffer = x.buffer /\ y.read_index = x.read_index
                  /\ y.write_index = x.write_index

Signal(x, y) == IF y.eof_signaled /\ ~x.eof_signaled THEN EOF_POSTS ELSE 0

Ends(w, v, i) ==
  /\ Moved(w, v, i) /\ SameRing(w.p[i], v.p[i])
  /\ w.p[i].eof_signaled => v.p[i].eof_signaled
  /\ v.p[i].is_in_use => Gives(w, v, i, Signal(w.p[i], v.p[i]), 0)

LEMMA EndsQuietly ==
  ASSUME NEW w, NEW v, NEW i \in Anon, v.k = w.k, v.s = w.s,
         \A j \in Anon \ {i} : v.p[j] = w.p[j],
         SameRing(w.p[i], v.p[i]), v.p[i].eof_signaled = w.p[i].eof_signaled
  PROVE  Ends(w, v, i)
<1>1. Moved(w, v, i) /\ Gives(w, v, i, 0, 0)
  BY NothingMoves
<1>2. Signal(w.p[i], v.p[i]) = 0
  BY DEF Signal
<1> QED BY <1>1, <1>2 DEF Ends

LEMMA EndsTwice ==
  ASSUME NEW w, NEW m, NEW v, NEW i \in Anon, m.p[i].is_in_use,
         Ends(w, m, i), Ends(m, v, i)
  PROVE  Ends(w, v, i)
<1>x. PICK x : x = Signal(w.p[i], m.p[i])
  OBVIOUS
<1>y. PICK y : y = Signal(m.p[i], v.p[i])
  OBVIOUS
<1>1. x \in Int /\ y \in Int /\ x + y = Signal(w.p[i], v.p[i])
  BY <1>x, <1>y, PipeAssumption DEF Signal, Ends
<1>2. Moved(w, m, i) /\ Moved(m, v, i) /\ Gives(w, m, i, x, 0)
  BY <1>x DEF Ends
<1>3. Moved(w, v, i)
  BY <1>2, MovesTwice
<1>4. ASSUME v.p[i].is_in_use
      PROVE  Gives(w, v, i, Signal(w.p[i], v.p[i]), 0)
  <2>1. Gives(m, v, i, y, 0)
    BY <1>4, <1>y DEF Ends
  <2>2. Gives(w, v, i, x + y, 0 + 0)
    BY <1>1, <1>2, <2>1, GivesTwice
  <2>3. 0 + 0 = 0
    OBVIOUS
  <2> QED BY <1>1, <2>2, <2>3
<1>5. SameRing(w.p[i], v.p[i]) /\ (w.p[i].eof_signaled => v.p[i].eof_signaled)
  BY DEF Ends, SameRing
<1> QED BY <1>3, <1>4, <1>5 DEF Ends

LEMMA ReadEndLeft ==
  ASSUME NEW w, Sound(w), NEW i \in Anon, NEW n \in Nat,
         w.p[i].read_open_count = n + 1,
         NEW m, m = CloseReadEnd(w, i)
  PROVE  /\ Sound(m) /\ m.k = w.k /\ Ends(w, m, i)
         /\ \A j \in PipeIds \ {i} : m.p[j] = w.p[j]
         /\ m.p[i].is_in_use = w.p[i].is_in_use
         /\ m.p[i].ref_count = w.p[i].ref_count
         /\ m.p[i].write_open_count = w.p[i].write_open_count
         /\ m.p[i].eof_signaled = w.p[i].eof_signaled
         /\ m.p[i].read_open_count = n
<1>c. PICK c : c = w.p[i]
  OBVIOUS
<1>d. PICK d : d = [c EXCEPT !.read_open_count = n]
  OBVIOUS
<1>1. i \in PipeIds /\ PipeShape(c)
  BY <1>c DEF Anon, Sound, PipesShape
<1>2. (n + 1 > 0) /\ (n + 1) - 1 = n
  OBVIOUS
<1>3. m = [w EXCEPT !.p[i].read_open_count = n]
  BY <1>2 DEF CloseReadEnd
<1>4. m = [k |-> w.k, s |-> w.s, p |-> Entry(w.p, i, d)]
  <2>1. w = [k |-> w.k, s |-> w.s, p |-> w.p]
    BY DEF Sound
  <2> QED BY <1>3, <1>c, <1>d, <2>1 DEF Entry
<1>5. /\ PipeShape(d) /\ d.is_in_use = c.is_in_use /\ d.is_named = c.is_named
      /\ d.name = c.name /\ d.ref_count = c.ref_count
      /\ d.write_open_count = c.write_open_count /\ d.eof_signaled = c.eof_signaled
      /\ d.read_open_count = n /\ SameRing(c, d)
  BY <1>1, <1>d DEF PipeShape, SameRing
<1>6. /\ Sound(m) /\ m.k = w.k /\ m.s = w.s /\ m.p[i] = d
      /\ \A j \in PipeIds \ {i} : m.p[j] = w.p[j]
  BY <1>4, <1>5, <1>c, SoundCounts
<1>7. Ends(w, m, i)
  BY <1>5, <1>6, <1>c, EndsQuietly DEF Anon
<1> QED BY <1>5, <1>6, <1>7, <1>c

\* The last of the writers signals EOF, which wakes up readers.
LEMMA WriteEndLeft ==
  ASSUME NEW w, Sound(w), NEW i \in Anon, w.p[i].is_in_use, NEW n \in Nat,
         w.p[i].write_open_count = n + 1, ~w.p[i].eof_signaled,
         NEW m, m = CloseWriteEnd(w, i)
  PROVE  /\ Sound(m) /\ Woken(w.k, m.k) /\ Ends(w, m, i)
         /\ \A j \in PipeIds \ {i} : m.p[j] = w.p[j]
         /\ m.p[i].is_in_use
         /\ m.p[i].ref_count = w.p[i].ref_count
         /\ m.p[i].read_open_count = w.p[i].read_open_count
         /\ m.p[i].write_open_count = n
         /\ m.p[i].eof_signaled <=> n = 0
<1>c. PICK c : c = w.p[i]
  OBVIOUS
<1>d. PICK d : d = [c EXCEPT !.write_open_count = n]
  OBVIOUS
<1>e. PICK e : e = [d EXCEPT !.eof_signaled = TRUE]
  OBVIOUS
<1>a. PICK a : a = [w EXCEPT !.p[i].write_open_count = n]
  OBVIOUS
<1>b. PICK b : b = [a EXCEPT !.p[i].eof_signaled = TRUE]
  OBVIOUS
<1>1. i \in PipeIds /\ PipeShape(c) /\ w = [k |-> w.k, s |-> w.s, p |-> w.p]
  BY <1>c DEF Anon, Sound, PipesShape
<1>2. (n + 1 > 0) /\ (n + 1) - 1 = n
  OBVIOUS
<1>3. a = [k |-> w.k, s |-> w.s, p |-> Entry(w.p, i, d)]
  BY <1>1, <1>c, <1>d, <1>a DEF Entry
<1>4. /\ PipeShape(d) /\ d.is_in_use = c.is_in_use /\ d.is_named = c.is_named
      /\ d.name = c.name /\ d.ref_count = c.ref_count
      /\ d.write_open_count = n /\ d.eof_signaled = c.eof_signaled
      /\ d.read_open_count = c.read_open_count /\ SameRing(c, d)
  BY <1>1, <1>d DEF PipeShape, SameRing
<1>5. /\ Sound(a) /\ a.k = w.k /\ a.s = w.s /\ a.p[i] = d
      /\ \A j \in PipeIds \ {i} : a.p[j] = w.p[j]
  BY <1>3, <1>4, <1>c, SoundCounts
<1>6. m = IF n = 0 THEN PostTimes(b, ItemsOf(d), EOF_POSTS) ELSE a
  <2>1. m = IF d.write_open_count = 0 /\ ~d.eof_signaled
            THEN PostTimes(b, ItemsOf(d), EOF_POSTS) ELSE a
    <3> DEFINE A == [w EXCEPT !.p[i].write_open_count = IF @ > 0 THEN @ - 1 ELSE @]
               B == [A EXCEPT !.p[i].eof_signaled = TRUE]
    <3>1. A = a
      BY <1>2, <1>a
    <3>2. m = IF A.p[i].write_open_count = 0 /\ ~A.p[i].eof_signaled
              THEN PostTimes(B, ItemsOf(A.p[i]), EOF_POSTS) ELSE A
      BY Zenon DEF CloseWriteEnd
    <3>3. B = b
      BY <3>1, <1>b
    <3> HIDE DEF A, B
    <3> QED BY <1>5, <3>1, <3>2, <3>3
  <2> QED BY <1>4, <1>c, <2>1
<1>7. CASE n = 0
  <2>1. /\ PipeShape(e) /\ e.is_in_use = d.is_in_use /\ e.is_named = d.is_named
        /\ e.name = d.name /\ e.ref_count = d.ref_count
        /\ e.write_open_count = d.write_open_count /\ e.eof_signaled = TRUE
        /\ e.read_open_count = d.read_open_count /\ SameRing(d, e)
    BY <1>4, <1>e DEF PipeShape, SameRing
  <2>2. b = [k |-> a.k, s |-> a.s, p |-> Entry(a.p, i, e)]
    <3>1. a = [k |-> a.k, s |-> a.s, p |-> a.p]
      BY <1>5 DEF Sound
    <3> QED BY <1>5, <1>b, <1>e, <3>1 DEF Entry
  <2>3. /\ Sound(b) /\ b.k = a.k /\ b.s = a.s /\ b.p[i] = e
        /\ \A j \in PipeIds \ {i} : b.p[j] = a.p[j]
    BY <1>5, <2>1, <2>2, SoundCounts
  <2>4. ItemsOf(d) \in SemNames /\ ItemsOf(d) = Items(i)
    <3>1. d.name = AnonName(i)
      BY <1>4, <1>c DEF Sound, AllMatched, Matched
    <3> QED BY <1>1, <3>1, NamesKnown, NamesOfPipe DEF SemsOf
  <2>5. Sound(m) /\ m.p = b.p /\ Woken(b.k, m.k)
    BY <1>6, <1>7, <2>3, <2>4, PostTimesWorld, PipeAssumption
  <2>6. b.p[i].is_in_use
    BY <1>4, <1>c, <2>1, <2>3
  <2>7. Moved(b, m, i) /\ Gives(b, m, i, EOF_POSTS, 0)
    BY <1>6, <1>7, <2>3, <2>4, <2>6, PostTimesWorld, PipeAssumption
  <2>8. Moved(w, b, i) /\ Gives(w, b, i, 0, 0)
    BY <1>5, <2>3, NothingMoves DEF Anon
  <2>9. Moved(w, m, i) /\ Gives(w, m, i, 0 + EOF_POSTS, 0 + 0)
    BY <2>7, <2>8, MovesTwice, GivesTwice, PipeAssumption
  <2>10. 0 + EOF_POSTS = EOF_POSTS /\ 0 + 0 = 0
    BY PipeAssumption
  <2>11. m.p[i] = e /\ SameRing(c, e) /\ e.eof_signaled = TRUE
    BY <1>4, <2>1, <2>3, <2>5 DEF SameRing
  <2>12. Signal(c, e) = EOF_POSTS
    BY <1>c, <2>11 DEF Signal
  <2>13. Ends(w, m, i)
    BY <1>c, <2>9, <2>10, <2>11, <2>12 DEF Ends
  <2> QED BY <1>4, <1>5, <1>7, <1>c, <2>1, <2>3, <2>5, <2>13
<1>8. CASE n # 0
  <2>1. Woken(w.k, w.k)
    BY WokenFirst DEF Sound
  <2>2. Ends(w, a, i)
    BY <1>4, <1>5, <1>c, EndsQuietly DEF Anon
  <2> QED BY <1>4, <1>5, <1>6, <1>8, <1>c, <2>1, <2>2
<1> QED BY <1>7, <1>8

\* sem_close() three times, with the last reference.
LEMMA SemsClosed ==
  ASSUME NEW w, Sound(w), NEW i \in Anon, w.p[i].is_in_use,
         NEW t, t = SemClose(SemClose(SemClose(w.s, Lock(i)), Items(i)), Space(i))
  PROVE  /\ t \in SemTables
         /\ \A m \in SemNames \ SemsOf(i) : t[m] = w.s[m]
         /\ \A m \in SemsOf(i) : ~t[m].initialized /\ t[m].blocked = w.s[m].blocked
<1>1. /\ Lock(i) \in SemNames /\ Items(i) \in SemNames /\ Space(i) \in SemNames
      /\ Lock(i) # Items(i) /\ Lock(i) # Space(i) /\ Items(i) # Space(i)
  BY NamesOfPipe DEF SemsOf
<1>2. w.s \in SemTables /\ \A m \in SemsOf(i) : w.s[m].openings = 1
  BY DEF Sound, AllMatched, Matched
<1>a. PICK a : a = SemClose(w.s, Lock(i))
  OBVIOUS
<1>b. PICK b : b = SemClose(a, Items(i))
  OBVIOUS
<1>3. /\ a \in SemTables /\ ~a[Lock(i)].initialized /\ a[Lock(i)].blocked = w.s[Lock(i)].blocked
      /\ \A m \in SemNames \ {Lock(i)} : a[m] = w.s[m]
  BY <1>1, <1>2, <1>a, CloseTable DEF SemsOf
<1>4. a[Items(i)].openings = 1 /\ a[Space(i)].openings = 1
  BY <1>1, <1>2, <1>3 DEF SemsOf
<1>5. /\ b \in SemTables /\ ~b[Items(i)].initialized /\ b[Items(i)].blocked = a[Items(i)].blocked
      /\ \A m \in SemNames \ {Items(i)} : b[m] = a[m]
  BY <1>1, <1>3, <1>4, <1>b, CloseTable
<1>6. b[Space(i)].openings = 1 /\ ~b[Lock(i)].initialized
  BY <1>1, <1>3, <1>4, <1>5
<1>7. t = SemClose(b, Space(i))
  BY <1>a, <1>b
<1>8. /\ t \in SemTables /\ ~t[Space(i)].initialized /\ t[Space(i)].blocked = b[Space(i)].blocked
      /\ \A m \in SemNames \ {Space(i)} : t[m] = b[m]
  <2>1. Space(i) \in SemNames /\ b \in SemTables /\ b[Space(i)].openings = 1
    BY <1>1, <1>5, <1>6
  <2>2. /\ SemClose(b, Space(i)) \in SemTables
        /\ \A m \in SemNames \ {Space(i)} : SemClose(b, Space(i))[m] = b[m]
        /\ ~SemClose(b, Space(i))[Space(i)].initialized
        /\ SemClose(b, Space(i))[Space(i)].blocked = b[Space(i)].blocked
    BY ONLY <2>1, CloseTable
  <2> QED BY <1>7, <2>2
<1>9. ~t[Lock(i)].initialized /\ ~t[Items(i)].initialized
  BY <1>1, <1>5, <1>6, <1>8
<1>10. \A m \in SemNames \ SemsOf(i) : t[m] = w.s[m]
  BY <1>3, <1>5, <1>8 DEF SemsOf
<1>11. /\ t[Lock(i)].blocked = w.s[Lock(i)].blocked
       /\ t[Items(i)].blocked = w.s[Items(i)].blocked
       /\ t[Space(i)].blocked = w.s[Space(i)].blocked
  BY <1>1, <1>3, <1>5, <1>8
<1> QED BY <1>8, <1>9, <1>10, <1>11 DEF SemsOf

\* A pipe goes with its last holder, and its semaphores with it.
LEMMA ReferenceDropped ==
  ASSUME NEW w, Sound(w), NEW i \in Anon, w.p[i].is_in_use,
         NEW a \in Parties, NEW b \in Parties,
         w.p[i].ref_count = Cardinality(a) + Cardinality(b) + 1,
         w.p[i].read_open_count = Cardinality(a),
         w.p[i].write_open_count = Cardinality(b),
         w.p[i].eof_signaled <=> b = {},
         NEW v, v = DropReference(w, i)
  PROVE  /\ Sound(v) /\ v.k = w.k /\ Tallied(v.p[i], a, b)
         /\ \A j \in PipeIds \ {i} : v.p[j] = w.p[j]
         /\ Ends(w, v, i)
<1> DEFINE n == Cardinality(a) + Cardinality(b)
<1>1. /\ n \in Nat /\ (n = 0 <=> (a = {} /\ b = {}))
      /\ Cardinality(a) + Cardinality(b) + 1 - 1 = n
  <2>1. IsFiniteSet(a) /\ IsFiniteSet(b)
    BY SlotsFinite, FS_Subset DEF Parties
  <2>2. Cardinality(a) \in Nat /\ Cardinality(b) \in Nat
        /\ (Cardinality(a) = 0 <=> a = {}) /\ (Cardinality(b) = 0 <=> b = {})
    BY <2>1, FS_CardinalityType, FS_EmptySet
  <2> QED BY <2>2
<1>c. PICK c : c = w.p[i]
  OBVIOUS
<1>d. PICK d : d = [c EXCEPT !.ref_count = n]
  OBVIOUS
<1>e. PICK e : e = [d EXCEPT !.is_in_use = FALSE]
  OBVIOUS
<1>x. PICK x : x = [w EXCEPT !.p[i].ref_count = n]
  OBVIOUS
<1>2. i \in PipeIds /\ PipeShape(c) /\ w = [k |-> w.k, s |-> w.s, p |-> w.p]
  BY <1>c DEF Anon, Sound, PipesShape
<1>3. x = [k |-> w.k, s |-> w.s, p |-> Entry(w.p, i, d)]
  BY <1>2, <1>c, <1>d, <1>x DEF Entry
<1>4. /\ PipeShape(d) /\ d.is_in_use = c.is_in_use /\ d.is_named = c.is_named
      /\ d.name = c.name /\ d.ref_count = n
      /\ d.write_open_count = c.write_open_count /\ d.eof_signaled = c.eof_signaled
      /\ d.read_open_count = c.read_open_count /\ SameRing(c, d)
  BY <1>2, <1>d DEF PipeShape, SameRing
<1>5. /\ Sound(x) /\ x.k = w.k /\ x.s = w.s /\ x.p[i] = d
      /\ \A j \in PipeIds \ {i} : x.p[j] = w.p[j]
  BY <1>3, <1>4, <1>c, SoundCounts
<1>6. LockOf(d) = Lock(i) /\ ItemsOf(d) = Items(i) /\ SpaceOf(d) = Space(i)
  <2>1. d.name = AnonName(i)
    BY <1>4, <1>c DEF Sound, AllMatched, Matched
  <2> QED BY <1>2, <2>1, NamesKnown
<1> DEFINE X == [w EXCEPT !.p[i].ref_count = @ - 1]
           Y == SemCloseIn(SemCloseIn(SemCloseIn(x, Lock(i)), Items(i)), Space(i))
<1>7. v = IF n # 0 THEN x ELSE [Y EXCEPT !.p[i].is_in_use = FALSE]
  <2> DEFINE Z(y, o) == [SemCloseIn(SemCloseIn(SemCloseIn(y, LockOf(o)), ItemsOf(o)),
                                   SpaceOf(o)) EXCEPT !.p[i].is_in_use = FALSE]
  <2>1. v = IF X.p[i].ref_count # 0 THEN X ELSE Z(X, X.p[i])
    BY Zenon DEF DropReference
  <2>2. w.p[i].ref_count - 1 = n
    BY <1>1
  <2> HIDE DEF n
  <2>3. X = x
    BY <2>2, <1>x
  <2>4. Z(x, d) = [Y EXCEPT !.p[i].is_in_use = FALSE]
    BY <1>6
  <2> HIDE DEF X, Y, Z
  <2> QED BY <1>4, <1>5, <2>1, <2>3, <2>4
<1> HIDE DEF n
<1>8. CASE n # 0
  <2>1. a \cup b # {}
    BY <1>1, <1>8
  <2>2. Tallied(d, a, b)
    BY <1>4, <1>c, <2>1 DEF Tallied, n
  <2>3. Ends(w, x, i)
    BY <1>4, <1>5, <1>c, EndsQuietly DEF Anon
  <2> HIDE DEF X, Y
  <2> QED BY <1>5, <1>7, <1>8, <2>2, <2>3
<1>9. CASE n = 0
  <2>t. PICK t : t = SemClose(SemClose(SemClose(x.s, Lock(i)), Items(i)), Space(i))
    OBVIOUS
  <2>1. Y = [k |-> x.k, s |-> t, p |-> x.p]
    <3>1. x = [k |-> x.k, s |-> x.s, p |-> x.p]
      BY <1>5 DEF Sound
    <3>2. PICK y : y = SemCloseIn(x, Lock(i))
      OBVIOUS
    <3>3. y = [k |-> x.k, s |-> SemClose(x.s, Lock(i)), p |-> x.p]
      BY <3>1, <3>2 DEF SemCloseIn
    <3>4. PICK z : z = SemCloseIn(y, Items(i))
      OBVIOUS
    <3>5. z = [k |-> x.k, s |-> SemClose(SemClose(x.s, Lock(i)), Items(i)), p |-> x.p]
      BY <3>3, <3>4 DEF SemCloseIn
    <3>6. Y = SemCloseIn(z, Space(i))
      BY <3>2, <3>4
    <3> HIDE DEF Y
    <3> QED BY <2>t, <3>5, <3>6 DEF SemCloseIn
  <2>2. v = [k |-> x.k, s |-> t, p |-> Entry(x.p, i, e)]
    <3> HIDE DEF Y
    <3>1. v = [Y EXCEPT !.p[i].is_in_use = FALSE]
      BY <1>7, <1>9
    <3> QED BY <1>5, <1>e, <2>1, <3>1 DEF Entry
  <2>3. x.p[i].is_in_use
    BY <1>4, <1>5, <1>c
  <2>4. /\ t \in SemTables
        /\ \A m \in SemNames \ SemsOf(i) : t[m] = x.s[m]
        /\ \A m \in SemsOf(i) : ~t[m].initialized /\ t[m].blocked = x.s[m].blocked
    BY <1>5, <2>3, <2>t, SemsClosed
  <2>5. /\ PipeShape(e) /\ e.is_in_use = FALSE /\ SameRing(d, e)
        /\ e.eof_signaled = d.eof_signaled
    BY <1>4, <1>e DEF PipeShape, SameRing
  <2>6. Matched(t, e, i)
    BY <2>4, <2>5 DEF Matched
  <2>7. /\ Sound(v) /\ v.k = x.k /\ v.s = t /\ v.p[i] = e
        /\ \A j \in PipeIds \ {i} : v.p[j] = x.p[j]
    <3> HIDE DEF Y
    <3> QED BY <1>5, <2>2, <2>4, <2>5, <2>6, SoundEntry
  <2>8. Tallied(e, a, b)
    BY <1>1, <1>9, <2>5 DEF Tallied
  <2> HIDE DEF X, Y
  <2>9. Moved(w, v, i)
    <3>1. /\ t[Items(i)].blocked = w.s[Items(i)].blocked
          /\ t[Space(i)].blocked = w.s[Space(i)].blocked
      BY <1>5, <2>4 DEF SemsOf
    <3>2. \A j \in Anon \ {i} : t[Items(j)] = w.s[Items(j)] /\ t[Space(j)] = w.s[Space(j)]
      <4> SUFFICES ASSUME NEW j \in Anon \ {i}
                   PROVE  t[Items(j)] = w.s[Items(j)] /\ t[Space(j)] = w.s[Space(j)]
        OBVIOUS
      <4>1. i \in PipeIds /\ j \in PipeIds /\ i # j
        BY DEF Anon
      <4>2. Items(j) \in SemNames \ SemsOf(i) /\ Space(j) \in SemNames \ SemsOf(i)
        BY <4>1, NamesApart, NamesOfPipe DEF SemsOf
      <4> QED BY <1>5, <2>4, <4>2
    <3> QED BY <1>5, <2>7, <3>1, <3>2 DEF Moved, InQueue, SleepsAlike, Anon
  <2>10. Ends(w, v, i)
    <3>1. SameRing(c, e) /\ e.eof_signaled = c.eof_signaled
      BY <1>4, <2>5 DEF SameRing
    <3> QED BY <1>c, <2>5, <2>7, <2>9, <3>1 DEF Ends
  <2> QED BY <1>5, <2>7, <2>8, <2>10
<1> QED BY <1>8, <1>9

\* pipe_close(), by one of the holders.
LEMMA ReadEndCloses ==
  ASSUME NEW w, Sound(w), NEW i \in Anon,
         NEW a \in Parties, NEW b \in Parties, Tallied(w.p[i], a, b),
         NEW q \in a, NEW c, c = a \ {q},
         NEW v, v = PipeClose(w, i, "PIPE_READ_END")
  PROVE  /\ Sound(v) /\ Woken(w.k, v.k) /\ Tallied(v.p[i], c, b) /\ Ends(w, v, i)
         /\ \A j \in PipeIds \ {i} : v.p[j] = w.p[j]
<1>1. /\ w.p[i].is_in_use /\ w.p[i].read_open_count = Cardinality(a)
      /\ w.p[i].write_open_count = Cardinality(b)
      /\ w.p[i].ref_count = Cardinality(a) + Cardinality(b)
      /\ w.p[i].eof_signaled <=> b = {}
  BY DEF Tallied
<1>2. /\ Cardinality(c) \in Nat /\ Cardinality(b) \in Nat
      /\ Cardinality(a) = Cardinality(c) + 1 /\ c \in Parties
  <2>1. IsFiniteSet(a) /\ IsFiniteSet(b)
    BY SlotsFinite, FS_Subset DEF Parties
  <2>2. IsFiniteSet(c) /\ Cardinality(c) = Cardinality(a) - 1 /\ Cardinality(a) \in Nat
    BY <2>1, FS_RemoveElement, FS_CardinalityType
  <2>3. Cardinality(c) \in Nat /\ Cardinality(b) \in Nat
    BY <2>1, <2>2, FS_CardinalityType
  <2> QED BY <2>2, <2>3 DEF Parties
<1>m. PICK m : m = CloseReadEnd(w, i)
  OBVIOUS
<1>3. v = DropReference(m, i)
  BY <1>1, <1>m DEF PipeClose
<1>4. /\ Sound(m) /\ m.k = w.k /\ m.p[i].is_in_use /\ Ends(w, m, i)
      /\ \A j \in PipeIds \ {i} : m.p[j] = w.p[j]
      /\ m.p[i].ref_count = Cardinality(a) + Cardinality(b)
      /\ m.p[i].write_open_count = Cardinality(b)
      /\ m.p[i].eof_signaled <=> b = {}
      /\ m.p[i].read_open_count = Cardinality(c)
  BY <1>1, <1>2, <1>m, ReadEndLeft
<1>5. Cardinality(a) + Cardinality(b) = Cardinality(c) + Cardinality(b) + 1
  BY <1>2
<1>6. /\ Sound(v) /\ v.k = m.k /\ Tallied(v.p[i], c, b) /\ Ends(m, v, i)
      /\ \A j \in PipeIds \ {i} : v.p[j] = m.p[j]
  BY <1>2, <1>3, <1>4, <1>5, ReferenceDropped
<1>7. Woken(w.k, w.k)
  BY WokenFirst DEF Sound
<1>8. Ends(w, v, i)
  BY <1>4, <1>6, EndsTwice
<1> QED BY <1>4, <1>6, <1>7, <1>8

LEMMA WriteEndCloses ==
  ASSUME NEW w, Sound(w), NEW i \in Anon,
         NEW a \in Parties, NEW b \in Parties, Tallied(w.p[i], a, b),
         NEW q \in b, NEW c, c = b \ {q},
         NEW v, v = PipeClose(w, i, "PIPE_WRITE_END")
  PROVE  /\ Sound(v) /\ Woken(w.k, v.k) /\ Tallied(v.p[i], a, c) /\ Ends(w, v, i)
         /\ \A j \in PipeIds \ {i} : v.p[j] = w.p[j]
<1>1. /\ w.p[i].is_in_use /\ w.p[i].read_open_count = Cardinality(a)
      /\ w.p[i].write_open_count = Cardinality(b)
      /\ w.p[i].ref_count = Cardinality(a) + Cardinality(b)
      /\ ~w.p[i].eof_signaled
  BY DEF Tallied
<1>2. /\ Cardinality(c) \in Nat /\ Cardinality(a) \in Nat /\ c \in Parties
      /\ Cardinality(b) = Cardinality(c) + 1 /\ (Cardinality(c) = 0 <=> c = {})
  <2>1. IsFiniteSet(a) /\ IsFiniteSet(b)
    BY SlotsFinite, FS_Subset DEF Parties
  <2>2. IsFiniteSet(c) /\ Cardinality(c) = Cardinality(b) - 1 /\ Cardinality(b) \in Nat
    BY <2>1, FS_RemoveElement, FS_CardinalityType
  <2>3. Cardinality(c) \in Nat /\ Cardinality(a) \in Nat /\ (Cardinality(c) = 0 <=> c = {})
    BY <2>1, <2>2, FS_CardinalityType, FS_EmptySet
  <2> QED BY <2>2, <2>3 DEF Parties
<1>m. PICK m : m = CloseWriteEnd(w, i)
  OBVIOUS
<1>3. v = DropReference(m, i)
  BY <1>1, <1>m DEF PipeClose
<1>4. /\ Sound(m) /\ Woken(w.k, m.k) /\ m.p[i].is_in_use /\ Ends(w, m, i)
      /\ \A j \in PipeIds \ {i} : m.p[j] = w.p[j]
      /\ m.p[i].ref_count = Cardinality(a) + Cardinality(b)
      /\ m.p[i].read_open_count = Cardinality(a)
      /\ m.p[i].write_open_count = Cardinality(c)
      /\ m.p[i].eof_signaled <=> c = {}
  BY <1>1, <1>2, <1>m, WriteEndLeft
<1>5. /\ c \in Parties /\ Sound(m) /\ m.p[i].is_in_use
      /\ m.p[i].ref_count = Cardinality(a) + Cardinality(c) + 1
      /\ m.p[i].read_open_count = Cardinality(a)
      /\ m.p[i].write_open_count = Cardinality(c)
      /\ m.p[i].eof_signaled <=> c = {}
  <2>1. Cardinality(a) + Cardinality(b) = Cardinality(a) + Cardinality(c) + 1
    BY <1>2
  <2> QED BY <1>2, <1>4, <2>1
<1>6. /\ Sound(v) /\ v.k = m.k /\ Tallied(v.p[i], a, c) /\ Ends(m, v, i)
      /\ \A j \in PipeIds \ {i} : v.p[j] = m.p[j]
  BY <1>3, <1>5, ReferenceDropped
<1>7. Ends(w, v, i)
  BY <1>4, <1>6, EndsTwice
<1> QED BY <1>4, <1>6, <1>7

\* The books of pipe i have changed, and no other pipe.
Changed(w, v, i, a, b) ==
  /\ Sound(v) /\ v.k = w.k /\ v.s = w.s /\ Tallied(v.p[i], a, b)
  /\ \A j \in PipeIds \ {i} : v.p[j] = w.p[j]

\* pipe_register(), for a process that holds the end from now on.
LEMMA ReadEndRegistered ==
  ASSUME NEW w, Sound(w), NEW i \in Anon, w.p[i].is_in_use,
         NEW a \in Parties, NEW b \in Parties, Tallied(w.p[i], a, b),
         NEW q \in Slots, q \notin a, NEW u, u = a \cup {q},
         NEW v, v = PipeRegister(w, i, "PIPE_READ_END")
  PROVE  Changed(w, v, i, u, b)
<1> DEFINE r == w.p[i].ref_count + 1
           n == w.p[i].read_open_count + 1
<1>c. PICK c : c = w.p[i]
  OBVIOUS
<1>d. PICK d : d = [c EXCEPT !.ref_count = r, !.read_open_count = n]
  OBVIOUS
<1>1. i \in PipeIds /\ PipeShape(c) /\ w = [k |-> w.k, s |-> w.s, p |-> w.p]
  BY <1>c DEF Anon, Sound, PipesShape
<1>2. /\ IsFiniteSet(a) /\ Cardinality(a) \in Nat /\ Cardinality(b) \in Nat
      /\ Cardinality(u) = Cardinality(a) + 1
  <2>1. IsFiniteSet(a) /\ IsFiniteSet(b)
    BY SlotsFinite, FS_Subset DEF Parties
  <2>2. Cardinality(u) = Cardinality(a) + 1
    BY <2>1, FS_AddElement
  <2> QED BY <2>1, <2>2, FS_CardinalityType
<1> HIDE DEF r, n
<1>3. /\ PipeShape(d) /\ d.is_in_use = c.is_in_use /\ d.is_named = c.is_named
      /\ d.name = c.name /\ d.ref_count = r /\ d.read_open_count = n
      /\ d.write_open_count = c.write_open_count /\ d.eof_signaled = c.eof_signaled
  BY <1>1, <1>d DEF PipeShape
<1>4. v = [k |-> w.k, s |-> w.s, p |-> Entry(w.p, i, d)]
  <2>1. v = [w EXCEPT !.p[i].ref_count = @ + 1, !.p[i].read_open_count = @ + 1,
                      !.p[i].write_open_count = @]
    BY Zenon DEF PipeRegister
  <2> DEFINE o == c.write_open_count
             e == [c EXCEPT !.ref_count = r, !.read_open_count = n,
                            !.write_open_count = o]
  <2>2. v = [w EXCEPT !.p[i].ref_count = r, !.p[i].read_open_count = n,
                      !.p[i].write_open_count = o]
    BY <2>1, <1>c DEF r, n, Sound, PipesShape
  <2>3. d = e
    BY <1>1, <1>d DEF PipeShape
  <2> HIDE DEF o
  <2>4. v = [k |-> w.k, s |-> w.s, p |-> [w.p EXCEPT ![i] = e]]
    <3>a. PICK c1 : c1 = [c EXCEPT !.ref_count = r]
      OBVIOUS
    <3>b. PICK c2 : c2 = [c1 EXCEPT !.read_open_count = n]
      OBVIOUS
    <3>x. PICK x : x = [w EXCEPT !.p[i].ref_count = r]
      OBVIOUS
    <3>y. PICK y : y = [x EXCEPT !.p[i].read_open_count = n]
      OBVIOUS
    <3>1. v = [y EXCEPT !.p[i].write_open_count = o]
      BY <2>2, <3>x, <3>y
    <3>2. e = [c2 EXCEPT !.write_open_count = o]
      BY <3>a, <3>b
    <3> HIDE DEF e
    <3>3. /\ x = [k |-> w.k, s |-> w.s, p |-> x.p] /\ x.p = [w.p EXCEPT ![i] = c1]
          /\ x.p[i] = c1
      BY <1>1, <1>c, <3>a, <3>x DEF Sound, PipesShape
    <3>4. /\ y = [k |-> w.k, s |-> w.s, p |-> y.p] /\ y.p = [w.p EXCEPT ![i] = c2]
          /\ y.p[i] = c2
      BY <1>1, <3>3, <3>b, <3>y DEF Sound, PipesShape
    <3> QED BY <1>1, <3>1, <3>2, <3>4
  <2> HIDE DEF e
  <2> QED BY <2>3, <2>4 DEF Entry
<1>5. /\ Sound(v) /\ v.k = w.k /\ v.s = w.s /\ v.p[i] = d
      /\ \A j \in PipeIds \ {i} : v.p[j] = w.p[j]
  BY <1>3, <1>4, <1>c, SoundCounts
<1>6. Tallied(d, u, b)
  BY <1>2, <1>3, <1>c DEF Tallied, r, n
<1> QED BY <1>5, <1>6 DEF Changed

LEMMA WriteEndRegistered ==
  ASSUME NEW w, Sound(w), NEW i \in Anon, w.p[i].is_in_use,
         NEW a \in Parties, NEW b \in Parties, Tallied(w.p[i], a, b),
         ~w.p[i].eof_signaled, NEW q \in Slots, q \notin b, NEW u, u = b \cup {q},
         NEW v, v = PipeRegister(w, i, "PIPE_WRITE_END")
  PROVE  Changed(w, v, i, a, u)
<1> DEFINE r == w.p[i].ref_count + 1
           n == w.p[i].write_open_count + 1
<1>c. PICK c : c = w.p[i]
  OBVIOUS
<1>d. PICK d : d = [c EXCEPT !.ref_count = r, !.write_open_count = n]
  OBVIOUS
<1>1. i \in PipeIds /\ PipeShape(c) /\ w = [k |-> w.k, s |-> w.s, p |-> w.p]
  BY <1>c DEF Anon, Sound, PipesShape
<1>2. /\ IsFiniteSet(b) /\ Cardinality(a) \in Nat /\ Cardinality(b) \in Nat
      /\ Cardinality(u) = Cardinality(b) + 1
  <2>1. IsFiniteSet(a) /\ IsFiniteSet(b)
    BY SlotsFinite, FS_Subset DEF Parties
  <2>2. Cardinality(u) = Cardinality(b) + 1
    BY <2>1, FS_AddElement
  <2> QED BY <2>1, <2>2, FS_CardinalityType
<1> HIDE DEF r, n
<1>3. /\ PipeShape(d) /\ d.is_in_use = c.is_in_use /\ d.is_named = c.is_named
      /\ d.name = c.name /\ d.ref_count = r /\ d.write_open_count = n
      /\ d.read_open_count = c.read_open_count /\ d.eof_signaled = c.eof_signaled
  BY <1>1, <1>d DEF PipeShape
<1>4. v = [k |-> w.k, s |-> w.s, p |-> Entry(w.p, i, d)]
  <2>1. v = [w EXCEPT !.p[i].ref_count = @ + 1, !.p[i].read_open_count = @,
                      !.p[i].write_open_count = @ + 1]
    BY Zenon DEF PipeRegister
  <2> DEFINE o == c.read_open_count
             e == [c EXCEPT !.ref_count = r, !.read_open_count = o,
                            !.write_open_count = n]
  <2>2. v = [w EXCEPT !.p[i].ref_count = r, !.p[i].read_open_count = o,
                      !.p[i].write_open_count = n]
    BY <2>1, <1>c DEF r, n, Sound, PipesShape
  <2>3. d = e
    BY <1>1, <1>d DEF PipeShape
  <2> HIDE DEF o
  <2>4. v = [k |-> w.k, s |-> w.s, p |-> [w.p EXCEPT ![i] = e]]
    <3>a. PICK c1 : c1 = [c EXCEPT !.ref_count = r]
      OBVIOUS
    <3>b. PICK c2 : c2 = [c1 EXCEPT !.read_open_count = o]
      OBVIOUS
    <3>x. PICK x : x = [w EXCEPT !.p[i].ref_count = r]
      OBVIOUS
    <3>y. PICK y : y = [x EXCEPT !.p[i].read_open_count = o]
      OBVIOUS
    <3>1. v = [y EXCEPT !.p[i].write_open_count = n]
      BY <2>2, <3>x, <3>y
    <3>2. e = [c2 EXCEPT !.write_open_count = n]
      BY <3>a, <3>b
    <3> HIDE DEF e
    <3>3. /\ x = [k |-> w.k, s |-> w.s, p |-> x.p] /\ x.p = [w.p EXCEPT ![i] = c1]
          /\ x.p[i] = c1
      BY <1>1, <1>c, <3>a, <3>x DEF Sound, PipesShape
    <3>4. /\ y = [k |-> w.k, s |-> w.s, p |-> y.p] /\ y.p = [w.p EXCEPT ![i] = c2]
          /\ y.p[i] = c2
      BY <1>1, <3>3, <3>b, <3>y DEF Sound, PipesShape
    <3> QED BY <1>1, <3>1, <3>2, <3>4
  <2> HIDE DEF e
  <2> QED BY <2>3, <2>4 DEF Entry
<1>5. /\ Sound(v) /\ v.k = w.k /\ v.s = w.s /\ v.p[i] = d
      /\ \A j \in PipeIds \ {i} : v.p[j] = w.p[j]
  BY <1>3, <1>4, <1>c, SoundCounts
<1>6. Tallied(d, a, u)
  BY <1>2, <1>3, <1>c DEF Tallied, r, n
<1> QED BY <1>5, <1>6 DEF Changed

-----------------------------------------------------------------------------
(* The books of all the pipes, by the holders A of the read ends and B of  *)
(* the write ends.                                                         *)

EndSets == [Anon -> Parties]

Booked(w, A, B) == Sound(w) /\ \A i \in Anon : Tallied(w.p[i], A[i], B[i])

\* What the standard descriptors do not stand for.
Fds == [in : {STDIN} \cup Anon, out : {STDOUT} \cup Anon]

Less(A, i, q) == [j \in Anon |-> IF j = i THEN A[j] \ {q} ELSE A[j]]
More(A, i, q) == [j \in Anon |-> IF j = i THEN A[j] \cup {q} ELSE A[j]]

LEMMA EndsType ==
  ASSUME NEW A \in EndSets, NEW i, NEW q \in Slots
  PROVE  Less(A, i, q) \in EndSets /\ More(A, i, q) \in EndSets
BY DEF EndSets, Less, More, Parties

LEMMA AnonOrStandard ==
  ASSUME NEW fd \in Fds
  PROVE  /\ fd.in > STDERR => fd.in \in Anon
         /\ fd.in \in Anon => fd.in > STDERR
         /\ fd.out > STDERR => fd.out \in Anon
         /\ fd.out \in Anon => fd.out > STDERR
BY DEF Fds, Anon, STDIN, STDOUT, STDERR

LEMMA BookedReadCloses ==
  ASSUME NEW A \in EndSets, NEW B \in EndSets, NEW w, Booked(w, A, B),
         NEW i \in Anon, NEW q \in A[i], NEW v, v = PipeClose(w, i, "PIPE_READ_END")
  PROVE  Booked(v, Less(A, i, q), B) /\ Woken(w.k, v.k) /\ Ends(w, v, i)
<1>1. /\ Sound(w) /\ Tallied(w.p[i], A[i], B[i])
      /\ A[i] \in Parties /\ B[i] \in Parties
  BY DEF Booked, EndSets
<1>2. /\ Sound(v) /\ Woken(w.k, v.k) /\ Ends(w, v, i) /\ Tallied(v.p[i], A[i] \ {q}, B[i])
      /\ \A j \in PipeIds \ {i} : v.p[j] = w.p[j]
  <2> DEFINE a == A[i]
             b == B[i]
             c == a \ {q}
  <2>1. Sound(w) /\ Tallied(w.p[i], a, b) /\ a \in Parties /\ b \in Parties
        /\ q \in a /\ c = a \ {q}
    BY <1>1
  <2> HIDE DEF a, b, c
  <2>2. /\ Sound(v) /\ Woken(w.k, v.k) /\ Tallied(v.p[i], c, b) /\ Ends(w, v, i)
        /\ \A j \in PipeIds \ {i} : v.p[j] = w.p[j]
    <3>1. /\ Sound(w) /\ i \in Anon /\ a \in Parties /\ b \in Parties
          /\ Tallied(w.p[i], a, b) /\ q \in a /\ c = a \ {q}
          /\ v = PipeClose(w, i, "PIPE_READ_END")
      BY ONLY <2>1, i \in Anon, v = PipeClose(w, i, "PIPE_READ_END")
    <3>2. Tallied(v.p[i], c, b)
      BY ONLY <3>1, ReadEndCloses
    <3>3. Ends(w, v, i)
      BY ONLY <3>1, ReadEndCloses
    <3>4. Sound(v) /\ Woken(w.k, v.k)
      BY ONLY <3>1, ReadEndCloses
    <3>5. \A j \in PipeIds \ {i} : v.p[j] = w.p[j]
      BY ONLY <3>1, ReadEndCloses
    <3> QED BY <3>2, <3>3, <3>4, <3>5
  <2> QED BY <2>2 DEF a, b, c
<1>3. ASSUME NEW j \in Anon
      PROVE  Tallied(v.p[j], Less(A, i, q)[j], B[j])
  <2>1. CASE j = i
    BY <1>2, <2>1 DEF Less
  <2>2. CASE j # i
    BY <1>2, <2>2 DEF Less, Booked, Anon
  <2> QED BY <2>1, <2>2
<1> QED BY <1>2, <1>3 DEF Booked

LEMMA BookedWriteCloses ==
  ASSUME NEW A \in EndSets, NEW B \in EndSets, NEW w, Booked(w, A, B),
         NEW i \in Anon, NEW q \in B[i], NEW v, v = PipeClose(w, i, "PIPE_WRITE_END")
  PROVE  Booked(v, A, Less(B, i, q)) /\ Woken(w.k, v.k) /\ Ends(w, v, i)
<1>1. /\ Sound(w) /\ Tallied(w.p[i], A[i], B[i])
      /\ A[i] \in Parties /\ B[i] \in Parties
  BY DEF Booked, EndSets
<1>2. /\ Sound(v) /\ Woken(w.k, v.k) /\ Ends(w, v, i) /\ Tallied(v.p[i], A[i], B[i] \ {q})
      /\ \A j \in PipeIds \ {i} : v.p[j] = w.p[j]
  <2> DEFINE a == A[i]
             b == B[i]
             c == b \ {q}
  <2>1. Sound(w) /\ Tallied(w.p[i], a, b) /\ a \in Parties /\ b \in Parties
        /\ q \in b /\ c = b \ {q}
    BY <1>1
  <2> HIDE DEF a, b, c
  <2>2. /\ Sound(v) /\ Woken(w.k, v.k) /\ Tallied(v.p[i], a, c) /\ Ends(w, v, i)
        /\ \A j \in PipeIds \ {i} : v.p[j] = w.p[j]
    <3>1. /\ Sound(w) /\ i \in Anon /\ a \in Parties /\ b \in Parties
          /\ Tallied(w.p[i], a, b) /\ q \in b /\ c = b \ {q}
          /\ v = PipeClose(w, i, "PIPE_WRITE_END")
      BY ONLY <2>1, i \in Anon, v = PipeClose(w, i, "PIPE_WRITE_END")
    <3>2. Tallied(v.p[i], a, c)
      BY ONLY <3>1, WriteEndCloses
    <3>3. Ends(w, v, i)
      BY ONLY <3>1, WriteEndCloses
    <3>4. Sound(v) /\ Woken(w.k, v.k)
      BY ONLY <3>1, WriteEndCloses
    <3>5. \A j \in PipeIds \ {i} : v.p[j] = w.p[j]
      BY ONLY <3>1, WriteEndCloses
    <3> QED BY <3>2, <3>3, <3>4, <3>5
  <2> QED BY <2>2 DEF a, b, c
<1>3. ASSUME NEW j \in Anon
      PROVE  Tallied(v.p[j], A[j], Less(B, i, q)[j])
  <2>1. CASE j = i
    BY <1>2, <2>1 DEF Less
  <2>2. CASE j # i
    BY <1>2, <2>2 DEF Less, Booked, Anon
  <2> QED BY <2>1, <2>2
<1> QED BY <1>2, <1>3 DEF Booked

\* kill_pipes(): the process q is no holder any more.
LEMMA PipesKilled ==
  ASSUME NEW A \in EndSets, NEW B \in EndSets, NEW w, Booked(w, A, B),
         NEW q \in Slots, NEW fd \in Fds,
         \A i \in Anon : (i = fd.in => q \in A[i]) /\ (i = fd.out => q \in B[i]),
         NEW v, v = KillPipes(w, fd)
  PROVE  Booked(v, Less(A, fd.in, q), Less(B, fd.out, q)) /\ Woken(w.k, v.k)
<1>m. PICK m : m = IF fd.in > STDERR THEN PipeClose(w, fd.in, "PIPE_READ_END") ELSE w
  OBVIOUS
<1>1. v = IF fd.out > STDERR THEN PipeClose(m, fd.out, "PIPE_WRITE_END") ELSE m
  BY <1>m DEF KillPipes
<1>2. Booked(m, Less(A, fd.in, q), B) /\ Woken(w.k, m.k)
  <2>1. CASE fd.in > STDERR
    BY <1>m, <2>1, AnonOrStandard, BookedReadCloses
  <2>2. CASE ~(fd.in > STDERR)
    <3>1. m = w /\ Less(A, fd.in, q) = A
      BY <1>m, <2>2, AnonOrStandard DEF Less, EndSets
    <3> QED BY <3>1, WokenFirst DEF Booked, Sound
  <2> QED BY <2>1, <2>2
<1>3. Booked(v, Less(A, fd.in, q), Less(B, fd.out, q)) /\ Woken(m.k, v.k)
  <2>1. CASE fd.out > STDERR
    BY <1>1, <1>2, <2>1, AnonOrStandard, BookedWriteCloses, EndsType
  <2>2. CASE ~(fd.out > STDERR)
    <3>1. v = m /\ Less(B, fd.out, q) = B
      BY <1>1, <2>2, AnonOrStandard DEF Less, EndSets
    <3> QED BY <1>2, <3>1, WokenFirst DEF Booked, Sound
  <2> QED BY <2>1, <2>2
<1> QED BY <1>2, <1>3, WokenTwice

LEMMA BookedReadRegistered ==
  ASSUME NEW A \in EndSets, NEW B \in EndSets, NEW w, Booked(w, A, B),
         NEW i \in Anon, w.p[i].is_in_use, NEW q \in Slots, q \notin A[i],
         NEW v, v = PipeRegister(w, i, "PIPE_READ_END")
  PROVE  /\ Booked(v, More(A, i, q), B) /\ v.k = w.k /\ v.s = w.s
         /\ \A j \in PipeIds : w.p[j].is_in_use => v.p[j].is_in_use
<1>1. /\ Sound(w) /\ Tallied(w.p[i], A[i], B[i])
      /\ A[i] \in Parties /\ B[i] \in Parties
  BY DEF Booked, EndSets
<1>2. /\ Sound(v) /\ v.k = w.k /\ v.s = w.s /\ Tallied(v.p[i], A[i] \cup {q}, B[i])
      /\ \A j \in PipeIds \ {i} : v.p[j] = w.p[j]
  <2> DEFINE a == A[i]
             b == B[i]
             u == a \cup {q}
  <2>1. Sound(w) /\ Tallied(w.p[i], a, b) /\ a \in Parties /\ b \in Parties
        /\ q \notin a /\ u = a \cup {q}
    BY <1>1
  <2> HIDE DEF a, b, u
  <2>2. Changed(w, v, i, u, b)
    BY <2>1, ReadEndRegistered
  <2> QED BY <2>2 DEF a, b, u, Changed
<1>3. ASSUME NEW j \in Anon
      PROVE  Tallied(v.p[j], More(A, i, q)[j], B[j])
  <2>1. CASE j = i
    BY <1>2, <2>1 DEF More
  <2>2. CASE j # i
    BY <1>2, <2>2 DEF More, Booked, Anon
  <2> QED BY <2>1, <2>2
<1>4. v.p[i].is_in_use
  BY <1>2 DEF Tallied
<1> QED BY <1>2, <1>3, <1>4 DEF Booked

LEMMA BookedWriteRegistered ==
  ASSUME NEW A \in EndSets, NEW B \in EndSets, NEW w, Booked(w, A, B),
         NEW i \in Anon, w.p[i].is_in_use, B[i] # {}, NEW q \in Slots, q \notin B[i],
         NEW v, v = PipeRegister(w, i, "PIPE_WRITE_END")
  PROVE  /\ Booked(v, A, More(B, i, q)) /\ v.k = w.k /\ v.s = w.s
         /\ \A j \in PipeIds : w.p[j].is_in_use => v.p[j].is_in_use
<1>1. /\ Sound(w) /\ Tallied(w.p[i], A[i], B[i]) /\ ~w.p[i].eof_signaled
      /\ A[i] \in Parties /\ B[i] \in Parties
  BY DEF Booked, EndSets, Tallied
<1>2. /\ Sound(v) /\ v.k = w.k /\ v.s = w.s /\ Tallied(v.p[i], A[i], B[i] \cup {q})
      /\ \A j \in PipeIds \ {i} : v.p[j] = w.p[j]
  <2> DEFINE a == A[i]
             b == B[i]
             u == b \cup {q}
  <2>1. Sound(w) /\ Tallied(w.p[i], a, b) /\ a \in Parties /\ b \in Parties
        /\ ~w.p[i].eof_signaled /\ q \notin b /\ u = b \cup {q}
    BY <1>1
  <2> HIDE DEF a, b, u
  <2>2. Changed(w, v, i, a, u)
    BY <2>1, WriteEndRegistered
  <2> QED BY <2>2 DEF a, b, u, Changed
<1>3. ASSUME NEW j \in Anon
      PROVE  Tallied(v.p[j], A[j], More(B, i, q)[j])
  <2>1. CASE j = i
    BY <1>2, <2>1 DEF More
  <2>2. CASE j # i
    BY <1>2, <2>2 DEF More, Booked, Anon
  <2> QED BY <2>1, <2>2
<1>4. v.p[i].is_in_use
  BY <1>2 DEF Tallied
<1> QED BY <1>2, <1>3, <1>4 DEF Booked

\* A new process holds the ends of its descriptors.
LEMMA FdsRegistered ==
  ASSUME NEW A \in EndSets, NEW B \in EndSets, NEW w, Booked(w, A, B),
         NEW q \in Slots, NEW fd \in Fds,
         \A i \in Anon : /\ i = fd.in => w.p[i].is_in_use /\ q \notin A[i]
                         /\ i = fd.out => w.p[i].is_in_use /\ q \notin B[i] /\ B[i] # {},
         NEW v, v = RegisterFds(w, fd)
  PROVE  /\ Booked(v, More(A, fd.in, q), More(B, fd.out, q))
         /\ v.k = w.k /\ v.s = w.s
<1>m. PICK m : m = IF fd.in > STDERR THEN PipeRegister(w, fd.in, "PIPE_READ_END") ELSE w
  OBVIOUS
<1>1. v = IF fd.out > STDERR THEN PipeRegister(m, fd.out, "PIPE_WRITE_END") ELSE m
  BY <1>m DEF RegisterFds
<1>2. /\ Booked(m, More(A, fd.in, q), B) /\ m.k = w.k /\ m.s = w.s
      /\ fd.out \in Anon => m.p[fd.out].is_in_use
  <2>1. CASE fd.in > STDERR
    <3>1. fd.in \in Anon /\ Anon \subseteq PipeIds
      BY <2>1, AnonOrStandard DEF Anon
    <3> QED BY <1>m, <2>1, <3>1, BookedReadRegistered
  <2>2. CASE ~(fd.in > STDERR)
    <3>1. m = w /\ More(A, fd.in, q) = A
      BY <1>m, <2>2, AnonOrStandard DEF More, EndSets
    <3> QED BY <3>1
  <2> QED BY <2>1, <2>2
<1>c. PICK C : C = More(A, fd.in, q)
  OBVIOUS
<1>3. C \in EndSets /\ Booked(m, C, B)
  BY <1>2, <1>c, EndsType
<1>4. /\ Booked(v, C, More(B, fd.out, q))
      /\ v.k = m.k /\ v.s = m.s
  <2>1. CASE fd.out > STDERR
    <3>1. fd.out \in Anon
      BY <2>1, AnonOrStandard
    <3> QED BY <1>1, <1>2, <1>3, <2>1, <3>1, BookedWriteRegistered
  <2>2. CASE ~(fd.out > STDERR)
    <3>1. v = m /\ More(B, fd.out, q) = B
      BY <1>1, <2>2, AnonOrStandard DEF More, EndSets
    <3> QED BY <1>3, <3>1
  <2> QED BY <2>1, <2>2
<1> QED BY <1>2, <1>4, <1>c

-----------------------------------------------------------------------------
(* pipe_create_anonymous()                                                 *)

\* The three sem_open_init() of a pipe.
LEMMA SemsOpened ==
  ASSUME NEW s \in SemTables, NEW i \in Anon, \A n \in SemsOf(i) : ~s[n].initialized,
         NEW b, b = SemOpen(s, Lock(i), 1),
         NEW c, c = SemOpen(b, Items(i), 0),
         NEW d, d = SemOpen(c, Space(i), PIPE_BUFFER_SIZE)
  PROVE  /\ b \in SemTables /\ c \in SemTables /\ d \in SemTables
         /\ \A m \in SemNames \ SemsOf(i) : b[m] = s[m] /\ c[m] = s[m] /\ d[m] = s[m]
         /\ SemOpenResult(s, Lock(i)) # 0 => b = s
         /\ SemOpenResult(s, Lock(i)) = 0 =>
              /\ b[Lock(i)].openings = 1 /\ ~b[Space(i)].initialized
              /\ SemOpenResult(b, Items(i)) # 0 => c = b /\ ~c[Items(i)].initialized
              /\ SemOpenResult(b, Items(i)) = 0 =>
                   /\ c[Lock(i)].openings = 1 /\ c[Items(i)].openings = 1
                   /\ SemOpenResult(c, Space(i)) # 0 => d = c
                   /\ SemOpenResult(c, Space(i)) = 0 =>
                        /\ \A n \in SemsOf(i) : d[n].initialized /\ d[n].openings = 1
                        /\ d[Lock(i)].value = 1
                        /\ d[Items(i)].value = 0 /\ d[Items(i)].blocked = <<>>
                        /\ d[Space(i)].value = PIPE_BUFFER_SIZE /\ d[Space(i)].blocked = <<>>
<1>1. /\ Lock(i) \in SemNames /\ Items(i) \in SemNames /\ Space(i) \in SemNames
      /\ Lock(i) # Items(i) /\ Lock(i) # Space(i) /\ Items(i) # Space(i)
      /\ ~s[Lock(i)].initialized /\ ~s[Items(i)].initialized /\ ~s[Space(i)].initialized
  BY NamesOfPipe DEF SemsOf
<1> DEFINE one == 1
           none == 0
<1>2. one \in Int /\ none \in Int /\ PIPE_BUFFER_SIZE \in Int
      /\ b = SemOpen(s, Lock(i), one) /\ c = SemOpen(b, Items(i), none) /\ one = 1
      /\ none = 0
  BY PipeAssumption
<1> HIDE DEF one, none
<1>3. /\ b \in SemTables /\ \A m \in SemNames \ {Lock(i)} : b[m] = s[m]
      /\ SemOpenResult(s, Lock(i)) = 0 =>
           b[Lock(i)].initialized /\ b[Lock(i)].value = one /\ b[Lock(i)].openings = 1
      /\ SemOpenResult(s, Lock(i)) # 0 => b = s
  BY <1>1, <1>2, OpenTable
<1>4. ~b[Items(i)].initialized /\ ~b[Space(i)].initialized
  BY <1>1, <1>3
<1>5. /\ c \in SemTables /\ \A m \in SemNames \ {Items(i)} : c[m] = b[m]
      /\ SemOpenResult(b, Items(i)) = 0 =>
           /\ c[Items(i)].initialized /\ c[Items(i)].openings = 1
           /\ c[Items(i)].value = none /\ c[Items(i)].blocked = <<>>
      /\ SemOpenResult(b, Items(i)) # 0 => c = b
  BY <1>1, <1>2, <1>3, <1>4, OpenTable
<1>6. ~c[Space(i)].initialized
  BY <1>1, <1>4, <1>5
<1>7. /\ d \in SemTables /\ \A m \in SemNames \ {Space(i)} : d[m] = c[m]
      /\ SemOpenResult(c, Space(i)) = 0 =>
           /\ d[Space(i)].initialized /\ d[Space(i)].openings = 1
           /\ d[Space(i)].value = PIPE_BUFFER_SIZE /\ d[Space(i)].blocked = <<>>
      /\ SemOpenResult(c, Space(i)) # 0 => d = c
  BY <1>1, <1>2, <1>5, <1>6, OpenTable
<1>8. \A m \in SemNames \ SemsOf(i) : b[m] = s[m] /\ c[m] = s[m] /\ d[m] = s[m]
  BY <1>3, <1>5, <1>7 DEF SemsOf
<1>9. c[Lock(i)] = b[Lock(i)] /\ d[Lock(i)] = b[Lock(i)] /\ d[Items(i)] = c[Items(i)]
  BY <1>1, <1>5, <1>7
<1> QED BY <1>2, <1>3, <1>4, <1>5, <1>7, <1>8, <1>9 DEF SemsOf

\* A pipe that could not be made leaves nothing behind.
LEMMA SemsUndone ==
  ASSUME NEW s \in SemTables, NEW i \in Anon, \A n \in SemsOf(i) : ~s[n].initialized,
         NEW b, b = SemOpen(s, Lock(i), 1),
         NEW c, c = SemOpen(b, Items(i), 0),
         NEW d, d = SemOpen(c, Space(i), PIPE_BUFFER_SIZE),
         NEW t,
         \/ SemOpenResult(s, Lock(i)) # 0 /\ t = b
         \/ /\ SemOpenResult(s, Lock(i)) = 0 /\ SemOpenResult(b, Items(i)) # 0
            /\ t = SemClose(c, Lock(i))
         \/ /\ SemOpenResult(s, Lock(i)) = 0 /\ SemOpenResult(b, Items(i)) = 0
            /\ SemOpenResult(c, Space(i)) # 0
            /\ t = SemClose(SemClose(d, Lock(i)), Items(i))
  PROVE  /\ t \in SemTables
         /\ \A m \in SemNames \ SemsOf(i) : t[m] = s[m]
         /\ \A m \in SemsOf(i) : ~t[m].initialized
<1>1. /\ Lock(i) \in SemNames /\ Items(i) \in SemNames /\ Space(i) \in SemNames
      /\ Lock(i) # Items(i) /\ Lock(i) # Space(i) /\ Items(i) # Space(i)
  BY NamesOfPipe DEF SemsOf
<1>2. /\ b \in SemTables /\ c \in SemTables /\ d \in SemTables
      /\ \A m \in SemNames \ SemsOf(i) : b[m] = s[m] /\ c[m] = s[m] /\ d[m] = s[m]
      /\ SemOpenResult(s, Lock(i)) # 0 => b = s
      /\ SemOpenResult(s, Lock(i)) = 0 =>
           /\ b[Lock(i)].openings = 1 /\ ~b[Space(i)].initialized
           /\ SemOpenResult(b, Items(i)) # 0 => c = b /\ ~c[Items(i)].initialized
           /\ SemOpenResult(b, Items(i)) = 0 =>
                /\ c[Lock(i)].openings = 1 /\ c[Items(i)].openings = 1
                /\ SemOpenResult(c, Space(i)) # 0 => d = c
  BY SemsOpened
<1>3. CASE SemOpenResult(s, Lock(i)) # 0
  BY <1>2, <1>3
<1>4. CASE SemOpenResult(s, Lock(i)) = 0 /\ SemOpenResult(b, Items(i)) # 0
  <2>1. t = SemClose(c, Lock(i)) /\ c[Lock(i)].openings = 1 /\ c \in SemTables
        /\ ~c[Items(i)].initialized /\ ~c[Space(i)].initialized
    BY <1>2, <1>4
  <2>2. /\ t \in SemTables /\ ~t[Lock(i)].initialized
        /\ \A m \in SemNames \ {Lock(i)} : t[m] = c[m]
    BY <1>1, <2>1, CloseTable
  <2>3. ~t[Items(i)].initialized /\ ~t[Space(i)].initialized
    BY <1>1, <2>1, <2>2
  <2>4. \A m \in SemNames \ SemsOf(i) : t[m] = s[m]
    BY <1>2, <2>2 DEF SemsOf
  <2> QED BY <2>2, <2>3, <2>4 DEF SemsOf
<1>5. CASE /\ SemOpenResult(s, Lock(i)) = 0 /\ SemOpenResult(b, Items(i)) = 0
           /\ SemOpenResult(c, Space(i)) # 0
  <2>1. /\ t = SemClose(SemClose(c, Lock(i)), Items(i))
        /\ c[Lock(i)].openings = 1 /\ c[Items(i)].openings = 1 /\ c \in SemTables
    BY <1>2, <1>5
  <2>2. ~c[Space(i)].initialized
    <3>1. ~s[Space(i)].initialized
      BY DEF SemsOf
    <3>2. c = SemOpen(b, Items(i), 0) /\ ~b[Items(i)].initialized
          /\ b[Space(i)].initialized = FALSE
      <4> DEFINE one == 1
      <4>1. b = SemOpen(s, Lock(i), one) /\ one \in Int /\ ~s[Lock(i)].initialized
        BY DEF SemsOf
      <4> HIDE DEF one
      <4>2. \A m \in SemNames \ {Lock(i)} : b[m] = s[m]
        BY <1>1, <4>1, OpenTable
      <4> QED BY <1>1, <4>2 DEF SemsOf
    <3> DEFINE none == 0
    <3>3. c = SemOpen(b, Items(i), none) /\ none \in Int
      BY <3>2
    <3> HIDE DEF none
    <3>4. \A m \in SemNames \ {Items(i)} : c[m] = b[m]
      BY <1>1, <1>2, <3>2, <3>3, OpenTable
    <3>5. c[Space(i)] = b[Space(i)]
      BY <1>1, <3>4
    <3> QED BY <3>2, <3>5
  <2>x. PICK x : x = SemClose(c, Lock(i))
    OBVIOUS
  <2>3. /\ x \in SemTables /\ ~x[Lock(i)].initialized
        /\ \A m \in SemNames \ {Lock(i)} : x[m] = c[m]
    BY <1>1, <2>1, <2>x, CloseTable
  <2>4. x[Items(i)].openings = 1 /\ ~x[Space(i)].initialized
    BY <1>1, <2>1, <2>2, <2>3
  <2>5. t = SemClose(x, Items(i))
    BY <2>1, <2>x
  <2>6. /\ t \in SemTables /\ ~t[Items(i)].initialized
        /\ \A m \in SemNames \ {Items(i)} : t[m] = x[m]
    BY <1>1, <2>3, <2>4, <2>5, CloseTable
  <2>7. ~t[Lock(i)].initialized /\ ~t[Space(i)].initialized
    BY <1>1, <2>3, <2>4, <2>6
  <2>8. \A m \in SemNames \ SemsOf(i) : t[m] = s[m]
    BY <1>2, <2>3, <2>6 DEF SemsOf
  <2> QED BY <2>6, <2>7, <2>8 DEF SemsOf
<1> QED BY <1>3, <1>4, <1>5

\* The entry of a new pipe, before its semaphores are opened.
Fresh(w, x, i, n, f, y) ==
  /\ x = [k |-> w.k, s |-> w.s, p |-> Entry(w.p, i, y)]
  /\ PipeShape(y) /\ y.is_in_use = TRUE /\ y.name = n /\ y.is_named = f
  /\ y.buffer = w.p[i].buffer /\ y.read_index = 0 /\ y.write_index = 0
  /\ x.p[i] = y

LEMMA EntryTaken ==
  ASSUME NEW w, Sound(w), NEW i \in Anon, NEW n, NEW f, NEW z,
         z = 0, NEW x, x = TakeEntry(w, i, n, f)
  PROVE  \E y : Fresh(w, x, i, n, f, y)
<1>c. PICK c : c = w.p[i]
  OBVIOUS
<1>0. /\ i \in PipeIds /\ PipeShape(c) /\ w = [k |-> w.k, s |-> w.s, p |-> w.p]
      /\ w.p = [j \in PipeIds |-> w.p[j]]
  BY <1>c DEF Anon, Sound, PipesShape
<1>t. PICK t : t = TRUE
  OBVIOUS
<1>a1. PICK c1 : c1 = [c EXCEPT !.is_in_use = t]
  OBVIOUS
<1>b1. PICK x1 : x1 = [w EXCEPT !.p[i].is_in_use = t]
  OBVIOUS
<1>a2. PICK c2 : c2 = [c1 EXCEPT !.name = n]
  OBVIOUS
<1>b2. PICK x2 : x2 = [x1 EXCEPT !.p[i].name = n]
  OBVIOUS
<1>a3. PICK c3 : c3 = [c2 EXCEPT !.is_named = f]
  OBVIOUS
<1>b3. PICK x3 : x3 = [x2 EXCEPT !.p[i].is_named = f]
  OBVIOUS
<1>a4. PICK c4 : c4 = [c3 EXCEPT !.read_index = z]
  OBVIOUS
<1>b4. PICK x4 : x4 = [x3 EXCEPT !.p[i].read_index = z]
  OBVIOUS
<1>a5. PICK c5 : c5 = [c4 EXCEPT !.write_index = z]
  OBVIOUS
<1>b5. PICK x5 : x5 = [x4 EXCEPT !.p[i].write_index = z]
  OBVIOUS
<1>1. x = x5
  BY <1>t, <1>b1, <1>b2, <1>b3, <1>b4, <1>b5 DEF TakeEntry
<1>2. /\ x1 = [k |-> w.k, s |-> w.s, p |-> x1.p] /\ x1.p = [w.p EXCEPT ![i] = c1]
      /\ x1.p[i] = c1 /\ PipeShape(c1)
  BY <1>0, <1>c, <1>a1, <1>b1 DEF PipeShape
<1>3. /\ x2 = [k |-> w.k, s |-> w.s, p |-> x2.p] /\ x2.p = [w.p EXCEPT ![i] = c2]
      /\ x2.p[i] = c2 /\ PipeShape(c2)
  BY <1>0, <1>2, <1>a2, <1>b2 DEF PipeShape
<1>4. /\ x3 = [k |-> w.k, s |-> w.s, p |-> x3.p] /\ x3.p = [w.p EXCEPT ![i] = c3]
      /\ x3.p[i] = c3 /\ PipeShape(c3)
  BY <1>0, <1>3, <1>a3, <1>b3 DEF PipeShape
<1>5. /\ x4 = [k |-> w.k, s |-> w.s, p |-> x4.p] /\ x4.p = [w.p EXCEPT ![i] = c4]
      /\ x4.p[i] = c4 /\ PipeShape(c4)
  BY <1>0, <1>4, <1>a4, <1>b4 DEF PipeShape
<1>6. /\ x5 = [k |-> w.k, s |-> w.s, p |-> x5.p] /\ x5.p = [w.p EXCEPT ![i] = c5]
      /\ x5.p[i] = c5 /\ PipeShape(c5)
  BY <1>0, <1>5, <1>a5, <1>b5 DEF PipeShape
<1>7. /\ c5.is_in_use = TRUE /\ c5.name = n /\ c5.is_named = f
      /\ c5.buffer = c.buffer /\ c5.read_index = z /\ c5.write_index = z
  BY <1>0, <1>2, <1>3, <1>4, <1>5, <1>a1, <1>a2, <1>a3, <1>a4, <1>a5, <1>t DEF PipeShape
<1> QED BY <1>1, <1>6, <1>7, <1>c DEF Entry, Fresh

Result(r, v, n) == r = [w |-> v, id |-> n]
Fields(r, v, n) == r.w = v /\ r.id = n /\ Result(r, r.w, r.id)

LEMMA ResultFields ==
  ASSUME NEW v, NEW n, NEW r, Result(r, v, n)
  PROVE  Fields(r, v, n)
BY DEF Result, Fields

\* Pipe i with nothing in its ring: no byte, and all the space.
Blank(w, i) ==
  /\ w.s[Items(i)].value = 0 /\ w.s[Items(i)].blocked = <<>>
  /\ w.s[Space(i)].value = PIPE_BUFFER_SIZE /\ w.s[Space(i)].blocked = <<>>
  /\ w.p[i].read_index = 0 /\ w.p[i].write_index = 0

\* The outcome of create_pipe_object(), of a pipe that was not in use.
Object(w, i, r) ==
  /\ Sound(r.w) /\ r.w.k = w.k /\ Result(r, r.w, r.id)
  /\ \A m \in SemNames \ SemsOf(i) : r.w.s[m] = w.s[m]
  /\ r.w.p[i].buffer = w.p[i].buffer
  /\ r.w.p[i].is_in_use => Blank(r.w, i)
  /\ \A j \in PipeIds \ {i} : r.w.p[j] = w.p[j]
  /\ \/ r.id = -1 /\ ~r.w.p[i].is_in_use
     \/ r.id = i /\ r.w.p[i].is_in_use

LEMMA PipeObject ==
  ASSUME NEW w, Sound(w), NEW i \in Anon, ~w.p[i].is_in_use,
         NEW r, r = CreatePipeObject(w, i, AnonName(i), FALSE)
  PROVE  Object(w, i, r)
<1>a. PICK a : a = TakeEntry(w, i, AnonName(i), FALSE)
  OBVIOUS
<1>1. PICK y : /\ a = [k |-> w.k, s |-> w.s, p |-> Entry(w.p, i, y)]
               /\ PipeShape(y) /\ y.is_in_use = TRUE /\ y.name = AnonName(i)
               /\ y.is_named = FALSE /\ a.p[i] = y
               /\ y.buffer = w.p[i].buffer /\ y.read_index = 0 /\ y.write_index = 0
  <2> DEFINE n == AnonName(i)
             f == FALSE
  <2>1. a = TakeEntry(w, i, n, f)
    BY <1>a
  <2> HIDE DEF n, f
  <2>2. PICK y : Fresh(w, a, i, n, f, y)
    BY <2>1, EntryTaken
  <2> QED BY <2>2 DEF Fresh, n, f
<1>2. /\ LockOf(y) = Lock(i) /\ ItemsOf(y) = Items(i) /\ SpaceOf(y) = Space(i)
      /\ i \in PipeIds
  <2>1. i \in PipeIds
    BY DEF Anon
  <2> QED BY <1>1, <2>1, NamesKnown
<1>b. PICK b : b = SemOpenIn(a, Lock(i), 1)
  OBVIOUS
<1>c. PICK c : c = SemOpenIn(b, Items(i), 0)
  OBVIOUS
<1>d. PICK d : d = SemOpenIn(c, Space(i), PIPE_BUFFER_SIZE)
  OBVIOUS
<1> DEFINE u == SemCloseIn(c, Lock(i))
           v == SemCloseIn(SemCloseIn(d, Lock(i)), Items(i))
<1>3. r = IF ~Opens(a, Lock(i)) THEN GiveUp(b, i)
          ELSE IF ~Opens(b, Items(i)) THEN GiveUp(u, i)
          ELSE IF ~Opens(c, Space(i)) THEN GiveUp(v, i)
          ELSE [w |-> d, id |-> i]
  <2>1. r = OpenSems(a, i)
    BY <1>a DEF CreatePipeObject
  <2> QED BY <1>1, <1>2, <1>b, <1>c, <1>d, <2>1 DEF OpenSems
<1>4. /\ b = [k |-> w.k, s |-> SemOpen(w.s, Lock(i), 1), p |-> a.p]
      /\ c = [k |-> w.k, s |-> SemOpen(b.s, Items(i), 0), p |-> a.p]
      /\ d = [k |-> w.k, s |-> SemOpen(c.s, Space(i), PIPE_BUFFER_SIZE), p |-> a.p]
  <2>1. b = [k |-> w.k, s |-> SemOpen(w.s, Lock(i), 1), p |-> a.p]
    BY <1>1, <1>b DEF SemOpenIn
  <2>2. c = [k |-> w.k, s |-> SemOpen(b.s, Items(i), 0), p |-> a.p]
    BY <2>1, <1>c DEF SemOpenIn
  <2>3. d = [k |-> w.k, s |-> SemOpen(c.s, Space(i), PIPE_BUFFER_SIZE), p |-> a.p]
    BY <2>2, <1>d DEF SemOpenIn
  <2> QED BY <2>1, <2>2, <2>3
<1>5. /\ Opens(a, Lock(i)) <=> SemOpenResult(w.s, Lock(i)) = 0
      /\ Opens(b, Items(i)) <=> SemOpenResult(b.s, Items(i)) = 0
      /\ Opens(c, Space(i)) <=> SemOpenResult(c.s, Space(i)) = 0
  BY <1>1 DEF Opens
<1>6. /\ w.s \in SemTables /\ \A n \in SemsOf(i) : ~w.s[n].initialized
      /\ b.s = SemOpen(w.s, Lock(i), 1) /\ c.s = SemOpen(b.s, Items(i), 0)
      /\ d.s = SemOpen(c.s, Space(i), PIPE_BUFFER_SIZE)
  BY <1>4 DEF Sound, AllMatched, Matched
<1>7. CASE r = [w |-> d, id |-> i] /\ Opens(a, Lock(i)) /\ Opens(b, Items(i))
           /\ Opens(c, Space(i))
  <2>1. /\ d.s \in SemTables
        /\ \A m \in SemNames \ SemsOf(i) : d.s[m] = w.s[m]
        /\ \A n \in SemsOf(i) : d.s[n].initialized /\ d.s[n].openings = 1
        /\ d.s[Lock(i)].value = 1
        /\ d.s[Items(i)].value = 0 /\ d.s[Items(i)].blocked = <<>>
        /\ d.s[Space(i)].value = PIPE_BUFFER_SIZE /\ d.s[Space(i)].blocked = <<>>
    <3>1. PICK t : t = d.s
      OBVIOUS
    <3>2. PICK tb : tb = b.s
      OBVIOUS
    <3>3. PICK tc : tc = c.s
      OBVIOUS
    <3> QED BY <1>5, <1>6, <1>7, <3>1, <3>2, <3>3, SemsOpened
  <2>2. Matched(d.s, y, i)
    BY <1>1, <2>1 DEF Matched
  <2>3. d = [k |-> w.k, s |-> d.s, p |-> Entry(w.p, i, y)]
    BY <1>1, <1>4
  <2>4. /\ Sound(d) /\ d.k = w.k /\ d.p[i] = y
        /\ \A j \in PipeIds \ {i} : d.p[j] = w.p[j]
    BY <1>1, <2>1, <2>2, <2>3, SoundEntry
  <2>5. r = [w |-> d, id |-> i]
    BY <1>7
  <2>r. Result(r, d, i)
    BY <2>5 DEF Result
  <2>6. Fields(r, d, i)
    BY <2>r, ResultFields
  <2>7. d.p[i].is_in_use /\ d.p[i].buffer = w.p[i].buffer /\ Blank(d, i)
    BY <1>1, <2>1, <2>4 DEF Blank
  <2> QED BY <2>1, <2>4, <2>6, <2>7 DEF Fields, Object
<1>8. ASSUME NEW x, NEW t, r = GiveUp(x, i), x = [k |-> w.k, s |-> t, p |-> a.p],
             t \in SemTables, \A m \in SemNames \ SemsOf(i) : t[m] = w.s[m],
             \A m \in SemsOf(i) : ~t[m].initialized
      PROVE  Object(w, i, r)
  <2>e. PICK e : e = [y EXCEPT !.is_in_use = FALSE]
    OBVIOUS
  <2>g. PICK g : g = [x EXCEPT !.p[i].is_in_use = FALSE]
    OBVIOUS
  <2>h. r = [w |-> g, id |-> -1]
    BY <1>8, <2>g DEF GiveUp
  <2>r. Result(r, g, -1)
    BY <2>h DEF Result
  <2>1. r.w = g /\ r.id = -1 /\ Result(r, r.w, r.id)
    <3> DEFINE n == -1
    <3>1. Result(r, g, n)
      BY <2>r
    <3> HIDE DEF n
    <3>2. Fields(r, g, n)
      BY <3>1, ResultFields
    <3> QED BY <3>2 DEF Fields, n
  <2>2. PipeShape(e) /\ e.is_in_use = FALSE /\ e.buffer = w.p[i].buffer
    BY <1>1, <2>e DEF PipeShape
  <2>3. Matched(t, e, i)
    BY <1>8, <2>2 DEF Matched
  <2>4. g = [k |-> w.k, s |-> t, p |-> Entry(w.p, i, e)]
    <3>1. g = [k |-> w.k, s |-> t, p |-> [a.p EXCEPT ![i] = e]]
      BY <1>1, <1>8, <2>g, <2>e
    <3>2. [a.p EXCEPT ![i] = e] = [w.p EXCEPT ![i] = e]
      BY <1>1 DEF Entry
    <3> QED BY <3>1, <3>2 DEF Entry
  <2>5. /\ Sound(g) /\ g.k = w.k /\ g.s = t /\ g.p[i] = e
        /\ \A j \in PipeIds \ {i} : g.p[j] = w.p[j]
    BY <1>8, <2>2, <2>3, <2>4, SoundEntry
  <2> QED BY <1>8, <2>1, <2>2, <2>5 DEF Object
<1>tb. PICK tb : tb = b.s
  OBVIOUS
<1>tc. PICK tc : tc = c.s
  OBVIOUS
<1>td. PICK td : td = d.s
  OBVIOUS
<1>9. /\ tb = SemOpen(w.s, Lock(i), 1) /\ tc = SemOpen(tb, Items(i), 0)
      /\ td = SemOpen(tc, Space(i), PIPE_BUFFER_SIZE)
      /\ Opens(a, Lock(i)) <=> SemOpenResult(w.s, Lock(i)) = 0
      /\ Opens(b, Items(i)) <=> SemOpenResult(tb, Items(i)) = 0
      /\ Opens(c, Space(i)) <=> SemOpenResult(tc, Space(i)) = 0
  BY <1>5, <1>6, <1>tb, <1>tc, <1>td
<1>10. CASE ~Opens(a, Lock(i))
  <2>1. r = GiveUp(b, i) /\ b = [k |-> w.k, s |-> tb, p |-> a.p]
    BY <1>3, <1>4, <1>10, <1>tb
  <2>2. /\ tb \in SemTables /\ \A m \in SemNames \ SemsOf(i) : tb[m] = w.s[m]
        /\ \A m \in SemsOf(i) : ~tb[m].initialized
    BY <1>6, <1>9, <1>10, SemsUndone
  <2> QED BY <1>8, <2>1, <2>2
<1>11. CASE Opens(a, Lock(i)) /\ ~Opens(b, Items(i))
  <2>t. PICK t : t = SemClose(tc, Lock(i))
    OBVIOUS
  <2>1. r = GiveUp(u, i)
    BY <1>3, <1>11
  <2>2. u = [k |-> w.k, s |-> t, p |-> a.p]
    BY <1>4, <1>tc, <2>t DEF SemCloseIn
  <2>3. /\ t \in SemTables /\ \A m \in SemNames \ SemsOf(i) : t[m] = w.s[m]
        /\ \A m \in SemsOf(i) : ~t[m].initialized
    BY <1>6, <1>9, <1>11, <2>t, SemsUndone
  <2> HIDE DEF u
  <2> QED BY <1>8, <2>1, <2>2, <2>3
<1>12. CASE Opens(a, Lock(i)) /\ Opens(b, Items(i)) /\ ~Opens(c, Space(i))
  <2>t. PICK t : t = SemClose(SemClose(td, Lock(i)), Items(i))
    OBVIOUS
  <2>1. r = GiveUp(v, i)
    BY <1>3, <1>12
  <2>2. v = [k |-> w.k, s |-> t, p |-> a.p]
    <3>1. PICK x : x = SemCloseIn(d, Lock(i))
      OBVIOUS
    <3>2. x = [k |-> w.k, s |-> SemClose(td, Lock(i)), p |-> a.p]
      BY <1>4, <1>td, <3>1 DEF SemCloseIn
    <3>3. v = SemCloseIn(x, Items(i))
      BY <3>1
    <3> HIDE DEF v
    <3> QED BY <2>t, <3>2, <3>3 DEF SemCloseIn
  <2>3. /\ t \in SemTables /\ \A m \in SemNames \ SemsOf(i) : t[m] = w.s[m]
        /\ \A m \in SemsOf(i) : ~t[m].initialized
    BY <1>6, <1>9, <1>12, <2>t, SemsUndone
  <2> HIDE DEF v
  <2> QED BY <1>8, <2>1, <2>2, <2>3
<1> QED BY <1>3, <1>7, <1>10, <1>11, <1>12

LEMMA EndsOpened ==
  ASSUME NEW w, Sound(w), NEW i \in Anon, w.p[i].is_in_use,
         NEW q \in Slots, NEW a, a = {q}, NEW x, x = BothEnds(w, i)
  PROVE  Changed(w, x, i, a, a) /\ SameRing(w.p[i], x.p[i])
<1> DEFINE two == 2
           one == 1
           f == FALSE
<1>0. x = [w EXCEPT !.p[i].ref_count = two, !.p[i].write_open_count = one,
                    !.p[i].read_open_count = one, !.p[i].eof_signaled = f]
  BY DEF BothEnds
<1>c. PICK c : c = w.p[i]
  OBVIOUS
<1>n. /\ i \in PipeIds /\ PipeShape(c) /\ w = [k |-> w.k, s |-> w.s, p |-> w.p]
      /\ w.p = [j \in PipeIds |-> w.p[j]]
  BY <1>c DEF Anon, Sound, PipesShape
<1>z. two = 1 + 1 /\ one = 1 /\ f = FALSE
  OBVIOUS
<1> HIDE DEF two, one, f
<1>a1. PICK c1 : c1 = [c EXCEPT !.ref_count = two]
  OBVIOUS
<1>b1. PICK x1 : x1 = [w EXCEPT !.p[i].ref_count = two]
  OBVIOUS
<1>a2. PICK c2 : c2 = [c1 EXCEPT !.write_open_count = one]
  OBVIOUS
<1>b2. PICK x2 : x2 = [x1 EXCEPT !.p[i].write_open_count = one]
  OBVIOUS
<1>a3. PICK c3 : c3 = [c2 EXCEPT !.read_open_count = one]
  OBVIOUS
<1>b3. PICK x3 : x3 = [x2 EXCEPT !.p[i].read_open_count = one]
  OBVIOUS
<1>a4. PICK c4 : c4 = [c3 EXCEPT !.eof_signaled = f]
  OBVIOUS
<1>b4. PICK x4 : x4 = [x3 EXCEPT !.p[i].eof_signaled = f]
  OBVIOUS
<1>1. x = x4
  BY <1>0, <1>b1, <1>b2, <1>b3, <1>b4
<1>2. /\ x1 = [k |-> w.k, s |-> w.s, p |-> x1.p] /\ x1.p = [w.p EXCEPT ![i] = c1]
      /\ x1.p[i] = c1 /\ PipeShape(c1)
  BY <1>n, <1>c, <1>a1, <1>b1 DEF PipeShape
<1>3. /\ x2 = [k |-> w.k, s |-> w.s, p |-> x2.p] /\ x2.p = [w.p EXCEPT ![i] = c2]
      /\ x2.p[i] = c2 /\ PipeShape(c2)
  BY <1>n, <1>2, <1>a2, <1>b2 DEF PipeShape
<1>4. /\ x3 = [k |-> w.k, s |-> w.s, p |-> x3.p] /\ x3.p = [w.p EXCEPT ![i] = c3]
      /\ x3.p[i] = c3 /\ PipeShape(c3)
  BY <1>n, <1>3, <1>a3, <1>b3 DEF PipeShape
<1>5. /\ x4 = [k |-> w.k, s |-> w.s, p |-> x4.p] /\ x4.p = [w.p EXCEPT ![i] = c4]
      /\ x4.p[i] = c4 /\ PipeShape(c4)
  BY <1>n, <1>4, <1>a4, <1>b4 DEF PipeShape
<1>6. /\ c4.is_in_use = c.is_in_use /\ c4.name = c.name /\ c4.is_named = c.is_named
      /\ c4.ref_count = two /\ c4.write_open_count = one /\ c4.read_open_count = one
      /\ c4.eof_signaled = f
  BY <1>n, <1>2, <1>3, <1>4, <1>5, <1>a1, <1>a2, <1>a3, <1>a4 DEF PipeShape
<1>7. x = [k |-> w.k, s |-> w.s, p |-> Entry(w.p, i, c4)]
  BY <1>1, <1>5 DEF Entry
<1>8. /\ Sound(x) /\ x.k = w.k /\ x.s = w.s /\ x.p[i] = c4
      /\ \A j \in PipeIds \ {i} : x.p[j] = w.p[j]
  BY <1>5, <1>6, <1>7, <1>c, SoundCounts
<1>9. Cardinality(a) = 1 /\ a # {}
  BY FS_Singleton
<1>10. Tallied(c4, a, a)
  BY <1>6, <1>9, <1>c, <1>z DEF Tallied
<1>11. SameRing(c, c4)
  BY <1>n, <1>2, <1>3, <1>4, <1>5, <1>a1, <1>a2, <1>a3, <1>a4 DEF PipeShape, SameRing
<1> QED BY <1>8, <1>10, <1>11, <1>c DEF Changed

\* The world v has pipe n besides those of w, when n is a pipe at all.
Opened(w, v, n) ==
  /\ \A j \in Anon : /\ v.p[j].buffer = w.p[j].buffer
                     /\ v.p[j].is_in_use => w.p[j].is_in_use \/ j = n
                     /\ w.p[j].is_in_use => /\ v.s[Items(j)] = w.s[Items(j)]
                                            /\ v.s[Space(j)] = w.s[Space(j)]
                                            /\ v.p[j] = w.p[j]
  /\ n \in Anon => ~w.p[n].is_in_use /\ Blank(v, n)

\* The books with a new pipe, or without.
Made(w, r, A, B, q) ==
  /\ r.w.k = w.k /\ Opened(w, r.w, r.id)
  /\ \/ r.id = -1 /\ Booked(r.w, A, B)
     \/ r.id \in Anon /\ Booked(r.w, More(A, r.id, q), More(B, r.id, q))

LEMMA AnonymousCreated ==
  ASSUME NEW A \in EndSets, NEW B \in EndSets, NEW w, Booked(w, A, B), NEW q \in Slots,
         NEW r, r = PipeCreateAnonymous(w)
  PROVE  Made(w, r, A, B, q)
<1>1. Sound(w) /\ \A i \in Anon : Tallied(w.p[i], A[i], B[i])
  BY DEF Booked
<1>2. CASE FreePipes(w) = {}
  <2> DEFINE n == -1
  <2>1. Result(r, w, n)
    BY <1>2 DEF PipeCreateAnonymous, Result
  <2> HIDE DEF n
  <2>2. Fields(r, w, n)
    BY <2>1, ResultFields
  <2>3. Opened(w, w, n) /\ n \notin Anon
    BY DEF Opened, Anon, STDERR, n
  <2> QED BY <2>2, <2>3 DEF Fields, Made, n
<1>3. CASE FreePipes(w) # {}
  <2> DEFINE i == Least(FreePipes(w))
  <2>1. i \in Anon /\ ~w.p[i].is_in_use
    <3>1. FreePipes(w) \in SUBSET Nat
      BY DEF FreePipes, PipeIds
    <3>2. i \in FreePipes(w)
      BY <1>3, <3>1, LeastIsLeast
    <3> HIDE DEF i
    <3> QED BY <1>1, <3>2 DEF FreePipes, Sound, AllMatched
  <2> HIDE DEF i
  <2>o. PICK o : o = CreatePipeObject(w, i, AnonName(i), FALSE)
    OBVIOUS
  <2>2. r = IF o.id < 0 THEN o ELSE [o EXCEPT !.w = BothEnds(@, i)]
    BY <1>3, <2>o DEF PipeCreateAnonymous, i
  <2>3. /\ Sound(o.w) /\ o.w.k = w.k /\ Result(o, o.w, o.id)
        /\ \A j \in PipeIds \ {i} : o.w.p[j] = w.p[j]
        /\ \/ o.id = -1 /\ ~o.w.p[i].is_in_use
           \/ o.id = i /\ o.w.p[i].is_in_use
        /\ \A m \in SemNames \ SemsOf(i) : o.w.s[m] = w.s[m]
        /\ o.w.p[i].buffer = w.p[i].buffer
        /\ o.w.p[i].is_in_use => Blank(o.w, i)
    <3>1. Object(w, i, o)
      BY <1>1, <2>1, <2>o, PipeObject
    <3> QED BY <3>1 DEF Object
  <2>4. A[i] = {} /\ B[i] = {} /\ i \in PipeIds /\ ~(i < 0) /\ (-1 < 0)
    BY <1>1, <2>1 DEF Tallied, Anon, PipeIds
  <2>s. \A j \in Anon : w.p[j].is_in_use =>
          /\ o.w.s[Items(j)] = w.s[Items(j)] /\ o.w.s[Space(j)] = w.s[Space(j)]
          /\ o.w.p[j] = w.p[j] /\ j # i
    <3> SUFFICES ASSUME NEW j \in Anon, w.p[j].is_in_use
                 PROVE  /\ o.w.s[Items(j)] = w.s[Items(j)] /\ o.w.s[Space(j)] = w.s[Space(j)]
                        /\ o.w.p[j] = w.p[j] /\ j # i
      OBVIOUS
    <3>1. j # i /\ j \in PipeIds
      BY <2>1 DEF Anon
    <3>2. Items(j) \in SemNames \ SemsOf(i) /\ Space(j) \in SemNames \ SemsOf(i)
      BY <2>4, <3>1, NamesApart, NamesOfPipe DEF SemsOf
    <3> QED BY <2>3, <3>1, <3>2
  <2>5. CASE o.id = -1 /\ ~o.w.p[i].is_in_use
    <3>1. r = o
      BY <2>2, <2>5
    <3>o. Opened(w, o.w, o.id)
      <4>1. o.id \notin Anon
        BY <2>5 DEF Anon, STDERR
      <4> QED BY <2>3, <2>5, <2>s, <4>1 DEF Opened, Anon
    <3>2. \A j \in Anon : Tallied(o.w.p[j], A[j], B[j])
      <4> SUFFICES ASSUME NEW j \in Anon PROVE Tallied(o.w.p[j], A[j], B[j])
        OBVIOUS
      <4>1. CASE j = i
        BY <2>4, <2>5, <4>1 DEF Tallied
      <4>2. CASE j # i
        BY <1>1, <2>3, <4>2 DEF Anon
      <4> QED BY <4>1, <4>2
    <3> QED BY <2>3, <2>5, <3>1, <3>2, <3>o DEF Made, Booked
  <2>6. CASE o.id = i /\ o.w.p[i].is_in_use
    <3>v. PICK v : v = o.w
      OBVIOUS
    <3>x. PICK x : x = BothEnds(v, i)
      OBVIOUS
    <3>1. Result(r, x, i)
      <4>1. r = [o EXCEPT !.w = BothEnds(o.w, i)]
        BY <2>2, <2>4, <2>6
      <4>2. o = [w |-> o.w, id |-> o.id]
        BY <2>3 DEF Result
      <4> QED BY <2>6, <3>v, <3>x, <4>1, <4>2 DEF Result
    <3>2. Fields(r, x, i)
      BY <3>1, ResultFields
    <3>a. PICK a : a = {q}
      OBVIOUS
    <3>3. Sound(v) /\ v.p[i].is_in_use
      BY <2>3, <2>6, <3>v
    <3>4. Changed(v, x, i, a, a) /\ SameRing(v.p[i], x.p[i])
      BY <2>1, <3>3, <3>a, <3>x, EndsOpened
    <3>5. ASSUME NEW j \in Anon
          PROVE  Tallied(x.p[j], More(A, i, q)[j], More(B, i, q)[j])
      <4>1. CASE j = i
        <5>1. More(A, i, q)[i] = a /\ More(B, i, q)[i] = a
          BY <2>1, <2>4, <3>a DEF More
        <5> QED BY <3>4, <4>1, <5>1 DEF Changed
      <4>2. CASE j # i
        <5>1. x.p[j] = w.p[j]
          BY <2>3, <3>4, <3>v, <4>2 DEF Changed, Anon
        <5>2. More(A, i, q)[j] = A[j] /\ More(B, i, q)[j] = B[j]
          BY <4>2 DEF More
        <5> QED BY <1>1, <5>1, <5>2
      <4> QED BY <4>1, <4>2
    <3>6. Booked(x, More(A, i, q), More(B, i, q)) /\ x.k = w.k
      BY <2>3, <3>4, <3>5, <3>v DEF Booked, Changed
    <3>7. Opened(w, x, i)
      <4>1. /\ x.s = v.s /\ x.p[i].buffer = v.p[i].buffer /\ Blank(x, i)
            /\ \A j \in PipeIds \ {i} : x.p[j] = v.p[j]
        BY <2>3, <2>6, <3>4, <3>v DEF Changed, SameRing, Blank
      <4> QED BY <2>1, <2>3, <2>s, <3>v, <4>1 DEF Opened, Anon
    <3> QED BY <2>1, <3>2, <3>6, <3>7 DEF Made, Fields
  <2> QED BY <2>3, <2>5, <2>6
<1> QED BY <1>2, <1>3

-----------------------------------------------------------------------------
(* The command lines: who holds the pipes, and what every process is at.   *)

Readers == [i \in Anon |-> Holders(i, "PIPE_READ_END")]
Writers == [i \in Anon |-> Holders(i, "PIPE_WRITE_END")]

StandardFds == [in |-> STDIN, out |-> STDOUT]

ShellLabels == {"prompt", "create_A", "create_B", "close_read", "close_write", "yield",
                "wait_A", "wait_B", "asleep"}
ProgramLabels == {"gone", "write", "read", "exit"}

\* The ends that the shell holds, by where it is.
HeldAt(l) == IF l \in {"create_A", "create_B", "close_read"} THEN Modes
             ELSE IF l = "close_write" THEN {"PIPE_WRITE_END"} ELSE {}

CallShape(c) == c = [op |-> c.op, id |-> c.id, bytes |-> c.bytes, token |-> c.token]

\* A call is about the descriptors of the process that is inside of it.
CallOK(c, fd) ==
  /\ CallShape(c)
  /\ c.op = "write" => c.id = fd.out /\ fd.out \in Anon
  /\ c.op = "read" => c.id = fd.in /\ fd.in \in Anon

ShellOK ==
  /\ Live(Shell) /\ pc[Shell] \in ShellLabels
  /\ held = HeldAt(pc[Shell])
  /\ held # {} => pipe_id \in Anon /\ round[Shell] > 0
  /\ file_descriptors[Shell] = StandardFds
  /\ file_descriptors[IDLE_PID] = StandardFds
  /\ pc[IDLE_PID] = "gone" /\ round[IDLE_PID] = 0

ProgramOK(p) ==
  /\ pc[p] \in ProgramLabels
  /\ Live(p) => round[p] > 0
  /\ ~Live(p) => pc[p] = "gone" /\ call[p].op = "none"
  /\ pc[p] = "write" => file_descriptors[p].out \in Anon
  /\ pc[p] = "read" => file_descriptors[p].in \in Anon

ProgramsOK ==
  /\ pc \in [Slots -> ShellLabels \cup ProgramLabels]
  /\ round \in [Slots -> Nat]
  /\ file_descriptors \in [Slots -> Fds]
  /\ call = [p \in Slots |-> call[p]]
  /\ \A p \in Slots : CallOK(call[p], file_descriptors[p])
  /\ ShellOK
  /\ \A p \in Programs : ProgramOK(p)

Counts == Booked(World, Readers, Writers)

PipeInv == WaitInv /\ Counts /\ ProgramsOK

LEMMA ShellIsAProcess == Shell = SHELL_PID /\ Shell \in Slots /\ Shell \notin Programs
BY ShellIsNotIdle DEF Shell, Programs

LEMMA HoldersAre ==
  ASSUME NEW i \in Anon
  PROVE  /\ Readers[i] \subseteq Slots /\ Writers[i] \subseteq Slots
         /\ \A p \in Slots :
              /\ p \in Readers[i] <=> \/ Live(p) /\ file_descriptors[p].in = i
                                      \/ "PIPE_READ_END" \in held /\ i = pipe_id /\ p = Shell
              /\ p \in Writers[i] <=> \/ Live(p) /\ file_descriptors[p].out = i
                                      \/ "PIPE_WRITE_END" \in held /\ i = pipe_id /\ p = Shell
<1>1. "PIPE_READ_END" # "PIPE_WRITE_END"
  OBVIOUS
<1>2. Readers[i] = {p \in Slots : Live(p) /\ i = file_descriptors[p].in}
          \cup IF "PIPE_READ_END" \in held /\ i = pipe_id THEN {Shell} ELSE {}
  BY DEF Readers, Holders
<1>3. Writers[i] = {p \in Slots : Live(p) /\ i = file_descriptors[p].out}
          \cup IF "PIPE_WRITE_END" \in held /\ i = pipe_id THEN {Shell} ELSE {}
  BY <1>1 DEF Writers, Holders
<1> QED BY <1>2, <1>3, ShellIsAProcess

LEMMA EndSetsNow == Readers \in EndSets /\ Writers \in EndSets
<1>1. \A i \in Anon : Readers[i] \in Parties /\ Writers[i] \in Parties
  BY HoldersAre DEF Parties
<1> QED BY <1>1 DEF Readers, Writers, EndSets

\* The same, of the next state.
LEMMA HoldersNext ==
  ASSUME NEW i \in Anon
  PROVE  /\ Readers'[i] \subseteq Slots /\ Writers'[i] \subseteq Slots
         /\ \A p \in Slots :
              /\ p \in Readers'[i] <=>
                   \/ Live(p)' /\ file_descriptors'[p].in = i
                   \/ "PIPE_READ_END" \in held' /\ i = pipe_id' /\ p = Shell
              /\ p \in Writers'[i] <=>
                   \/ Live(p)' /\ file_descriptors'[p].out = i
                   \/ "PIPE_WRITE_END" \in held' /\ i = pipe_id' /\ p = Shell
<1>1. "PIPE_READ_END" # "PIPE_WRITE_END"
  OBVIOUS
<1>2. Readers'[i] = {p \in Slots : Live(p)' /\ i = file_descriptors'[p].in}
          \cup IF "PIPE_READ_END" \in held' /\ i = pipe_id' THEN {Shell} ELSE {}
  BY DEF Readers, Holders, Live
<1>3. Writers'[i] = {p \in Slots : Live(p)' /\ i = file_descriptors'[p].out}
          \cup IF "PIPE_WRITE_END" \in held' /\ i = pipe_id' THEN {Shell} ELSE {}
  BY <1>1 DEF Writers, Holders, Live
<1> QED BY <1>2, <1>3, ShellIsAProcess

\* By their members, the holders after a step.
LEMMA HoldersBecome ==
  ASSUME NEW A \in EndSets, NEW B \in EndSets,
         \A i \in Anon, p \in Slots :
           /\ p \in A[i] <=> \/ Live(p)' /\ file_descriptors'[p].in = i
                             \/ "PIPE_READ_END" \in held' /\ i = pipe_id' /\ p = Shell
           /\ p \in B[i] <=> \/ Live(p)' /\ file_descriptors'[p].out = i
                             \/ "PIPE_WRITE_END" \in held' /\ i = pipe_id' /\ p = Shell
  PROVE  Readers' = A /\ Writers' = B
<1>1. \A i \in Anon : A[i] \subseteq Slots /\ B[i] \subseteq Slots
  BY DEF EndSets, Parties
<1>2. \A i \in Anon : Readers'[i] = A[i] /\ Writers'[i] = B[i]
  BY <1>1, HoldersNext
<1>3. Readers' = [i \in Anon |-> Readers'[i]] /\ Writers' = [i \in Anon |-> Writers'[i]]
  BY DEF Readers, Writers
<1> QED BY <1>2, <1>3 DEF EndSets

\* The world after a step.
LEMMA WorldNext ==
  ASSUME NEW v, WorldBecomes(v), Sound(v)
  PROVE  World' = v /\ Kernel' = v.k /\ KernelBecomes(v.k) /\ sems' = v.s /\ pipes' = v.p
<1>1. KernelBecomes(v.k) /\ sems' = v.s /\ pipes' = v.p
  BY DEF WorldBecomes
<1>2. Kernel' = v.k
  BY <1>1 DEF Kernel, KernelBecomes, Sound, KernelType
<1>3. World' = [k |-> v.k, s |-> v.s, p |-> v.p]
  BY <1>1, <1>2 DEF World
<1> QED BY <1>1, <1>2, <1>3 DEF Sound

LEMMA CountsNext ==
  ASSUME NEW A, NEW B, NEW v, WorldBecomes(v), Booked(v, A, B),
         Readers' = A, Writers' = B
  PROVE  Counts'
<1>1. Sound(v)
  BY DEF Booked
<1>2. World' = v
  BY <1>1, WorldNext
<1>3. Booked(World', Readers', Writers')
  BY <1>2
<1> QED BY <1>3 DEF Counts, Booked, Tallied, EndSets

\* Nothing changes hands in a step that keeps the books and moves no process
\* from one phase to another.
LEMMA QuietStep ==
  ASSUME PipeInv, TableStays, UNCHANGED <<file_descriptors, held, pipe_id>>,
         NEW v, WorldBecomes(v), Sound(v), SameBooks(pipes, v.p),
         Settled(v.k), IdleLives(v.k), Phases(v.k) = Phases(Kernel),
         waiting[SHELL_PID] = NoPid \/ Untouched(Kernel, v.k, SHELL_PID)
  PROVE  /\ WaitInv' /\ Counts'
         /\ \A p \in Slots : Live(p)' <=> Live(p)
<1>1. KernelBecomes(v.k) /\ World' = v
  BY WorldNext
<1>2. WaitInv'
  BY <1>1, PhasesWaits DEF PipeInv, TableStays
<1>3. \A p \in Slots : Live(p)' <=> Live(p)
  BY <1>1, SamePhases DEF PipeInv, WaitInv, ProcInv
<1>4. Readers' = Readers /\ Writers' = Writers
  BY <1>3, EndSetsNow, HoldersAre, HoldersBecome
<1>5. ASSUME NEW i \in Anon
      PROVE  Tallied(v.p[i], Readers[i], Writers[i])
  <2>1. Tallied(pipes[i], Readers[i], Writers[i]) /\ i \in PipeIds
    BY DEF PipeInv, Counts, Booked, World, Anon
  <2>2. SameBook(pipes[i], v.p[i])
    BY <2>1 DEF SameBooks
  <2> QED BY <2>1, <2>2 DEF SameBook, Tallied
<1>6. Booked(v, Readers, Writers)
  BY <1>5 DEF Booked
<1>7. Counts'
  BY <1>4, <1>6, CountsNext
<1> QED BY <1>2, <1>3, <1>7

\* The same when the pipes and the semaphores are left alone.
LEMMA KernelStep ==
  ASSUME PipeInv, TableStays, UNCHANGED <<sems, pipes, file_descriptors, held, pipe_id>>,
         NEW r, KernelBecomes(r), Settled(r), IdleLives(r), Phases(r) = Phases(Kernel),
         waiting[SHELL_PID] = NoPid \/ Untouched(Kernel, r, SHELL_PID)
  PROVE  /\ WaitInv' /\ Counts'
         /\ \A p \in Slots : Live(p)' <=> Live(p)
<1> DEFINE w == [k |-> r, s |-> sems, p |-> pipes]
<1>v. PICK v : v = w
  OBVIOUS
<1>1. /\ v = [k |-> v.k, s |-> v.s, p |-> v.p]
      /\ v.k = r /\ v.s = sems /\ v.p = pipes
  BY <1>v
<1> HIDE DEF w
<1>2. /\ sems \in SemTables /\ PipesShape(pipes) /\ AllMatched(sems, pipes)
      /\ World.p = pipes
  BY DEF PipeInv, Counts, Booked, Sound, World
<1>3. Sound(v) /\ SameBooks(pipes, v.p)
  BY <1>1, <1>2, BooksKept DEF Sound, Settled
<1>4. WorldBecomes(v)
  BY <1>1 DEF WorldBecomes
<1>5. /\ Settled(v.k) /\ IdleLives(v.k) /\ Phases(v.k) = Phases(Kernel)
      /\ waiting[SHELL_PID] = NoPid \/ Untouched(Kernel, v.k, SHELL_PID)
  BY <1>1
<1> QED BY <1>3, <1>4, <1>5, QuietStep

-----------------------------------------------------------------------------
(* The steps that change no holder.                                        *)

\* A context switch.
LEMMA SwitchFacts ==
  ASSUME SchedInv, IdleLives(Kernel), NEW r, Settled(r), SameSleepers(Kernel, r)
  PROVE  /\ IdleLives(r) /\ Phases(r) = Phases(Kernel)
         /\ Untouched(Kernel, r, SHELL_PID)
<1>1. Coherent(Kernel) /\ SHELL_PID \in Slots \ {IDLE_PID}
  BY SettledCoherent, ShellIsNotIdle DEF SchedInv
<1> QED BY <1>1, SleepersPhases DEF SameSleepers

\* The process on the CPU, by the label it is at.
LEMMA CallerIs ==
  ASSUME PipeInv, UserRuns
  PROVE  /\ Settled(Kernel) /\ Coherent(Kernel) /\ IdleLives(Kernel)
         /\ Kernel.current_index = Caller /\ GetPid(Kernel) = Caller
         /\ Caller \in Slots /\ Caller # IDLE_PID /\ state[Caller] = "RUNNING"
         /\ Live(Caller)
         /\ Caller = Shell => pc[Caller] \in ShellLabels
         /\ Caller # Shell => /\ Caller \in Programs /\ pc[Caller] \in ProgramLabels
                              /\ ProgramOK(Caller)
<1>1. SchedInv /\ IdleLives(Kernel) /\ ProgramsOK
  BY DEF PipeInv, WaitInv, ProcInv
<1>2. /\ Settled(Kernel) /\ Kernel.current_index = Caller /\ Caller \in Slots
      /\ state[Caller] = "RUNNING" /\ GetPid(Kernel) = Caller
  BY <1>1, RunnerFacts
<1>3. Caller # IDLE_PID /\ (Caller # Shell => Caller \in Programs)
  BY <1>2 DEF UserRuns, Programs, Shell
<1> QED BY <1>1, <1>2, <1>3, SettledCoherent DEF Live, ProgramsOK, ShellOK, ProgramOK

LEMMA LabelsApart == ShellLabels \cap ProgramLabels = {}
BY DEF ShellLabels, ProgramLabels

LEMMA ProgramsStay ==
  ASSUME ProgramsOK, UNCHANGED <<pc, round, file_descriptors, call, held, pipe_id>>,
         \A p \in Slots : Live(p)' <=> Live(p)
  PROVE  ProgramsOK'
<1>1. ShellOK'
  BY ShellIsAProcess DEF ProgramsOK, ShellOK
<1>2. \A p \in Programs : ProgramOK(p)'
  BY DEF ProgramsOK, ProgramOK, Programs
<1> QED BY <1>1, <1>2 DEF ProgramsOK

\* The shell goes from one of its labels to another, and holds what it should.
LEMMA ShellMoves ==
  ASSUME ProgramsOK, NEW l \in ShellLabels, Goto(Shell, l),
         \A p \in Slots : Live(p)' <=> Live(p),
         UNCHANGED <<file_descriptors, call>>,
         round' = round \/ round' = [round EXCEPT ![Shell] = @ + 1],
         held' = HeldAt(l), held' # {} => pipe_id' \in Anon /\ round'[Shell] > 0
  PROVE  ProgramsOK'
<1>1. /\ pc' = [pc EXCEPT ![Shell] = l] /\ pc \in [Slots -> ShellLabels \cup ProgramLabels]
      /\ round \in [Slots -> Nat]
  BY DEF Goto, ProgramsOK
<1>2. /\ pc' \in [Slots -> ShellLabels \cup ProgramLabels] /\ pc'[Shell] = l
      /\ \A p \in Slots \ {Shell} : pc'[p] = pc[p]
  BY <1>1, ShellIsAProcess
<1>3. /\ round' \in [Slots -> Nat]
      /\ \A p \in Slots \ {Shell} : round'[p] = round[p]
  BY <1>1, ShellIsAProcess
<1>4. ShellOK'
  BY <1>2, <1>3, ShellIsAProcess, ShellIsNotIdle DEF ProgramsOK, ShellOK, Shell
<1>5. \A p \in Programs : ProgramOK(p)'
  BY <1>2, <1>3, ShellIsAProcess DEF ProgramsOK, ProgramOK, Programs
<1> QED BY <1>2, <1>3, <1>4, <1>5 DEF ProgramsOK

\* A program goes on to another label, inside of a call or not.
LEMMA ProgramMoves ==
  ASSUME ProgramsOK, NEW q \in Programs, Live(q), NEW l \in ProgramLabels, Goto(q, l),
         l = "write" => file_descriptors[q].out \in Anon,
         l = "read" => file_descriptors[q].in \in Anon,
         NEW c, CallOK(c, file_descriptors[q]), call' = [call EXCEPT ![q] = c],
         \A p \in Slots : Live(p)' <=> Live(p),
         UNCHANGED <<round, file_descriptors, held, pipe_id>>
  PROVE  ProgramsOK'
<1>1. /\ pc' = [pc EXCEPT ![q] = l] /\ pc \in [Slots -> ShellLabels \cup ProgramLabels]
      /\ call = [p \in Slots |-> call[p]] /\ q \in Slots /\ q # Shell /\ q # IDLE_PID
  BY DEF Goto, ProgramsOK, Programs, Shell
<1>2. /\ pc' \in [Slots -> ShellLabels \cup ProgramLabels] /\ pc'[q] = l
      /\ \A p \in Slots \ {q} : pc'[p] = pc[p]
  BY <1>1
<1>3. /\ call' = [p \in Slots |-> call'[p]] /\ call'[q] = c
      /\ \A p \in Slots \ {q} : call'[p] = call[p]
  BY <1>1
<1>4. ShellOK'
  BY <1>1, <1>2, ShellIsAProcess, ShellIsNotIdle DEF ProgramsOK, ShellOK
<1>5. \A p \in Programs : ProgramOK(p)'
  BY <1>1, <1>2, <1>3 DEF ProgramsOK, ProgramOK, Programs
<1>6. \A p \in Slots : CallOK(call'[p], file_descriptors[p])
  BY <1>3 DEF ProgramsOK
<1>7. \A p \in Slots : CallOK(call[p], file_descriptors[p])'
  BY <1>6 DEF CallOK, CallShape
<1> QED BY <1>2, <1>3, <1>4, <1>5, <1>7 DEF ProgramsOK

LEMMA TickStep ==
  ASSUME PipeInv, PipelineTick
  PROVE  PipeInv'
<1>1. SchedInv /\ IdleLives(Kernel) /\ Coherent(Kernel)
  BY SettledCoherent DEF PipeInv, WaitInv, ProcInv, SchedInv
<1> DEFINE r == Scheduling(Kernel)
<1>2. Settled(r) /\ SameSleepers(Kernel, r)
  BY <1>1, SchedulingFacts, SchedulingSleepers
<1>3. /\ KernelBecomes(r) /\ TableStays
      /\ UNCHANGED <<sems, pipes, file_descriptors, held, pipe_id, pc, round, call>>
  BY DEF PipelineTick, TimerTick, pipeVars, progVars
<1> HIDE DEF r
<1>4. IdleLives(r) /\ Phases(r) = Phases(Kernel) /\ Untouched(Kernel, r, SHELL_PID)
  BY <1>1, <1>2, SwitchFacts
<1>5. WaitInv' /\ Counts' /\ \A p \in Slots : Live(p)' <=> Live(p)
  BY <1>2, <1>3, <1>4, KernelStep
<1> QED BY <1>3, <1>5, ProgramsStay DEF PipeInv

LEMMA YieldStep ==
  ASSUME PipeInv, ShellYields
  PROVE  PipeInv'
<1>0. UserRuns /\ pc[Caller] = "yield"
  BY DEF ShellYields, At, InUser
<1>1. SchedInv /\ IdleLives(Kernel) /\ Coherent(Kernel) /\ Caller = Shell
  BY <1>0, CallerIs DEF PipeInv, WaitInv, ProcInv, SchedInv, ProgramLabels
<1> DEFINE r == Yield(Kernel)
<1>2. Settled(r) /\ SameSleepers(Kernel, r)
  BY <1>1, YieldFacts, YieldSleepers
<1>3. /\ KernelBecomes(r) /\ TableStays /\ Goto(Shell, "prompt")
      /\ UNCHANGED <<sems, pipes, file_descriptors, held, pipe_id, round, call>>
  BY DEF ShellYields, SysYield, pipeVars
<1> HIDE DEF r
<1>4. IdleLives(r) /\ Phases(r) = Phases(Kernel) /\ Untouched(Kernel, r, SHELL_PID)
  BY <1>1, <1>2, SwitchFacts
<1>5. WaitInv' /\ Counts' /\ \A p \in Slots : Live(p)' <=> Live(p)
  BY <1>2, <1>3, <1>4, KernelStep
<1>6. "prompt" \in ShellLabels /\ held = {} /\ HeldAt("prompt") = {}
  BY <1>0, <1>1 DEF PipeInv, ProgramsOK, ShellOK, ShellLabels, HeldAt
<1>7. ProgramsOK'
  BY <1>3, <1>5, <1>6, ShellMoves DEF PipeInv
<1> QED BY <1>5, <1>7 DEF PipeInv

\* The shell that has nothing more to do blocks itself.
LEMMA SleepStep ==
  ASSUME PipeInv, ShellSleeps
  PROVE  PipeInv'
<1>0. UserRuns /\ ~InWait /\ pc[Caller] = "prompt"
  BY DEF ShellSleeps, At, InUser
<1>1. Settled(Kernel) /\ IdleLives(Kernel) /\ Caller = Shell
  BY <1>0, CallerIs DEF ProgramLabels
<1>2. waiting[SHELL_PID] = NoPid
  BY <1>0, <1>1 DEF InWait, UserRuns, Shell
<1> DEFINE r == BlockProcess(Kernel, Shell)
<1>3. Settled(r) /\ IdleLives(r) /\ Phases(r) = Phases(Kernel)
  BY <1>1, BlockPhases, ShellIsAProcess
<1>4. /\ KernelBecomes(r) /\ TableStays /\ Goto(Shell, "asleep")
      /\ UNCHANGED <<sems, pipes, file_descriptors, held, pipe_id, round, call>>
  BY DEF ShellSleeps, pipeVars
<1> HIDE DEF r
<1>5. WaitInv' /\ Counts' /\ \A p \in Slots : Live(p)' <=> Live(p)
  BY <1>2, <1>3, <1>4, KernelStep
<1>6. "asleep" \in ShellLabels /\ held = {} /\ HeldAt("asleep") = {}
  BY <1>0, <1>1 DEF PipeInv, ProgramsOK, ShellOK, ShellLabels, HeldAt
<1>7. ProgramsOK'
  BY <1>4, <1>5, <1>6, ShellMoves DEF PipeInv
<1> QED BY <1>5, <1>7 DEF PipeInv

\* A step of a program's own.
LEMMA NothingStep ==
  ASSUME PipeInv, UNCHANGED <<procVars, sems, pipes, file_descriptors, held, pipe_id>>
  PROVE  WaitInv' /\ Counts' /\ \A p \in Slots : Live(p)' <=> Live(p)
<1>1. Settled(Kernel) /\ IdleLives(Kernel)
  BY DEF PipeInv, WaitInv, ProcInv, SchedInv
<1>2. KernelBecomes(Kernel) /\ TableStays
  BY DEF KernelBecomes, Kernel, procVars, schedVars, TableStays
<1>3. Untouched(Kernel, Kernel, SHELL_PID)
  BY DEF Untouched
<1>4. /\ Phases(Kernel) = Phases(Kernel)
      /\ waiting[SHELL_PID] = NoPid \/ Untouched(Kernel, Kernel, SHELL_PID)
      /\ UNCHANGED <<sems, pipes, file_descriptors, held, pipe_id>>
  BY <1>3
<1> QED BY <1>1, <1>2, <1>4, KernelStep

LEMMA WriteBegins ==
  ASSUME NEW fd, fd.out \in Anon, NEW b,
         NEW c, c = [NoCall EXCEPT !.op = "write", !.id = fd.out, !.bytes = b]
  PROVE  CallOK(c, fd)
<1>n. PICK n : n = NoCall
  OBVIOUS
<1>x. PICK x : x = "write"
  OBVIOUS
<1>y. PICK y : y = fd.out
  OBVIOUS
<1>1. CallShape(n)
  BY <1>n DEF CallShape, NoCall
<1>2. c = [n EXCEPT !.op = x, !.id = y, !.bytes = b]
  BY <1>n, <1>x, <1>y
<1>3. c = [op |-> x, id |-> y, bytes |-> b, token |-> n.token]
  BY <1>1, <1>2 DEF CallShape
<1> QED BY <1>3, <1>x, <1>y DEF CallOK, CallShape

LEMMA ReadBegins ==
  ASSUME NEW fd, fd.in \in Anon,
         NEW c, c = [NoCall EXCEPT !.op = "read", !.id = fd.in]
  PROVE  CallOK(c, fd)
<1>n. PICK n : n = NoCall
  OBVIOUS
<1>x. PICK x : x = "read"
  OBVIOUS
<1>y. PICK y : y = fd.in
  OBVIOUS
<1>1. CallShape(n)
  BY <1>n DEF CallShape, NoCall
<1>2. c = [n EXCEPT !.op = x, !.id = y]
  BY <1>n, <1>x, <1>y
<1>3. c = [op |-> x, id |-> y, bytes |-> n.bytes, token |-> n.token]
  BY <1>1, <1>2 DEF CallShape
<1> QED BY <1>3, <1>x, <1>y DEF CallOK, CallShape

LEMMA CallGoesOn ==
  ASSUME NEW fd, NEW c, CallOK(c, fd), NEW b, NEW x,
         NEW d, d = [c EXCEPT !.token = x] \/ d = [c EXCEPT !.bytes = b, !.token = x]
  PROVE  CallOK(d, fd)
<1>1. CallShape(c)
  BY DEF CallOK
<1>2. CASE d = [c EXCEPT !.token = x]
  <2>1. d = [op |-> c.op, id |-> c.id, bytes |-> c.bytes, token |-> x]
    BY <1>1, <1>2 DEF CallShape
  <2> QED BY <2>1 DEF CallOK, CallShape
<1>3. CASE d = [c EXCEPT !.bytes = b, !.token = x]
  <2>1. d = [op |-> c.op, id |-> c.id, bytes |-> b, token |-> x]
    BY <1>1, <1>3 DEF CallShape
  <2> QED BY <2>1 DEF CallOK, CallShape
<1> QED BY <1>2, <1>3

LEMMA OwnSteps ==
  ASSUME PipeInv, WriterWrites \/ WriterEnds \/ ReaderReads
  PROVE  PipeInv'
<1>1. /\ UserRuns /\ pc[Caller] \in {"write", "read"}
      /\ UNCHANGED <<procVars, sems, pipes, file_descriptors, held, pipe_id, round>>
  BY DEF WriterWrites, WriterEnds, ReaderReads, At, InUser, KernelStays, progVars
<1>2. Caller \in Programs /\ Live(Caller) /\ ProgramOK(Caller) /\ Caller \in Slots
  BY <1>1, CallerIs DEF ShellLabels
<1>3. WaitInv' /\ Counts' /\ \A p \in Slots : Live(p)' <=> Live(p)
  BY <1>1, NothingStep
<1> DEFINE fd == file_descriptors[Caller]
<1>4. \E l \in ProgramLabels : \E c :
        /\ Goto(Caller, l) /\ (l = "write" => fd.out \in Anon)
        /\ l = "read" => fd.in \in Anon
        /\ CallOK(c, fd) /\ call' = [call EXCEPT ![Caller] = c]
  <2>1. CallOK(call[Caller], fd) /\ call = [call EXCEPT ![Caller] = call[Caller]]
        /\ pc = [pc EXCEPT ![Caller] = pc[Caller]]
    BY <1>2 DEF PipeInv, ProgramsOK
  <2>2. CASE WriterWrites
    <3>1. pc[Caller] = "write" /\ fd.out \in Anon /\ pc' = pc
      BY <1>2, <2>2 DEF WriterWrites, At, ProgramOK
    <3> DEFINE c == [NoCall EXCEPT !.op = "write", !.id = fd.out,
                                   !.bytes = Message(Caller)]
    <3>2. call' = [call EXCEPT ![Caller] = c]
      BY <2>2 DEF WriterWrites, StartsWrite
    <3>3. CallOK(c, fd)
      BY <3>1, WriteBegins
    <3> HIDE DEF c, fd
    <3> QED BY <2>1, <3>1, <3>2, <3>3 DEF Goto, ProgramLabels
  <2>3. CASE ReaderReads
    <3>1. pc[Caller] = "read" /\ fd.in \in Anon /\ pc' = pc
      BY <1>2, <2>3 DEF ReaderReads, At, ProgramOK, progVars
    <3> DEFINE c == [NoCall EXCEPT !.op = "read", !.id = fd.in]
    <3>2. call' = [call EXCEPT ![Caller] = c]
      BY <2>3 DEF ReaderReads, StartsRead
    <3>3. CallOK(c, fd)
      BY <3>1, ReadBegins
    <3> HIDE DEF c, fd
    <3> QED BY <2>1, <3>1, <3>2, <3>3 DEF Goto, ProgramLabels
  <2>4. CASE WriterEnds
    <3>1. Goto(Caller, "exit") /\ call' = call
      BY <2>4 DEF WriterEnds
    <3> HIDE DEF fd
    <3> QED BY <2>1, <3>1 DEF ProgramLabels
  <2> QED BY <2>2, <2>3, <2>4
<1>5. ProgramsOK'
  BY <1>1, <1>2, <1>3, <1>4, ProgramMoves DEF PipeInv
<1> QED BY <1>3, <1>5 DEF PipeInv

\* A process inside of a call holds the end of the pipe that it is about.
LEMMA InTheCall ==
  ASSUME PipeInv, InCall, call[Caller].op \in {"write", "read"},
         NEW i, i = call[Caller].id
  PROVE  /\ Caller \in Programs /\ Live(Caller) /\ ProgramOK(Caller)
         /\ i \in Anon /\ pipes[i].is_in_use
         /\ ItemsOf(pipes[i]) = Items(i) /\ SpaceOf(pipes[i]) = Space(i)
         /\ Settled(Kernel) /\ IdleLives(Kernel) /\ GetPid(Kernel) = Caller
         /\ Sound(World) /\ World.k = Kernel /\ World.s = sems /\ World.p = pipes
<1>1. /\ Settled(Kernel) /\ IdleLives(Kernel) /\ GetPid(Kernel) = Caller
      /\ Caller \in Slots /\ state[Caller] = "RUNNING"
  BY RunnerFacts DEF PipeInv, WaitInv, ProcInv
<1>2. CallOK(call[Caller], file_descriptors[Caller])
  BY <1>1 DEF PipeInv, ProgramsOK
<1>3. \/ i = file_descriptors[Caller].in /\ i \in Anon
      \/ i = file_descriptors[Caller].out /\ i \in Anon
  BY <1>2 DEF CallOK
<1>4. file_descriptors[Caller] # StandardFds
  BY <1>3 DEF StandardFds, Anon, STDIN, STDOUT, STDERR
<1>5. Caller \in Programs
  BY <1>1, <1>4 DEF PipeInv, ProgramsOK, ShellOK, Shell, Programs
<1>6. Live(Caller)
  BY <1>1 DEF Live
<1>7. Caller \in Readers[i] \/ Caller \in Writers[i]
  BY <1>1, <1>3, <1>6, HoldersAre
<1>8. Sound(World) /\ World.k = Kernel /\ World.s = sems /\ World.p = pipes
  BY DEF PipeInv, Counts, Booked, World
<1>9. Tallied(pipes[i], Readers[i], Writers[i])
  BY <1>3, <1>8 DEF PipeInv, Counts, Booked
<1>10. pipes[i].is_in_use
  BY <1>7, <1>9 DEF Tallied
<1>11. ItemsOf(pipes[i]) = Items(i) /\ SpaceOf(pipes[i]) = Space(i)
  BY <1>3, <1>8, <1>10, InUseNames
<1> QED BY <1>1, <1>3, <1>5, <1>6, <1>8, <1>10, <1>11 DEF PipeInv, ProgramsOK

\* sem_wait() with no byte, or no space, left.
LEMMA FallsAsleepStep ==
  ASSUME PipeInv, WriteSleeps \/ ReadSleeps
  PROVE  PipeInv'
<1> DEFINE i == call[Caller].id
<1>1. InCall /\ call[Caller].op \in {"write", "read"}
  BY DEF WriteSleeps, ReadSleeps
<1>2. /\ Caller \in Programs /\ Live(Caller) /\ ProgramOK(Caller)
      /\ i \in Anon /\ pipes[i].is_in_use
      /\ ItemsOf(pipes[i]) = Items(i) /\ SpaceOf(pipes[i]) = Space(i)
      /\ Settled(Kernel) /\ IdleLives(Kernel) /\ GetPid(Kernel) = Caller
      /\ Sound(World) /\ World.k = Kernel /\ World.s = sems /\ World.p = pipes
  BY <1>1, InTheCall
<1> HIDE DEF i
<1>3. PICK n \in {Items(i), Space(i)} : FallsAsleep(n)
  BY <1>2 DEF WriteSleeps, ReadSleeps, i
<1>v. PICK v : v = SemWaitIn(World, n)
  OBVIOUS
<1>4. /\ MustSleep(World.s, n) /\ WorldBecomes(v)
      /\ call' = [call EXCEPT ![Caller].token = TRUE]
  BY <1>2, <1>3, <1>v DEF FallsAsleep
<1>5. Sound(v) /\ v.p = World.p /\ v.k = BlockProcess(Kernel, Caller)
  BY <1>2, <1>4, <1>v, WaitWorld
<1>6. /\ TableStays /\ pc' = pc
      /\ UNCHANGED <<file_descriptors, held, pipe_id, round>>
  BY DEF WriteSleeps, ReadSleeps, progVars
<1>7. /\ Settled(v.k) /\ IdleLives(v.k) /\ Phases(v.k) = Phases(Kernel)
      /\ Untouched(Kernel, v.k, SHELL_PID)
  BY <1>2, <1>5, BlockPhases, ShellIsNotIdle DEF Programs
<1>8. SameBooks(pipes, v.p)
  BY <1>2, <1>5, BooksKept DEF Sound
<1>9. WaitInv' /\ Counts' /\ \A p \in Slots : Live(p)' <=> Live(p)
  BY <1>4, <1>5, <1>6, <1>7, <1>8, QuietStep
<1>10. \E c : /\ CallOK(c, file_descriptors[Caller])
              /\ call' = [call EXCEPT ![Caller] = c]
  <2>c. PICK c : c = call[Caller]
    OBVIOUS
  <2>x. PICK x : x = TRUE
    OBVIOUS
  <2>d. PICK d : d = [c EXCEPT !.token = x]
    OBVIOUS
  <2>1. CallOK(c, file_descriptors[Caller])
    BY <1>2, <2>c DEF PipeInv, ProgramsOK, Programs
  <2>2. CallOK(d, file_descriptors[Caller])
    BY <2>1, <2>d, CallGoesOn
  <2>3. call' = [call EXCEPT ![Caller] = d]
    BY <1>4, <2>c, <2>d, <2>x
  <2> QED BY <2>2, <2>3
<1>11. Goto(Caller, pc[Caller]) /\ pc[Caller] \in ProgramLabels
  BY <1>2, <1>6 DEF Goto, PipeInv, ProgramsOK, ProgramOK
<1>12. /\ pc[Caller] = "write" => file_descriptors[Caller].out \in Anon
       /\ pc[Caller] = "read" => file_descriptors[Caller].in \in Anon
  BY <1>2 DEF ProgramOK
<1>13. ProgramsOK'
  BY <1>2, <1>6, <1>9, <1>10, <1>11, <1>12, ProgramMoves DEF PipeInv
<1> QED BY <1>9, <1>13 DEF PipeInv

\* The token that a call waited for, or takes without having to.
LEMMA TokenTaken ==
  ASSUME Sound(World), NEW i \in Anon, NEW n \in {Items(i), Space(i)}, ~AwaitsToken(n),
         NEW u, u = WithToken(n)
  PROVE  Sound(u) /\ u.k = Kernel /\ u.p = pipes
<1>1. World.k = Kernel /\ World.s = sems /\ World.p = pipes
  BY DEF World
<1>2. CASE call[Caller].token
  BY <1>1, <1>2 DEF WithToken
<1>3. CASE ~call[Caller].token
  <2>1. u = SemWaitIn(World, n) /\ ~MustSleep(World.s, n)
    BY <1>1, <1>3 DEF WithToken, AwaitsToken
  <2>2. /\ Sound(u) /\ u.p = World.p
        /\ u.k = IF MustSleep(World.s, n) THEN BlockProcess(World.k, GetPid(World.k))
                                          ELSE World.k
    BY <2>1, WaitWorld
  <2> QED BY <1>1, <2>1, <2>2
<1> QED BY <1>2, <1>3

\* A step inside of a call wakes up programs at most.
LEMMA WokenStep ==
  ASSUME PipeInv, TableStays, UNCHANGED <<file_descriptors, held, pipe_id>>,
         NEW v, WorldBecomes(v), Sound(v), SameBooks(pipes, v.p), Woken(Kernel, v.k)
  PROVE  /\ WaitInv' /\ Counts'
         /\ \A p \in Slots : Live(p)' <=> Live(p)
<1>1. Settled(Kernel) /\ IdleLives(Kernel) /\ Kernel \in KernelType
  BY DEF PipeInv, WaitInv, ProcInv, SchedInv, Settled
<1>2. /\ RunningSlots(v.k) = RunningSlots(Kernel) /\ Phases(v.k) = Phases(Kernel)
      /\ IdleLives(v.k) <=> IdleLives(Kernel)
      /\ Untouched(Kernel, v.k, SHELL_PID)
  BY <1>1, WokenFacts
<1>3. Settled(v.k)
  BY <1>1, <1>2 DEF Settled, Woken
<1> QED BY <1>1, <1>2, <1>3, QuietStep

LEMMA WriteStep ==
  ASSUME PipeInv, WriteGoesOn
  PROVE  PipeInv'
<1> DEFINE c == call[Caller]
           i == c.id
           n == SpaceOf(pipes[i])
<1>1. InCall /\ call[Caller].op \in {"write", "read"}
  BY DEF WriteGoesOn
<1>2. /\ Caller \in Programs /\ Live(Caller) /\ ProgramOK(Caller)
      /\ i \in Anon /\ pipes[i].is_in_use /\ n = Space(i)
      /\ Sound(World)
  BY <1>1, InTheCall
<1>b. PICK b : b = Head(c.bytes)
  OBVIOUS
<1>u. PICK u : u = WithToken(n)
  OBVIOUS
<1>v. PICK v : v = WriteByte(u, i, b)
  OBVIOUS
<1>3. /\ ~AwaitsToken(n) /\ WorldBecomes(v) /\ TableStays /\ pc' = pc
      /\ UNCHANGED <<file_descriptors, held, pipe_id, round>>
      /\ call' = [call EXCEPT ![Caller] =
                    IF Tail(c.bytes) = <<>> THEN NoCall
                    ELSE [c EXCEPT !.bytes = Tail(c.bytes), !.token = FALSE]]
  BY <1>b, <1>u, <1>v DEF WriteGoesOn
<1>4. Sound(u) /\ u.k = Kernel /\ u.p = pipes
  BY <1>2, <1>3, <1>u, TokenTaken
<1> HIDE DEF i, n
<1>5. Sound(v) /\ Woken(Kernel, v.k) /\ SameBooks(pipes, v.p)
  BY <1>2, <1>4, <1>v, WriteByteWorld
<1>6. WaitInv' /\ Counts' /\ \A p \in Slots : Live(p)' <=> Live(p)
  BY <1>3, <1>5, WokenStep
<1>7. \E d : /\ CallOK(d, file_descriptors[Caller])
             /\ call' = [call EXCEPT ![Caller] = d]
  <2>x. PICK x : x = FALSE
    OBVIOUS
  <2>y. PICK y : y = Tail(c.bytes)
    OBVIOUS
  <2>1. CallOK(c, file_descriptors[Caller])
    BY <1>2 DEF PipeInv, ProgramsOK, Programs
  <2> HIDE DEF c
  <2>d. PICK d : d = IF y = <<>> THEN NoCall ELSE [c EXCEPT !.bytes = y, !.token = x]
    OBVIOUS
  <2>2. CallOK(d, file_descriptors[Caller])
    <3>1. CASE y = <<>>
      <4>1. d = NoCall
        BY <2>d, <3>1
      <4> QED BY <4>1 DEF CallOK, CallShape, NoCall
    <3>2. CASE y # <<>>
      BY <2>1, <2>d, <3>2, CallGoesOn
    <3> QED BY <3>1, <3>2
  <2>3. call' = [call EXCEPT ![Caller] = d]
    BY <1>3, <2>d, <2>x, <2>y
  <2> QED BY <2>2, <2>3
<1>8. Goto(Caller, pc[Caller]) /\ pc[Caller] \in ProgramLabels
  BY <1>2, <1>3 DEF Goto, PipeInv, ProgramsOK, ProgramOK
<1>9. /\ pc[Caller] = "write" => file_descriptors[Caller].out \in Anon
      /\ pc[Caller] = "read" => file_descriptors[Caller].in \in Anon
  BY <1>2 DEF ProgramOK
<1>10. ProgramsOK'
  BY <1>2, <1>3, <1>6, <1>7, <1>8, <1>9, ProgramMoves DEF PipeInv
<1> QED BY <1>6, <1>10 DEF PipeInv

LEMMA ReadStep ==
  ASSUME PipeInv, ReadGoesOn
  PROVE  PipeInv'
<1> DEFINE i == call[Caller].id
           n == ItemsOf(pipes[i])
<1>1. InCall /\ call[Caller].op = "read"
  BY DEF ReadGoesOn
<1>2. /\ Caller \in Programs /\ Live(Caller) /\ ProgramOK(Caller)
      /\ i \in Anon /\ pipes[i].is_in_use /\ n = Items(i)
      /\ Sound(World)
  BY <1>1, InTheCall
<1>u. PICK u : u = WithToken(n)
  OBVIOUS
<1>r. PICK r : r = ReadByte(u, i)
  OBVIOUS
<1>3. /\ ~AwaitsToken(n) /\ WorldBecomes(r.w) /\ TableStays
      /\ UNCHANGED <<file_descriptors, held, pipe_id, round>>
      /\ Goto(Caller, IF r.bytes = <<>> THEN "exit" ELSE "read")
      /\ call' = [call EXCEPT ![Caller] = NoCall]
  BY <1>u, <1>r DEF ReadGoesOn
<1>4. Sound(u) /\ u.k = Kernel /\ u.p = pipes
  BY <1>2, <1>3, <1>u, TokenTaken
<1> HIDE DEF i, n
<1>v. PICK v : v = r.w
  OBVIOUS
<1>5. Sound(v) /\ Woken(Kernel, v.k) /\ SameBooks(pipes, v.p)
  BY <1>2, <1>4, <1>r, <1>v, ReadByteWorld
<1>6. WaitInv' /\ Counts' /\ \A p \in Slots : Live(p)' <=> Live(p)
  BY <1>3, <1>5, <1>v, WokenStep
<1>7. CallOK(NoCall, file_descriptors[Caller])
  BY DEF CallOK, CallShape, NoCall
<1>8. file_descriptors[Caller].in \in Anon
  <2>1. CallOK(call[Caller], file_descriptors[Caller])
    BY <1>2 DEF PipeInv, ProgramsOK, Programs
  <2> QED BY <1>1, <2>1 DEF CallOK
<1>9. PICK l : l = IF r.bytes = <<>> THEN "exit" ELSE "read"
  OBVIOUS
<1>10. l \in ProgramLabels /\ l # "write" /\ Goto(Caller, l)
  BY <1>3, <1>9 DEF ProgramLabels
<1>11. ProgramsOK'
  BY <1>2, <1>3, <1>6, <1>7, <1>8, <1>10, ProgramMoves DEF PipeInv
<1> QED BY <1>6, <1>11 DEF PipeInv

-----------------------------------------------------------------------------
(* The steps of the shell that change the holders.                         *)

LEMMA WokenWaits ==
  ASSUME PipeInv, TableStays, NEW v, WorldBecomes(v), Sound(v), Woken(Kernel, v.k)
  PROVE  WaitInv' /\ \A p \in Slots : Live(p)' <=> Live(p)
<1>1. Settled(Kernel) /\ IdleLives(Kernel) /\ Kernel \in KernelType /\ SchedInv
  BY DEF PipeInv, WaitInv, ProcInv, SchedInv, Settled
<1>2. /\ RunningSlots(v.k) = RunningSlots(Kernel) /\ Phases(v.k) = Phases(Kernel)
      /\ IdleLives(v.k) <=> IdleLives(Kernel)
      /\ Untouched(Kernel, v.k, SHELL_PID)
  BY <1>1, WokenFacts
<1>3. Settled(v.k) /\ KernelBecomes(v.k)
  BY <1>1, <1>2, WorldNext DEF Settled, Woken
<1>4. WaitInv'
  BY <1>1, <1>2, <1>3, PhasesWaits DEF PipeInv, TableStays
<1>5. \A p \in Slots : Live(p)' <=> Live(p)
  BY <1>1, <1>2, <1>3, SamePhases
<1> QED BY <1>4, <1>5

\* The shell at one of its labels, between two calls.
LEMMA ShellAt ==
  ASSUME PipeInv, NEW l, At(l), l \notin ProgramLabels
  PROVE  /\ Caller = Shell /\ pc[Shell] = l /\ held = HeldAt(l)
         /\ held # {} => pipe_id \in Anon /\ round[Shell] > 0
         /\ file_descriptors[Shell] = StandardFds
         /\ ~InWait /\ ~InCall /\ waiting[SHELL_PID] = NoPid
<1>1. UserRuns /\ pc[Caller] = l /\ ~InWait /\ ~InCall
  BY DEF At, InUser
<1>2. Caller = Shell
  BY <1>1, CallerIs
<1>3. waiting[SHELL_PID] = NoPid
  BY <1>1, <1>2 DEF InWait, UserRuns, Shell
<1> QED BY <1>1, <1>2, <1>3 DEF PipeInv, ProgramsOK, ShellOK

LEMMA StandardIsNoPipe ==
  ASSUME NEW i \in Anon
  PROVE  StandardFds.in # i /\ StandardFds.out # i
BY DEF StandardFds, Anon, STDIN, STDOUT, STDERR

LEMMA CreatesPipeStep ==
  ASSUME PipeInv, ShellCreatesPipe
  PROVE  PipeInv'
<1>1. /\ Caller = Shell /\ pc[Shell] = "prompt" /\ held = {}
  <2>1. At("prompt") /\ "prompt" \notin ProgramLabels /\ HeldAt("prompt") = {}
    BY DEF ShellCreatesPipe, ProgramLabels, HeldAt
  <2> QED BY <2>1, ShellAt
<1>r. PICK r : r = PipeCreateAnonymous(World)
  OBVIOUS
<1>2. /\ WorldBecomes(r.w) /\ pipe_id' = r.id /\ TableStays
      /\ held' = IF r.id < 0 THEN {} ELSE Modes
      /\ Goto(Shell, IF r.id < 0 THEN "prompt" ELSE "create_A")
      /\ round' = [round EXCEPT ![Shell] = @ + 1]
      /\ UNCHANGED <<file_descriptors, call>>
  BY <1>r DEF ShellCreatesPipe
<1>A. PICK A : A = Readers
  OBVIOUS
<1>B. PICK B : B = Writers
  OBVIOUS
<1>3. A \in EndSets /\ B \in EndSets /\ Booked(World, A, B) /\ World.k = Kernel
  BY <1>A, <1>B, EndSetsNow DEF PipeInv, Counts, World
<1>4. Made(World, r, A, B, Shell)
  BY <1>3, <1>r, AnonymousCreated, ShellIsAProcess
<1>v. PICK v : v = r.w
  OBVIOUS
<1>n. PICK n : n = r.id
  OBVIOUS
<1>5. /\ v.k = Kernel /\ Sound(v)
      /\ \/ n = -1 /\ Booked(v, A, B)
         \/ n \in Anon /\ Booked(v, More(A, n, Shell), More(B, n, Shell))
  BY <1>3, <1>4, <1>v, <1>n DEF Made, Booked
<1>6. Woken(Kernel, v.k)
  BY <1>5, WokenFirst DEF Sound
<1>7. WaitInv' /\ \A p \in Slots : Live(p)' <=> Live(p)
  BY <1>2, <1>5, <1>6, <1>v, WokenWaits
<1>8. \A i \in Anon, p \in Slots :
        /\ p \in A[i] <=> Live(p) /\ file_descriptors[p].in = i
        /\ p \in B[i] <=> Live(p) /\ file_descriptors[p].out = i
  BY <1>1, <1>A, <1>B, HoldersAre
<1>9. round[Shell] \in Nat /\ round'[Shell] = round[Shell] + 1
  BY <1>2, ShellIsAProcess DEF PipeInv, ProgramsOK
<1>10. CASE n = -1
  <2>1. held' = {} /\ Goto(Shell, "prompt")
    BY <1>2, <1>10, <1>n
  <2>2. Readers' = A /\ Writers' = B
    BY <1>2, <1>3, <1>7, <1>8, <2>1, HoldersBecome
  <2>3. Booked(v, A, B)
    BY <1>5, <1>10 DEF Anon, STDERR
  <2>4. Counts'
    BY <1>2, <1>v, <2>2, <2>3, CountsNext
  <2>5. "prompt" \in ShellLabels /\ HeldAt("prompt") = {}
    BY DEF ShellLabels, HeldAt
  <2>6. ProgramsOK'
    BY <1>2, <1>7, <2>1, <2>5, ShellMoves DEF PipeInv
  <2> QED BY <1>7, <2>4, <2>6 DEF PipeInv
<1>11. CASE n \in Anon
  <2>0. ~(n < 0) /\ n # -1 /\ n \in Int
    BY <1>11 DEF Anon, STDERR, PipeIds
  <2>1. held' = Modes /\ Goto(Shell, "create_A")
    BY <1>2, <1>n, <2>0
  <2>a. PICK a : a = More(A, n, Shell)
    OBVIOUS
  <2>b. PICK b : b = More(B, n, Shell)
    OBVIOUS
  <2>2. a \in EndSets /\ b \in EndSets /\ Booked(v, a, b)
    BY <1>3, <1>5, <2>0, <2>a, <2>b, EndsType, ShellIsAProcess
  <2>3. \A i \in Anon, p \in Slots :
          /\ p \in a[i] <=> p \in A[i] \/ (i = n /\ p = Shell)
          /\ p \in b[i] <=> p \in B[i] \/ (i = n /\ p = Shell)
    BY <2>a, <2>b DEF More
  <2>4. "PIPE_READ_END" \in held' /\ "PIPE_WRITE_END" \in held' /\ pipe_id' = n
    BY <1>2, <1>n, <2>1 DEF Modes
  <2>5. Readers' = a /\ Writers' = b
    BY <1>2, <1>7, <1>8, <2>2, <2>3, <2>4, HoldersBecome
  <2>6. Counts'
    BY <1>2, <1>v, <2>2, <2>5, CountsNext
  <2>7. "create_A" \in ShellLabels /\ HeldAt("create_A") = Modes
    BY DEF ShellLabels, HeldAt
  <2>8. ProgramsOK'
    BY <1>2, <1>7, <1>9, <1>11, <2>1, <2>4, <2>7, ShellMoves DEF PipeInv
  <2> QED BY <1>7, <2>6, <2>8 DEF PipeInv
<1> QED BY <1>5, <1>10, <1>11

\* The end that the shell closes was its own.
LEMMA ClosesReadStep ==
  ASSUME PipeInv, ShellClosesRead
  PROVE  PipeInv'
<1>1. /\ At("close_read") /\ "close_read" \notin ProgramLabels
      /\ HeldAt("close_read") = Modes /\ HeldAt("close_write") = {"PIPE_WRITE_END"}
      /\ "close_write" \in ShellLabels
      /\ "PIPE_READ_END" \in Modes /\ "PIPE_WRITE_END" \in Modes
      /\ Modes \ {"PIPE_READ_END"} = {"PIPE_WRITE_END"}
  BY DEF ShellClosesRead, ShellCloses, ProgramLabels, HeldAt, ShellLabels, Modes
<1>2. /\ Caller = Shell /\ held = Modes /\ pipe_id \in Anon /\ round[Shell] > 0
      /\ file_descriptors[Shell] = StandardFds
  BY <1>1, ShellAt
<1>i. PICK i : i = pipe_id
  OBVIOUS
<1>v. PICK v : v = PipeClose(World, i, "PIPE_READ_END")
  OBVIOUS
<1>3. /\ WorldBecomes(v) /\ TableStays /\ Goto(Shell, "close_write")
      /\ held' = {"PIPE_WRITE_END"}
      /\ UNCHANGED <<file_descriptors, call, round, pipe_id>>
  BY <1>1, <1>2, <1>i, <1>v DEF ShellClosesRead, ShellCloses
<1>A. PICK A : A = Readers
  OBVIOUS
<1>B. PICK B : B = Writers
  OBVIOUS
<1>4. A \in EndSets /\ B \in EndSets /\ Booked(World, A, B) /\ World.k = Kernel
  BY <1>A, <1>B, EndSetsNow DEF PipeInv, Counts, World
<1>5. \A j \in Anon, p \in Slots :
        /\ p \in A[j] <=> \/ Live(p) /\ file_descriptors[p].in = j
                          \/ (j = i /\ p = Shell)
        /\ p \in B[j] <=> \/ Live(p) /\ file_descriptors[p].out = j
                          \/ (j = i /\ p = Shell)
  BY <1>1, <1>2, <1>A, <1>B, <1>i, HoldersAre
<1>6. Shell \in A[i] /\ i \in Anon
  BY <1>2, <1>5, <1>i, ShellIsAProcess
<1>c. PICK c : c = Less(A, i, Shell)
  OBVIOUS
<1>7. Booked(v, c, B) /\ Woken(Kernel, v.k) /\ c \in EndSets
  BY <1>4, <1>6, <1>v, <1>c, BookedReadCloses, EndsType, ShellIsAProcess
<1>8. WaitInv' /\ \A p \in Slots : Live(p)' <=> Live(p)
  BY <1>3, <1>7, WokenWaits DEF Booked
<1>9. \A j \in Anon, p \in Slots :
        p \in c[j] <=> p \in A[j] /\ ~(j = i /\ p = Shell)
  BY <1>c DEF Less
<1>10. /\ "PIPE_READ_END" \notin held' /\ "PIPE_WRITE_END" \in held' /\ pipe_id' = i
       /\ file_descriptors'[Shell].in # i
  BY <1>2, <1>3, <1>6, <1>i, StandardIsNoPipe
<1>11. Readers' = c /\ Writers' = B
  BY <1>3, <1>4, <1>5, <1>7, <1>8, <1>9, <1>10, HoldersBecome
<1>12. Counts'
  BY <1>3, <1>7, <1>11, CountsNext
<1>13. ProgramsOK'
  BY <1>1, <1>2, <1>3, <1>8, ShellMoves DEF PipeInv
<1> QED BY <1>8, <1>12, <1>13 DEF PipeInv

LEMMA ClosesWriteStep ==
  ASSUME PipeInv, ShellClosesWrite
  PROVE  PipeInv'
<1>l. PICK l : l = IF plan.foreground THEN "wait_A" ELSE "yield"
  OBVIOUS
<1>1. /\ At("close_write") /\ "close_write" \notin ProgramLabels
      /\ HeldAt("close_write") = {"PIPE_WRITE_END"}
  BY DEF ShellClosesWrite, ShellCloses, ProgramLabels, HeldAt
<1>a. l \in ShellLabels /\ HeldAt(l) = {}
  BY <1>l DEF ShellLabels, HeldAt
<1>2. /\ Caller = Shell /\ held = {"PIPE_WRITE_END"} /\ pipe_id \in Anon
      /\ file_descriptors[Shell] = StandardFds
  BY <1>1, ShellAt
<1>i. PICK i : i = pipe_id
  OBVIOUS
<1>v. PICK v : v = PipeClose(World, i, "PIPE_WRITE_END")
  OBVIOUS
<1>3. /\ WorldBecomes(v) /\ TableStays /\ Goto(Shell, l)
      /\ held' = {}
      /\ UNCHANGED <<file_descriptors, call, round, pipe_id>>
  BY <1>1, <1>2, <1>i, <1>v, <1>l DEF ShellClosesWrite, ShellCloses
<1>A. PICK A : A = Readers
  OBVIOUS
<1>B. PICK B : B = Writers
  OBVIOUS
<1>4. A \in EndSets /\ B \in EndSets /\ Booked(World, A, B) /\ World.k = Kernel
  BY <1>A, <1>B, EndSetsNow DEF PipeInv, Counts, World
<1>5. \A j \in Anon, p \in Slots :
        /\ p \in A[j] <=> Live(p) /\ file_descriptors[p].in = j
        /\ p \in B[j] <=> \/ Live(p) /\ file_descriptors[p].out = j
                          \/ (j = i /\ p = Shell)
  BY <1>1, <1>2, <1>A, <1>B, <1>i, HoldersAre
<1>6. Shell \in B[i] /\ i \in Anon
  BY <1>2, <1>5, <1>i, ShellIsAProcess
<1>c. PICK c : c = Less(B, i, Shell)
  OBVIOUS
<1>7. Booked(v, A, c) /\ Woken(Kernel, v.k) /\ c \in EndSets
  BY <1>4, <1>6, <1>v, <1>c, BookedWriteCloses, EndsType, ShellIsAProcess
<1>8. WaitInv' /\ \A p \in Slots : Live(p)' <=> Live(p)
  BY <1>3, <1>7, WokenWaits DEF Booked
<1>9. \A j \in Anon, p \in Slots :
        p \in c[j] <=> p \in B[j] /\ ~(j = i /\ p = Shell)
  BY <1>c DEF Less
<1>10. /\ "PIPE_READ_END" \notin held' /\ "PIPE_WRITE_END" \notin held'
       /\ file_descriptors'[Shell].out # i
  BY <1>2, <1>3, <1>6, StandardIsNoPipe
<1>11. Readers' = A /\ Writers' = c
  BY <1>3, <1>4, <1>5, <1>7, <1>8, <1>9, <1>10, HoldersBecome
<1>12. Counts'
  BY <1>3, <1>7, <1>11, CountsNext
<1>13. held' = HeldAt(l) /\ (held' # {} => pipe_id' \in Anon /\ round'[Shell] > 0)
  BY <1>3, <1>a
<1>14. ProgramsOK'
  BY <1>3, <1>8, <1>a, <1>13, ShellMoves DEF PipeInv
<1> QED BY <1>8, <1>12, <1>14 DEF PipeInv

-----------------------------------------------------------------------------
(* wait(), and create_process() with the descriptors of a pipe.            *)

\* A step that changes the processes, and the pipes of v besides.
LEMMA BooksMove ==
  ASSUME WaitInv', NEW A, NEW B, NEW v, Booked(v, A, B), sems' = v.s, pipes' = v.p,
         Readers' = A, Writers' = B
  PROVE  Counts'
<1>x. PICK x : x = World'
  OBVIOUS
<1>1. /\ x = [k |-> x.k, s |-> x.s, p |-> x.p]
      /\ x.k = Kernel' /\ x.s = v.s /\ x.p = v.p
  BY <1>x DEF World
<1>2. x.k \in KernelType /\ Counted(x.k)
  <2>1. Settled(Kernel)'
    BY DEF WaitInv, ProcInv, SchedInv
  <2>2. Settled(Kernel)' <=> Settled(Kernel')
    BY DEF Settled, KernelType, RunningSlots, Counted
  <2> QED BY <1>1, <2>1, <2>2 DEF Settled
<1>3. Booked(x, A, B)
  BY <1>1, <1>2 DEF Booked, Sound
<1>4. WorldBecomes(x)
  <2>1. KernelBecomes(Kernel')
    BY DEF KernelBecomes, Kernel
  <2> QED BY <1>1, <2>1 DEF WorldBecomes
<1> QED BY <1>3, <1>4, CountsNext

\* A step that leaves the pipes and whoever lives alone.
LEMMA BooksStay ==
  ASSUME PipeInv, WaitInv', UNCHANGED <<sems, pipes, file_descriptors, held, pipe_id>>,
         \A p \in Slots : Live(p)' <=> Live(p)
  PROVE  Counts'
<1>A. PICK A : A = Readers
  OBVIOUS
<1>B. PICK B : B = Writers
  OBVIOUS
<1>1. A \in EndSets /\ B \in EndSets /\ Booked(World, A, B)
  BY <1>A, <1>B, EndSetsNow DEF PipeInv, Counts
<1>2. Readers' = A /\ Writers' = B
  BY <1>1, <1>A, <1>B, HoldersAre, HoldersBecome
<1>3. sems' = World.s /\ pipes' = World.p
  BY DEF World
<1> QED BY <1>1, <1>2, <1>3, BooksMove

\* A slot that is emptied, and one that is given to a new process.
LEMMA SlotEmptied ==
  ASSUME SchedInv, NEW q \in Slots, q # Caller, ~Live(q),
         KernelBecomes(FreeKernel(Kernel, q))
  PROVE  state'[q] = "INVALID" /\ \A p \in Slots : Live(p)' <=> Live(p)
<1>1. Settled(Kernel) /\ Kernel.current_index = Caller /\ Kernel.state = state
  BY RunnerFacts DEF Kernel
<1> DEFINE r == FreeKernel(Kernel, q)
<1>2. /\ Settled(r) /\ r.state[q] = "INVALID"
      /\ \A p \in Slots \ {q} : r.state[p] = state[p]
  BY <1>1, FreeKernelFacts
<1> HIDE DEF r
<1>3. KernelBecomes(r)
  BY DEF r
<1>4. state' = r.state
  BY <1>2, <1>3, KernelNext
<1> QED BY <1>2, <1>4 DEF Live

LEMMA SlotFilled ==
  ASSUME SchedInv, NEW q \in Slots, q # Caller, KernelBecomes(NewKernel(Kernel, q))
  PROVE  /\ state'[q] = "READY" /\ Live(q)'
         /\ \A p \in Slots \ {q} : Live(p)' <=> Live(p)
<1>1. Settled(Kernel) /\ Kernel.current_index = Caller /\ Kernel.state = state
  BY RunnerFacts DEF Kernel
<1> DEFINE r == NewKernel(Kernel, q)
<1>2. /\ Settled(r) /\ r.state[q] = "READY"
      /\ \A p \in Slots \ {q} : r.state[p] = state[p]
  BY <1>1, NewKernelFacts
<1> HIDE DEF r
<1>3. KernelBecomes(r)
  BY DEF r
<1>4. state' = r.state
  BY <1>2, <1>3, KernelNext
<1> QED BY <1>2, <1>4 DEF Live

LEMMA WaitMovesNobody ==
  ASSUME PipeInv, NEW q, SysWait(q)
  PROVE  WaitInv' /\ \A p \in Slots : Live(p)' <=> Live(p)
<1>0. SchedInv /\ WaitInv /\ q \in Slots
  BY DEF PipeInv, WaitInv, ProcInv, SysWait, IsPidValid
<1>1. ProcInv'
  BY <1>0, ProcNextInv DEF ProcNext, WaitInv
<1>2. WaitInv'
  BY <1>0, <1>1, SysWaitWaits
<1>3. CASE state[q] = "ZOMBIE"
  <2>1. /\ KernelBecomes(FreeKernel(Kernel, q)) /\ q # Caller /\ ~Live(q)
    BY <1>3 DEF SysWait, Live
  <2> QED BY <1>0, <1>2, <2>1, SlotEmptied
<1>4. CASE state[q] # "ZOMBIE"
  BY <1>0, <1>2, <1>4, WaitStarts
<1> QED BY <1>3, <1>4

LEMMA WaitsStep ==
  ASSUME PipeInv, ShellWaitsA \/ ShellWaitsB
  PROVE  PipeInv'
<1>1. PICK here, l, who : /\ here \in {"wait_A", "wait_B"} /\ l \in {"wait_B", "prompt"}
                          /\ ShellWaits(here, l, who)
  BY DEF ShellWaitsA, ShellWaitsB
<1>2. Caller = Shell /\ held = {}
  <2>1. here \notin ProgramLabels /\ HeldAt(here) = {} /\ At(here)
    BY <1>1 DEF ProgramLabels, HeldAt, ShellWaits
  <2> QED BY <2>1, ShellAt
<1>3. /\ Goto(Shell, l)
      /\ SysWait(pid[who]) \/ UNCHANGED procVars
      /\ UNCHANGED <<sems, pipes, file_descriptors, call, held, pipe_id, round>>
  BY <1>1, <1>2 DEF ShellWaits, pipeVars
<1>4. l \in ShellLabels /\ HeldAt(l) = {}
  BY <1>1 DEF ShellLabels, HeldAt
<1>5. WaitInv' /\ Counts' /\ \A p \in Slots : Live(p)' <=> Live(p)
  <2>1. CASE SysWait(pid[who])
    <3>1. WaitInv' /\ \A p \in Slots : Live(p)' <=> Live(p)
      BY <2>1, WaitMovesNobody
    <3> QED BY <1>3, <3>1, BooksStay
  <2>2. CASE UNCHANGED procVars
    BY <1>3, <2>2, NothingStep
  <2> QED BY <1>3, <2>1, <2>2
<1>6. ProgramsOK'
  BY <1>2, <1>3, <1>4, <1>5, ShellMoves DEF PipeInv
<1> QED BY <1>5, <1>6 DEF PipeInv

LEMMA ReturnsStep ==
  ASSUME PipeInv, Returns
  PROVE  PipeInv'
<1>1. /\ WaitInv /\ SchedInv /\ WaitReturns
      /\ UNCHANGED <<sems, pipes, file_descriptors, call, held, pipe_id, round, pc>>
  BY DEF PipeInv, WaitInv, ProcInv, Returns, pipeVars, progVars
<1>2. ProcInv'
  BY <1>1, ProcNextInv DEF ProcNext, WaitInv
<1>3. WaitInv'
  BY <1>1, <1>2, ReturnWaits
<1>4. /\ Caller = SHELL_PID /\ waiting[SHELL_PID] \in Programs
      /\ state[waiting[SHELL_PID]] = "ZOMBIE"
  BY <1>1, ReturnFacts
<1>q. PICK q : q = waiting[SHELL_PID]
  OBVIOUS
<1>5. q \in Slots /\ q # Caller /\ ~Live(q) /\ KernelBecomes(FreeKernel(Kernel, q))
  BY <1>1, <1>4, <1>q, ShellIsNotIdle DEF WaitReturns, Live, Programs
<1>6. \A p \in Slots : Live(p)' <=> Live(p)
  BY <1>1, <1>5, SlotEmptied
<1>7. Counts'
  BY <1>1, <1>3, <1>6, BooksStay
<1>8. ProgramsOK'
  BY <1>1, <1>6, ProgramsStay DEF PipeInv
<1> QED BY <1>3, <1>7, <1>8 DEF PipeInv

\* The new process is at its first step, the shell at its next one.
LEMMA ProgramBegins ==
  ASSUME ProgramsOK, NEW q \in Programs, ~Live(q), Live(q)', NEW fd \in Fds,
         \A p \in Slots \ {q} : Live(p)' <=> Live(p),
         NEW l \in ShellLabels, HeldAt(l) = held, held # {},
         NEW start \in ProgramLabels,
         start = "write" => fd.out \in Anon, start = "read" => fd.in \in Anon,
         pc' = [pc EXCEPT ![Shell] = l, ![q] = start],
         round' = [round EXCEPT ![q] = round[Shell]],
         file_descriptors' = [file_descriptors EXCEPT ![q] = fd],
         UNCHANGED <<call, held, pipe_id>>
  PROVE  ProgramsOK'
<1>0. /\ q \in Slots /\ q # Shell /\ q # IDLE_PID /\ round[Shell] > 0 /\ pipe_id \in Anon
      /\ round[Shell] \in Nat
  BY ShellIsAProcess DEF Programs, Shell, ProgramsOK, ShellOK
<1>1. /\ pc' \in [Slots -> ShellLabels \cup ProgramLabels]
      /\ pc'[Shell] = l /\ pc'[q] = start
      /\ \A p \in Slots \ {Shell, q} : pc'[p] = pc[p]
  BY <1>0, ShellIsAProcess DEF ProgramsOK
<1>2. /\ round' \in [Slots -> Nat] /\ round'[q] = round[Shell]
      /\ \A p \in Slots \ {q} : round'[p] = round[p]
  BY <1>0 DEF ProgramsOK
<1>3. /\ file_descriptors' \in [Slots -> Fds] /\ file_descriptors'[q] = fd
      /\ \A p \in Slots \ {q} : file_descriptors'[p] = file_descriptors[p]
  BY <1>0 DEF ProgramsOK
<1>4. ShellOK'
  BY <1>0, <1>1, <1>2, <1>3, ShellIsAProcess, ShellIsNotIdle DEF ProgramsOK, ShellOK
<1>5. ASSUME NEW p \in Programs
      PROVE  ProgramOK(p)'
  <2>1. p \in Slots /\ p # Shell
    BY ShellIsAProcess DEF Programs
  <2>2. CASE p = q
    BY <1>0, <1>1, <1>2, <1>3, <2>2 DEF ProgramOK
  <2>3. CASE p # q
    BY <1>1, <1>2, <1>3, <2>1, <2>3 DEF ProgramsOK, ProgramOK
  <2> QED BY <2>2, <2>3
<1>6. \A p \in Slots : CallOK(call[p], file_descriptors'[p])
  <2>1. call[q].op = "none"
    BY DEF ProgramsOK, ProgramOK
  <2> QED BY <1>3, <2>1 DEF ProgramsOK, CallOK
<1>7. \A p \in Slots : CallOK(call[p], file_descriptors[p])'
  BY <1>6 DEF CallOK, CallShape
<1> QED BY <1>1, <1>2, <1>3, <1>4, <1>5, <1>7 DEF ProgramsOK

\* create_process() fails, and the slot that it chose is empty.
LEMMA ProgramFails ==
  ASSUME ProgramsOK, NEW q \in Programs, ~Live(q),
         \A p \in Slots : Live(p)' <=> Live(p),
         NEW l \in ShellLabels, HeldAt(l) = held,
         pc' = [pc EXCEPT ![Shell] = l, ![q] = "gone"],
         round' = [round EXCEPT ![q] = 0],
         UNCHANGED <<file_descriptors, call, held, pipe_id>>
  PROVE  ProgramsOK'
<1>0. q \in Slots /\ q # Shell /\ q # IDLE_PID /\ "gone" \in ProgramLabels
  BY DEF Programs, Shell, ProgramLabels
<1>1. /\ pc' \in [Slots -> ShellLabels \cup ProgramLabels]
      /\ pc'[Shell] = l /\ pc'[q] = "gone"
      /\ \A p \in Slots \ {Shell, q} : pc'[p] = pc[p]
  BY <1>0, ShellIsAProcess DEF ProgramsOK
<1>2. /\ round' \in [Slots -> Nat]
      /\ \A p \in Slots \ {q} : round'[p] = round[p]
  BY <1>0 DEF ProgramsOK
<1>4. ShellOK'
  BY <1>0, <1>1, <1>2, ShellIsAProcess, ShellIsNotIdle DEF ProgramsOK, ShellOK
<1>5. ASSUME NEW p \in Programs
      PROVE  ProgramOK(p)'
  <2>1. p \in Slots /\ p # Shell
    BY ShellIsAProcess DEF Programs
  <2>2. CASE p = q
    BY <1>0, <1>1, <2>2 DEF ProgramsOK, ProgramOK
  <2>3. CASE p # q
    BY <1>1, <1>2, <2>1, <2>3 DEF ProgramsOK, ProgramOK
  <2> QED BY <2>2, <2>3
<1> QED BY <1>1, <1>2, <1>4, <1>5 DEF ProgramsOK

\* create_process() with the descriptors of the command line's pipe, of which
\* the shell has both ends open.
LEMMA CreatesStep ==
  ASSUME PipeInv, NEW here, here \notin ProgramLabels, HeldAt(here) = Modes,
         NEW l \in ShellLabels, HeldAt(l) = Modes,
         NEW fd, fd \in [in : {STDIN, pipe_id}, out : {STDOUT, pipe_id}],
         NEW start \in ProgramLabels,
         start = "write" => fd.out = pipe_id, start = "read" => fd.in = pipe_id,
         NEW who, ShellCreates(here, l, fd, who, start)
  PROVE  PipeInv'
<1>m. "PIPE_READ_END" \in Modes /\ "PIPE_WRITE_END" \in Modes
  BY DEF Modes
<1>1. /\ Caller = Shell /\ held = Modes /\ held # {} /\ pipe_id \in Anon
      /\ round[Shell] > 0 /\ ~InCall /\ waiting[SHELL_PID] = NoPid
  <2>1. At(here)
    BY DEF ShellCreates
  <2> QED BY <1>m, <2>1, ShellAt
<1>2. /\ WaitInv /\ ProcInv /\ SchedInv /\ ProgramsOK /\ Counts
      /\ UNCHANGED <<pipe_id, held>> /\ fd \in Fds
  BY <1>1 DEF PipeInv, WaitInv, ProcInv, ShellCreates, Fds
<1>3. CASE FreeSlots(Kernel) = {}
  <2>1. /\ UNCHANGED <<procVars, sems, pipes, file_descriptors, call, round>>
        /\ Goto(Shell, l)
    BY <1>3 DEF ShellCreates, pipeVars
  <2>2. WaitInv' /\ Counts' /\ \A p \in Slots : Live(p)' <=> Live(p)
    BY <1>2, <2>1, NothingStep
  <2>3. ProgramsOK'
    BY <1>1, <1>2, <2>1, <2>2, ShellMoves
  <2> QED BY <2>2, <2>3 DEF PipeInv
<1>4. CASE FreeSlots(Kernel) # {}
  <2>q. PICK q : q = Least(FreeSlots(Kernel))
    OBVIOUS
  <2>1. /\ SysCreate
        /\ IF state'[q] = "READY"
           THEN /\ pipes' = RegisterFds(World, fd).p
                /\ file_descriptors' = [file_descriptors EXCEPT ![q] = fd]
           ELSE UNCHANGED <<pipes, file_descriptors>>
        /\ UNCHANGED <<sems, call>>
    BY <1>4, <2>q DEF ShellCreates, CreatePiped
  <2>2. /\ pc' = [pc EXCEPT ![Shell] = l, ![q] = IF state'[q] = "READY" THEN start ELSE "gone"]
        /\ round' = [round EXCEPT ![q] = IF state'[q] = "READY" THEN round[Shell] ELSE 0]
    BY <1>1, <1>4, <2>q DEF ShellCreates, R
  <2>3. q \in Programs /\ q \in Slots /\ q # Caller /\ q # Shell /\ ~Live(q)
    <3>1. FreeSlots(Kernel) \in SUBSET Nat
      BY DEF FreeSlots, Slots
    <3>2. q \in FreeSlots(Kernel)
      BY <1>4, <2>q, <3>1, LeastIsLeast
    <3>3. q \in Slots /\ ~Live(q)
      BY <3>2 DEF FreeSlots, Kernel, Live
    <3>4. IdleLives(Kernel) /\ Live(Shell)
      BY <1>2 DEF WaitInv, ProgramsOK, ShellOK
    <3>5. q # IDLE_PID /\ q # Shell
      BY <3>2, <3>3, <3>4 DEF FreeSlots, IdleLives
    <3> QED BY <1>1, <3>3, <3>5 DEF Programs, Shell
  <2>4. WaitInv'
    <3>1. ProcInv'
      BY <1>2, <2>1, ProcNextInv DEF ProcNext
    <3> QED BY <1>1, <1>2, <2>1, <3>1, CreateWaits DEF Shell
  <2>5. KernelBecomes(NewKernel(Kernel, q)) \/ KernelBecomes(FreeKernel(Kernel, q))
    BY <2>1, <2>q DEF SysCreate
  <2>6. CASE KernelBecomes(NewKernel(Kernel, q))
    <3>1. /\ state'[q] = "READY" /\ Live(q)'
          /\ \A p \in Slots \ {q} : Live(p)' <=> Live(p)
      BY <1>2, <2>3, <2>6, SlotFilled
    <3>v. PICK v : v = RegisterFds(World, fd)
      OBVIOUS
    <3>2. /\ pipes' = v.p /\ sems' = sems /\ call' = call
          /\ file_descriptors' = [file_descriptors EXCEPT ![q] = fd]
      BY <2>1, <3>1, <3>v
    <3>A. PICK A : A = Readers
      OBVIOUS
    <3>B. PICK B : B = Writers
      OBVIOUS
    <3>3. A \in EndSets /\ B \in EndSets /\ Booked(World, A, B)
      BY <1>2, <3>A, <3>B, EndSetsNow DEF Counts
    <3>4. \A i \in Anon, p \in Slots :
            /\ p \in A[i] <=> \/ Live(p) /\ file_descriptors[p].in = i
                              \/ (i = pipe_id /\ p = Shell)
            /\ p \in B[i] <=> \/ Live(p) /\ file_descriptors[p].out = i
                              \/ (i = pipe_id /\ p = Shell)
      BY <1>1, <1>m, <3>A, <3>B, HoldersAre
    <3>5. \A i \in Anon : /\ i = fd.in => World.p[i].is_in_use /\ q \notin A[i]
                          /\ i = fd.out => World.p[i].is_in_use /\ q \notin B[i] /\ B[i] # {}
      <4>1. Tallied(World.p[pipe_id], A[pipe_id], B[pipe_id])
        BY <1>1, <3>3 DEF Booked
      <4>2. Shell \in A[pipe_id] /\ Shell \in B[pipe_id]
        BY <1>1, <3>4, ShellIsAProcess
      <4>3. World.p[pipe_id].is_in_use
        BY <4>1, <4>2 DEF Tallied
      <4>4. \A i \in Anon : q \notin A[i] /\ q \notin B[i]
        BY <2>3, <3>4
      <4>5. \A i \in Anon : (i = fd.in \/ i = fd.out) => i = pipe_id
        BY DEF Anon, STDIN, STDOUT, STDERR
      <4> QED BY <4>2, <4>3, <4>4, <4>5
    <3>a. PICK a : a = More(A, fd.in, q)
      OBVIOUS
    <3>b. PICK b : b = More(B, fd.out, q)
      OBVIOUS
    <3>6. Booked(v, a, b) /\ v.s = World.s
      BY <1>2, <2>3, <3>3, <3>5, <3>a, <3>b, <3>v, FdsRegistered
    <3>7. a \in EndSets /\ b \in EndSets
      BY <2>3, <3>3, <3>a, <3>b DEF EndSets, Parties, More
    <3>8. \A i \in Anon, p \in Slots :
            /\ p \in a[i] <=> p \in A[i] \/ (i = fd.in /\ p = q)
            /\ p \in b[i] <=> p \in B[i] \/ (i = fd.out /\ p = q)
      BY <3>a, <3>b DEF More
    <3>9. /\ file_descriptors'[q] = fd
          /\ \A p \in Slots \ {q} : file_descriptors'[p] = file_descriptors[p]
      BY <1>2, <2>3, <3>2 DEF ProgramsOK
    <3>10. \A i \in Anon, p \in Slots :
             /\ p \in a[i] <=> \/ Live(p)' /\ file_descriptors'[p].in = i
                               \/ "PIPE_READ_END" \in held' /\ i = pipe_id' /\ p = Shell
             /\ p \in b[i] <=> \/ Live(p)' /\ file_descriptors'[p].out = i
                               \/ "PIPE_WRITE_END" \in held' /\ i = pipe_id' /\ p = Shell
      <4> SUFFICES ASSUME NEW i \in Anon, NEW p \in Slots
                   PROVE  /\ p \in a[i] <=> \/ Live(p)' /\ file_descriptors'[p].in = i
                                            \/ "PIPE_READ_END" \in held' /\ i = pipe_id' /\ p = Shell
                          /\ p \in b[i] <=> \/ Live(p)' /\ file_descriptors'[p].out = i
                                            \/ "PIPE_WRITE_END" \in held' /\ i = pipe_id' /\ p = Shell
        OBVIOUS
      <4>1. CASE p = q
        BY <1>1, <1>2, <1>m, <2>3, <3>1, <3>4, <3>8, <3>9, <4>1
      <4>2. CASE p # q
        BY <1>1, <1>2, <1>m, <3>1, <3>4, <3>8, <3>9, <4>2
      <4> QED BY <4>1, <4>2
    <3>11. Readers' = a /\ Writers' = b
      BY <3>7, <3>10, HoldersBecome
    <3>12. Counts'
      <4>1. sems' = v.s
        BY <3>2, <3>6 DEF World
      <4> QED BY <2>4, <3>2, <3>6, <3>11, <4>1, BooksMove
    <3>13. ProgramsOK'
      BY <1>1, <1>2, <2>2, <2>3, <3>1, <3>2, ProgramBegins
    <3> QED BY <2>4, <3>12, <3>13 DEF PipeInv
  <2>7. CASE KernelBecomes(FreeKernel(Kernel, q))
    <3>1. state'[q] # "READY" /\ \A p \in Slots : Live(p)' <=> Live(p)
      BY <1>2, <2>3, <2>7, SlotEmptied
    <3>2. UNCHANGED <<sems, pipes, file_descriptors, call, held, pipe_id>>
      BY <1>2, <2>1, <3>1
    <3>3. Counts'
      BY <2>4, <3>1, <3>2, BooksStay
    <3>4. ProgramsOK'
      BY <1>1, <1>2, <2>2, <2>3, <3>1, <3>2, ProgramFails
    <3> QED BY <2>4, <3>3, <3>4 DEF PipeInv
  <2> QED BY <2>5, <2>6, <2>7
<1> QED BY <1>3, <1>4

LEMMA CreatesProgramsStep ==
  ASSUME PipeInv, ShellCreatesA \/ ShellCreatesB
  PROVE  PipeInv'
<1>1. CASE ShellCreatesA
  <2>f. PICK fd : fd = [in |-> STDIN, out |-> pipe_id]
    OBVIOUS
  <2>1. ShellCreates("create_A", "create_B", fd, "A", "write")
    BY <1>1, <2>f DEF ShellCreatesA
  <2>2. /\ "create_A" \notin ProgramLabels /\ "create_B" \in ShellLabels
        /\ "write" \in ProgramLabels /\ "write" # "read"
        /\ HeldAt("create_A") = Modes /\ HeldAt("create_B") = Modes
    BY DEF ProgramLabels, ShellLabels, HeldAt
  <2>3. fd \in [in : {STDIN, pipe_id}, out : {STDOUT, pipe_id}] /\ fd.out = pipe_id
    BY <2>f
  <2> QED BY <2>1, <2>2, <2>3, CreatesStep
<1>2. CASE ShellCreatesB
  <2>f. PICK fd : fd = [in |-> pipe_id, out |-> STDOUT]
    OBVIOUS
  <2>s. PICK start : start = IF plan.drains THEN "read" ELSE "exit"
    OBVIOUS
  <2>1. ShellCreates("create_B", "close_read", fd, "B", start)
    BY <1>2, <2>f, <2>s DEF ShellCreatesB
  <2>2. /\ "create_B" \notin ProgramLabels /\ "close_read" \in ShellLabels
        /\ start \in ProgramLabels /\ start # "write"
        /\ HeldAt("create_B") = Modes /\ HeldAt("close_read") = Modes
    BY <2>s DEF ProgramLabels, ShellLabels, HeldAt
  <2>3. fd \in [in : {STDIN, pipe_id}, out : {STDOUT, pipe_id}] /\ fd.in = pipe_id
    BY <2>f
  <2> QED BY <2>1, <2>2, <2>3, CreatesStep
<1> QED BY <1>1, <1>2

-----------------------------------------------------------------------------
(* kill_process() of a program, after kill_pipes() has woken up whom it had *)
(* to.                                                                      *)

Zombie(k, p) == [k EXCEPT !.state[p] = "ZOMBIE"]

LEMMA ZombieFacts ==
  ASSUME NEW k, Coherent(k), NEW p \in Slots
  PROVE  /\ Coherent(Zombie(k, p)) /\ Zombie(k, p).state[p] = "ZOMBIE"
         /\ Zombie(k, p).blocks_amount = k.blocks_amount
         /\ \A q \in Slots \ {p} : Zombie(k, p).state[q] = k.state[q]
<1>1. k \in KernelType
  BY DEF Coherent
<1>2. Coherent([k EXCEPT !.state = [q \in Slots |-> IF q \in {p} THEN "ZOMBIE"
                                                    ELSE k.state[q]]])
  BY ZombiesCoherent
<1>3. [q \in Slots |-> IF q \in {p} THEN "ZOMBIE" ELSE k.state[q]]
        = [k.state EXCEPT ![p] = "ZOMBIE"]
  BY <1>1 DEF KernelType
<1>d. PICK d : d = Zombie(k, p)
  OBVIOUS
<1>4. d = [k EXCEPT !.state = [k.state EXCEPT ![p] = "ZOMBIE"]]
  BY <1>d DEF Zombie
<1>5. Coherent(d)
  BY <1>2, <1>3, <1>4
<1>6. d.state = [k.state EXCEPT ![p] = "ZOMBIE"] /\ d.blocks_amount = k.blocks_amount
  BY <1>1, <1>4 DEF KernelType
<1>7. d.state[p] = "ZOMBIE" /\ \A q \in Slots \ {p} : d.state[q] = k.state[q]
  BY <1>1, <1>6 DEF KernelType
<1> QED BY <1>d, <1>5, <1>6, <1>7

\* A sleeper that is woken up keeps its phase.
LEMMA WokenPhase ==
  ASSUME NEW k, NEW r, Woken(k, r), NEW q \in Slots
  PROVE  /\ r.state[q] \in {"READY", "RUNNING", "BLOCKED"}
              <=> k.state[q] \in {"READY", "RUNNING", "BLOCKED"}
         /\ r.state[q] = "INVALID" <=> k.state[q] = "INVALID"
         /\ r.state[q] = "ZOMBIE" <=> k.state[q] = "ZOMBIE"
<1>1. \/ r.state[q] = k.state[q]
      \/ k.state[q] = "BLOCKED" /\ r.state[q] = "READY"
  BY DEF Woken
<1> QED BY <1>1

LEMMA KernelAfter ==
  ASSUME NEW r, Settled(r), KernelBecomes(r)
  PROVE  Kernel' = r
BY DEF Kernel, KernelBecomes, Settled, KernelType

\* What dies is p, and the shell wakes up if it waits for it.
LEMMA DeathStates ==
  ASSUME WaitInv, NEW p \in Programs, Live(p),
         NEW k, Woken(Zombie(Kernel, p), k), KernelBecomes(KillKernel(k, Family, p))
  PROVE  /\ SchedInv' /\ IdleLives(Kernel)' /\ state'[p] = "ZOMBIE"
         /\ \A q \in Slots \ {p} : /\ Live(q)' <=> Live(q)
                                   /\ state'[q] = "INVALID" <=> state[q] = "INVALID"
         /\ dad_blocked[p] = 1 => state'[SHELL_PID] \in {"READY", "RUNNING"}
         /\ dad_blocked[p] # 1 =>
              /\ state'[SHELL_PID] = "BLOCKED" <=> state[SHELL_PID] = "BLOCKED"
              /\ state[SHELL_PID] \in {"READY", "RUNNING"}
                   => state'[SHELL_PID] \in {"READY", "RUNNING"}
              /\ blocks_amount'[SHELL_PID] = blocks_amount[SHELL_PID]
         /\ \A q \in Programs \ {p} : SleepsAlike(k, Kernel', q)
<1>0. /\ SchedInv /\ Coherent(Kernel) /\ IdleLives(Kernel)
      /\ Kernel.state = state /\ Kernel.blocks_amount = blocks_amount
      /\ Family.dad_blocked = dad_blocked /\ Family.parent_pid = parent_pid
  BY RunnerFacts, SettledCoherent, FamilyIs DEF WaitInv, ProcInv, Kernel
<1>p. /\ p \in Slots /\ p # SHELL_PID /\ p # IDLE_PID /\ p \in Slots \ {IDLE_PID}
      /\ SHELL_PID \in Slots \ {IDLE_PID} /\ SHELL_PID \notin Programs
      /\ IDLE_PID \in Slots
  BY ShellIsNotIdle DEF Programs
<1>d. PICK d : d = Zombie(Kernel, p)
  OBVIOUS
<1>1. /\ Coherent(d) /\ d.state[p] = "ZOMBIE" /\ d.blocks_amount = blocks_amount
      /\ \A q \in Slots \ {p} : d.state[q] = state[q]
  BY <1>0, <1>p, <1>d, ZombieFacts
<1>2. /\ k \in KernelType /\ Counted(k) /\ RunningSlots(k) = RunningSlots(d)
      /\ k.current_index = d.current_index
      /\ IdleLives(k) <=> IdleLives(d)
      /\ k.state[SHELL_PID] = d.state[SHELL_PID]
      /\ k.blocks_amount[SHELL_PID] = d.blocks_amount[SHELL_PID]
  BY <1>1, <1>d, <1>p, WokenFacts DEF Coherent, Woken
<1>3. Coherent(k) /\ IdleLives(k)
  BY <1>0, <1>1, <1>2, <1>p DEF Coherent, NoOtherRuns, IdleLives
<1>4. /\ k.state[p] = "ZOMBIE"
      /\ \A q \in Slots \ {p} : /\ k.state[q] \in {"READY", "RUNNING", "BLOCKED"} <=> Live(q)
                                /\ k.state[q] = "INVALID" <=> state[q] = "INVALID"
  BY <1>1, <1>d, <1>p, WokenPhase DEF Live
<1>5. /\ k.state[SHELL_PID] = state[SHELL_PID]
      /\ k.blocks_amount[SHELL_PID] = blocks_amount[SHELL_PID]
  BY <1>1, <1>2, <1>p
<1>6. WakesOnlyShell(k, Family, p)
  <2> SUFFICES ASSUME dad_blocked[p] = 1
               PROVE  /\ parent_pid[p] = SHELL_PID
                      /\ state[SHELL_PID] = "BLOCKED" /\ blocks_amount[SHELL_PID] = 1
    BY <1>0, <1>5, <1>p DEF WakesOnlyShell
  <2>1. Awaits(p)
    BY <1>p, ShellIsNotIdle DEF WaitInv
  <2> QED BY <2>1 DEF Awaits
<1>r. PICK r : r = KillKernel(k, Family, p)
  OBVIOUS
<1>7. /\ Settled(r) /\ IdleLives(r)
      /\ \A q \in Slots \ {IDLE_PID} : q \in Dying(k, p) => r.state[q] = "ZOMBIE"
      /\ \A q \in Slots \ {IDLE_PID} : q \notin Dying(k, p) =>
           IF Family.dad_blocked[p] = 1 /\ q = SHELL_PID
           THEN r.state[q] \in {"READY", "RUNNING"}
           ELSE Untouched(k, r, q)
  <2>1. Coherent(k) /\ IdleLives(k) /\ p \in Slots \ {IDLE_PID}
        /\ WakesOnlyShell(k, Family, p)
    BY <1>3, <1>6, <1>p
  <2> QED BY <1>r, <2>1, KillOutcome
<1>8. Dying(k, p) = {p}
  BY <1>p DEF Dying
<1>9. /\ state' = r.state /\ blocks_amount' = r.blocks_amount
      /\ IdleLives(Kernel)' /\ SchedInv'
  BY <1>7, <1>r, KernelNext
<1>10. state'[p] = "ZOMBIE"
  BY <1>7, <1>8, <1>9, <1>p
<1>11. ASSUME NEW q \in Slots \ {p}
       PROVE  /\ Live(q)' <=> Live(q)
              /\ state'[q] = "INVALID" <=> state[q] = "INVALID"
  <2>0. k.state[q] \in ProcessState /\ r.state[q] \in ProcessState
    BY <1>2, <1>7 DEF KernelType, Settled
  <2>1. CASE q = IDLE_PID
    <3>1. /\ k.state[q] \notin {"INVALID", "ZOMBIE"} /\ r.state[q] \notin {"INVALID", "ZOMBIE"}
      BY <1>3, <1>7, <2>1 DEF IdleLives
    <3> QED BY <1>4, <1>9, <2>0, <3>1 DEF Live, ProcessState
  <2>2. CASE q = SHELL_PID /\ dad_blocked[p] = 1
    <3>1. k.state[q] = "BLOCKED" /\ r.state[q] \in {"READY", "RUNNING"}
      BY <1>0, <1>6, <1>7, <1>8, <1>p, <2>2 DEF WakesOnlyShell
    <3> QED BY <1>4, <1>9, <3>1 DEF Live
  <2>3. CASE q # IDLE_PID /\ ~(q = SHELL_PID /\ dad_blocked[p] = 1)
    <3>1. Untouched(k, r, q)
      BY <1>0, <1>7, <1>8, <2>3
    <3> QED BY <1>4, <1>9, <2>0, <3>1 DEF Live, Untouched, ProcessState
  <2> QED BY <2>1, <2>2, <2>3
<1>12. dad_blocked[p] = 1 => state'[SHELL_PID] \in {"READY", "RUNNING"}
  BY <1>0, <1>7, <1>8, <1>9, <1>p
<1>13. ASSUME dad_blocked[p] # 1
       PROVE  /\ state'[SHELL_PID] = "BLOCKED" <=> state[SHELL_PID] = "BLOCKED"
              /\ state[SHELL_PID] \in {"READY", "RUNNING"}
                   => state'[SHELL_PID] \in {"READY", "RUNNING"}
              /\ blocks_amount'[SHELL_PID] = blocks_amount[SHELL_PID]
  <2>1. Untouched(k, r, SHELL_PID)
    BY <1>0, <1>7, <1>8, <1>13, <1>p
  <2> QED BY <1>5, <1>9, <2>1 DEF Untouched
<1>14. ASSUME NEW q \in Programs \ {p}
       PROVE  SleepsAlike(k, Kernel', q)
  <2>1. Untouched(k, r, q)
    BY <1>7, <1>8 DEF Programs
  <2>2. Kernel' = r
    BY <1>7, <1>r, KernelAfter
  <2> QED BY <2>1, <2>2 DEF SleepsAlike, Untouched
<1> QED BY <1>9, <1>10, <1>11, <1>12, <1>13, <1>14

LEMMA DeathWaits ==
  ASSUME WaitInv, NEW p \in Programs, Live(p),
         NEW k, Woken(Zombie(Kernel, p), k), KernelBecomes(KillKernel(k, Family, p)),
         FamilyBecomes(KillFamily(k, Family, p)),
         waiting' = [waiting EXCEPT ![p] = NoPid],
         dangling' = [dangling EXCEPT ![p] = FALSE]
  PROVE  WaitInv'
<1>w. PICK w : w = waiting[SHELL_PID]
  OBVIOUS
<1>0. /\ FamilyShape(Family) /\ ProcInv
      /\ waiting \in [Slots -> Slots \cup {NoPid}] /\ w \in Slots \cup {NoPid}
      /\ \A q \in Slots : waiting[q] # q
      /\ p \in Slots /\ p # SHELL_PID /\ SHELL_PID \in Slots /\ NoPid \notin Slots
  BY <1>w, FamilyIs, ShellIsNotIdle DEF WaitInv, ProcInv, Programs
<1>1. /\ SchedInv' /\ IdleLives(Kernel)' /\ state'[p] = "ZOMBIE"
      /\ \A q \in Slots \ {p} : /\ Live(q)' <=> Live(q)
                                /\ state'[q] = "INVALID" <=> state[q] = "INVALID"
      /\ dad_blocked[p] = 1 => state'[SHELL_PID] \in {"READY", "RUNNING"}
      /\ dad_blocked[p] # 1 =>
           /\ state'[SHELL_PID] = "BLOCKED" <=> state[SHELL_PID] = "BLOCKED"
           /\ state[SHELL_PID] \in {"READY", "RUNNING"}
                => state'[SHELL_PID] \in {"READY", "RUNNING"}
           /\ blocks_amount'[SHELL_PID] = blocks_amount[SHELL_PID]
  BY DeathStates
<1>g. PICK g : g = KillFamily(k, Family, p)
  OBVIOUS
<1>3. /\ FamilyShape(g)
      /\ \A q \in Programs : g.child_amount[q] = 0
      /\ g.dad_blocked = dad_blocked
      /\ \A q \in Slots : g.parent_pid[q] = parent_pid[q]
  <2>1. \A q \in Programs : Family.child_amount[q] = 0
    BY FamilyIs DEF WaitInv
  <2>2. Bereft(k, Family, g, p)
    BY <1>0, <1>g, <2>1, KillFamilyFacts
  <2>3. Family.dad_blocked = dad_blocked /\ Family.parent_pid = parent_pid
    BY FamilyIs
  <2> QED BY <2>2, <2>3 DEF Bereft
<1>4. /\ waiting' \in [Slots -> Slots \cup {NoPid}] /\ waiting'[SHELL_PID] = w
      /\ \A q \in Slots : waiting'[q] # q /\ (q # SHELL_PID => waiting'[q] = NoPid)
  BY <1>0, <1>w DEF WaitInv
<1>5. dangling' \in [Slots -> BOOLEAN] /\ \A q \in Slots : ~dangling'[q]
  BY DEF WaitInv, FamilyTypeOK
<1>6. /\ FamilyTypeOK' /\ child_amount' = g.child_amount
      /\ dad_blocked' = g.dad_blocked /\ parent_pid' = g.parent_pid
  BY <1>3, <1>5, <1>g, FamilyBecomesType
<1>7. ASSUME w # NoPid
      PROVE  Awaits(w)'
  <2>0. w \in Slots /\ Awaits(w)
    BY <1>0, <1>w, <1>7 DEF WaitInv
  <2>1. parent_pid'[w] = SHELL_PID /\ dad_blocked'[w] = 1
    BY <1>3, <1>6, <2>0 DEF Awaits
  <2>2. CASE dad_blocked[p] = 1
    <3>1. w = p
      BY <1>0, <1>w, <2>2 DEF WaitInv
    <3>2. ~Live(w)' /\ state'[w] # "INVALID"
      BY <1>1, <3>1 DEF Live
    <3> QED BY <1>1, <2>1, <2>2, <3>2 DEF Awaits
  <2>3. CASE dad_blocked[p] # 1
    <3>1. w # p
      BY <2>0, <2>3 DEF Awaits
    <3> QED BY <1>1, <2>0, <2>1, <2>3, <3>1 DEF Awaits
  <2> QED BY <2>2, <2>3
<1>8. waiting'[SHELL_PID] # NoPid => Awaits(waiting[SHELL_PID])'
  BY <1>4, <1>7 DEF Awaits, Live
<1>9. \A q \in Slots : dad_blocked'[q] = 1 => waiting'[SHELL_PID] = q
  BY <1>3, <1>4, <1>6, <1>w DEF WaitInv
<1>10. \A q \in Programs : child_amount'[q] = 0
  BY <1>3, <1>6
<1>11. ProcInv'
  BY <1>1, <1>4 DEF ProcInv
<1> QED BY <1>1, <1>4, <1>5, <1>6, <1>8, <1>9, <1>10, <1>11 DEF WaitInv

\* The world in which p is a zombie that still has its pipes.
Dead(p) == [k |-> Zombie(Kernel, p), s |-> sems, p |-> pipes]

LEMMA ZombieBooks ==
  ASSUME PipeInv, NEW p \in Programs, Live(p),
         NEW A, A = Readers, NEW B, B = Writers, NEW v, v = Dead(p)
  PROVE  /\ v.k = Zombie(Kernel, p) /\ v.s = sems /\ v.p = pipes
         /\ A \in EndSets /\ B \in EndSets /\ Booked(v, A, B)
         /\ KilledWorld(p) = KillPipes(v, file_descriptors[p])
         /\ \A i \in Anon : /\ i = file_descriptors[p].in => p \in A[i]
                            /\ i = file_descriptors[p].out => p \in B[i]
<1>1. /\ p \in Slots /\ SchedInv /\ Coherent(Kernel) /\ Kernel \in KernelType
      /\ A \in EndSets /\ B \in EndSets /\ Booked(World, A, B)
  BY SettledCoherent, EndSetsNow
     DEF PipeInv, WaitInv, ProcInv, SchedInv, Counts, Programs, Coherent
<1>2. World = [k |-> Kernel, s |-> sems, p |-> pipes]
  BY DEF World
<1>d. PICK d : d = Zombie(Kernel, p)
  OBVIOUS
<1>3. v = [k |-> d, s |-> sems, p |-> pipes]
  BY <1>d DEF Dead
<1>4. [World EXCEPT !.k.state[p] = "ZOMBIE"] = v
  BY <1>2, <1>3, <1>d DEF Zombie
<1>5. d \in KernelType /\ Counted(d)
  BY <1>1, <1>d, ZombieFacts DEF Coherent
<1>6. /\ v = [k |-> v.k, s |-> v.s, p |-> v.p]
      /\ v.k = d /\ v.s = sems /\ v.p = pipes
  BY <1>3
<1>7. World.s = sems /\ World.p = pipes
  BY <1>2
<1>8. Booked(v, A, B)
  BY <1>1, <1>5, <1>6, <1>7 DEF Booked, Sound
<1>9. \A i \in Anon : /\ i = file_descriptors[p].in => p \in A[i]
                      /\ i = file_descriptors[p].out => p \in B[i]
  BY <1>1, HoldersAre
<1>10. KilledWorld(p) = KillPipes(v, file_descriptors[p])
  BY <1>4 DEF KilledWorld
<1> QED BY <1>1, <1>6, <1>8, <1>9, <1>10, <1>d

\* kill_pipes() takes the dying process off the books.
LEMMA DeathBooks ==
  ASSUME PipeInv, NEW p \in Programs, Live(p),
         NEW A, A = Readers, NEW B, B = Writers, NEW w, w = KilledWorld(p)
  PROVE  /\ Booked(w, Less(A, file_descriptors[p].in, p), Less(B, file_descriptors[p].out, p))
         /\ Woken(Zombie(Kernel, p), w.k)
<1>v. PICK v : v = Dead(p)
  OBVIOUS
<1>f. PICK fd : fd = file_descriptors[p]
  OBVIOUS
<1>1. /\ v.k = Zombie(Kernel, p) /\ A \in EndSets /\ B \in EndSets /\ Booked(v, A, B)
      /\ w = KillPipes(v, fd)
      /\ \A i \in Anon : /\ i = fd.in => p \in A[i]
                         /\ i = fd.out => p \in B[i]
  BY <1>v, <1>f, ZombieBooks
<1>2. fd \in Fds /\ p \in Slots
  BY <1>f DEF PipeInv, ProgramsOK, Programs
<1>3. Booked(w, Less(A, fd.in, p), Less(B, fd.out, p)) /\ Woken(v.k, w.k)
  BY ONLY <1>1, <1>2, PipesKilled
<1> QED BY <1>1, <1>3, <1>f

LEMMA KillTells ==
  ASSUME PipeInv, NEW p \in Programs, KillPiped(p),
         NEW w, w = KilledWorld(p), NEW k, k = w.k
  PROVE  /\ Live(p) /\ Woken(Zombie(Kernel, p), k)
         /\ KernelBecomes(KillKernel(k, Family, p))
         /\ FamilyBecomes(KillFamily(k, Family, p))
         /\ sems' = w.s /\ pipes' = w.p
<1>r. PICK r : r = KillKernel(k, Family, p)
  OBVIOUS
<1>1. /\ WorldBecomes([w EXCEPT !.k = r])
      /\ FamilyBecomes(KillFamily(k, Family, p))
  BY <1>r DEF KillPiped
<1>2. Live(p)
  <2>1. IsPidValid(Kernel, p) /\ state[p] # "ZOMBIE" /\ SchedInv /\ p \in Slots
    BY DEF KillPiped, PipeInv, WaitInv, ProcInv, Programs
  <2> QED BY <2>1, PhaseOfSlot DEF IsPidValid, Kernel, Live, ProcessState
<1>3. \E A, B : Booked(w, A, B) /\ Woken(Zombie(Kernel, p), w.k)
  BY <1>2, DeathBooks
<1>4. w = [k |-> w.k, s |-> w.s, p |-> w.p]
  BY <1>3 DEF Booked, Sound
<1>x. PICK x : x = [w EXCEPT !.k = r]
  OBVIOUS
<1>5. x.k = r /\ x.s = w.s /\ x.p = w.p
  BY <1>4, <1>x
<1>6. KernelBecomes(r) /\ sems' = w.s /\ pipes' = w.p
  BY <1>1, <1>5, <1>x DEF WorldBecomes
<1> QED BY <1>1, <1>2, <1>3, <1>6, <1>r

LEMMA KillStep ==
  ASSUME PipeInv, NEW p \in Programs, KillPiped(p), Leaves(p)
  PROVE  PipeInv'
<1>f. PICK fd : fd = file_descriptors[p]
  OBVIOUS
<1>A. PICK A : A = Readers
  OBVIOUS
<1>B. PICK B : B = Writers
  OBVIOUS
<1>w. PICK w : w = KilledWorld(p)
  OBVIOUS
<1>1. /\ waiting' = [waiting EXCEPT ![p] = NoPid]
      /\ dangling' = [dangling EXCEPT ![p] = FALSE]
  BY DEF KillPiped
<1>2. /\ call' = [call EXCEPT ![p] = NoCall]
      /\ file_descriptors' = [file_descriptors EXCEPT ![p] = StandardFds]
      /\ pc' = [pc EXCEPT ![p] = "gone"] /\ round' = [round EXCEPT ![p] = 0]
      /\ UNCHANGED <<pipe_id, held>>
  BY DEF KillPiped, Leaves, Goto, StandardFds
<1>3. /\ WaitInv /\ SchedInv /\ ProgramsOK
      /\ p \in Slots /\ p # Shell /\ p # IDLE_PID
  BY DEF PipeInv, WaitInv, ProcInv, Programs, Shell
<1>a. PICK a : a = Less(A, fd.in, p)
  OBVIOUS
<1>b. PICK b : b = Less(B, fd.out, p)
  OBVIOUS
<1>k. PICK k : k = w.k
  OBVIOUS
<1>4. /\ Live(p) /\ Woken(Zombie(Kernel, p), k)
      /\ KernelBecomes(KillKernel(k, Family, p))
      /\ FamilyBecomes(KillFamily(k, Family, p))
      /\ sems' = w.s /\ pipes' = w.p
  BY <1>w, <1>k, KillTells
<1>5. Booked(w, a, b)
  BY <1>4, <1>f, <1>A, <1>B, <1>w, <1>a, <1>b, DeathBooks
<1>8. /\ state'[p] = "ZOMBIE"
      /\ \A q \in Slots \ {p} : Live(q)' <=> Live(q)
  BY <1>3, <1>4, DeathStates
<1>9. ~Live(p)'
  BY <1>8 DEF Live
<1>10. WaitInv'
  BY <1>1, <1>3, <1>4, DeathWaits
<1>11. /\ file_descriptors' \in [Slots -> Fds] /\ file_descriptors'[p] = StandardFds
       /\ \A q \in Slots \ {p} : file_descriptors'[q] = file_descriptors[q]
  BY <1>2, <1>3 DEF ProgramsOK, StandardFds, Fds
<1>12. \A i \in Anon, q \in Slots :
         /\ q \in a[i] <=> q \in A[i] /\ ~(i = fd.in /\ q = p)
         /\ q \in b[i] <=> q \in B[i] /\ ~(i = fd.out /\ q = p)
  BY <1>a, <1>b DEF Less
<1>13. a \in EndSets /\ b \in EndSets
  BY <1>3, <1>A, <1>B, <1>a, <1>b, EndSetsNow, EndsType
<1>14. Readers' = a /\ Writers' = b
  <2>1. ASSUME NEW i \in Anon, NEW q \in Slots
        PROVE  /\ q \in a[i] <=> \/ Live(q)' /\ file_descriptors'[q].in = i
                                 \/ "PIPE_READ_END" \in held' /\ i = pipe_id' /\ q = Shell
               /\ q \in b[i] <=> \/ Live(q)' /\ file_descriptors'[q].out = i
                                 \/ "PIPE_WRITE_END" \in held' /\ i = pipe_id' /\ q = Shell
    <3>1. /\ q \in A[i] <=> \/ Live(q) /\ file_descriptors[q].in = i
                            \/ "PIPE_READ_END" \in held /\ i = pipe_id /\ q = Shell
          /\ q \in B[i] <=> \/ Live(q) /\ file_descriptors[q].out = i
                            \/ "PIPE_WRITE_END" \in held /\ i = pipe_id /\ q = Shell
      BY <1>A, <1>B, HoldersAre
    <3>2. CASE q = p
      BY <1>3, <1>9, <1>12, <1>f, <3>1, <3>2
    <3>3. CASE q # p
      BY <1>2, <1>8, <1>11, <1>12, <3>1, <3>3
    <3> QED BY <3>2, <3>3
  <2> QED BY <1>13, <2>1, HoldersBecome
<1>15. Counts'
  BY <1>4, <1>5, <1>10, <1>14, BooksMove
<1>16. ProgramsOK'
  <2>1. /\ pc' \in [Slots -> ShellLabels \cup ProgramLabels] /\ pc'[p] = "gone"
        /\ \A q \in Slots \ {p} : pc'[q] = pc[q]
    BY <1>2, <1>3 DEF ProgramsOK, ProgramLabels
  <2>2. /\ round' \in [Slots -> Nat]
        /\ \A q \in Slots \ {p} : round'[q] = round[q]
    BY <1>2, <1>3 DEF ProgramsOK
  <2>n. PICK n : n = NoCall
    OBVIOUS
  <2>3. CallShape(n) /\ n.op = "none"
    BY <2>n DEF CallShape, NoCall
  <2>4. /\ call' = [q \in Slots |-> call'[q]] /\ call'[p] = n
        /\ \A q \in Slots \ {p} : call'[q] = call[q]
    BY <1>2, <1>3, <2>n DEF ProgramsOK
  <2>5. ShellOK'
    BY <1>2, <1>3, <1>8, <1>11, <2>1, <2>2, ShellIsAProcess, ShellIsNotIdle
       DEF ProgramsOK, ShellOK
  <2>6. ASSUME NEW q \in Programs
        PROVE  ProgramOK(q)'
    <3>1. q \in Slots
      BY DEF Programs
    <3>2. CASE q = p
      BY <1>9, <2>1, <2>3, <2>4, <3>2 DEF ProgramOK, ProgramLabels
    <3>3. CASE q # p
      BY <1>3, <1>8, <1>11, <2>1, <2>2, <2>4, <3>1, <3>3 DEF ProgramsOK, ProgramOK
    <3> QED BY <3>2, <3>3
  <2>7. ASSUME NEW q \in Slots
        PROVE  CallOK(call[q], file_descriptors[q])'
    <3>1. CASE q = p
      BY <2>3, <2>4, <3>1 DEF CallOK, CallShape
    <3>2. CASE q # p
      <4>1. CallOK(call[q], file_descriptors[q])
        BY <1>3 DEF ProgramsOK
      <4> QED BY <1>11, <2>4, <3>2, <4>1 DEF CallOK, CallShape
    <3> QED BY <3>1, <3>2
  <2> QED BY <1>11, <2>1, <2>2, <2>4, <2>5, <2>6, <2>7 DEF ProgramsOK
<1> QED BY <1>10, <1>15, <1>16 DEF PipeInv

LEMMA DeathStep ==
  ASSUME PipeInv, ProgramExits \/ \E p \in Slots \ {Shell} : UserKills(p)
  PROVE  PipeInv'
<1>1. CASE ProgramExits
  <2>1. /\ At("exit") /\ Caller # Shell /\ KillPiped(Caller) /\ Leaves(Caller)
    BY <1>1 DEF ProgramExits
  <2>2. Caller \in Programs
    BY <2>1, CallerIs DEF At, InUser
  <2> QED BY <2>1, <2>2, KillStep
<1>2. ASSUME NEW p \in Slots \ {Shell}, UserKills(p)
      PROVE  PipeInv'
  <2>1. round[p] > 0 /\ KillPiped(p) /\ Leaves(p)
    BY <1>2 DEF UserKills
  <2>2. p \in Programs
    BY <2>1 DEF PipeInv, ProgramsOK, ShellOK, Programs, Shell
  <2> QED BY <2>1, <2>2, KillStep
<1> QED BY <1>1, <1>2

-----------------------------------------------------------------------------
(* The invariant.                                                          *)

\* Before the first command line there is no pipe.
LEMMA PipeInitInv ==
  ASSUME PipelineInit
  PROVE  PipeInv
<1>1. /\ ProcInit
      /\ sems = [n \in SemNames |-> NoSem]
      /\ pipes = [i \in PipeIds |-> [NoPipe EXCEPT !.is_in_use = i <= STDERR]]
      /\ file_descriptors = [p \in Slots |-> StandardFds]
      /\ call = [p \in Slots |-> NoCall]
      /\ pc = [p \in Slots |-> IF p = Shell THEN "prompt" ELSE "gone"]
      /\ round = [p \in Slots |-> 0]
      /\ held = {}
  BY DEF PipelineInit, PipelineStart, SemInit, PipeInit, StandardFds
<1>2. WaitInv /\ SchedInv
  BY <1>1, WaitInitInv DEF WaitInv, ProcInv
<1>3. /\ state[SHELL_PID] = "RUNNING"
      /\ \A p \in Programs : state[p] = "INVALID"
  <2>1. /\ FirstProc = SHELL_PID /\ SHELL_PID # IDLE_PID
        /\ state = [p \in Slots |-> CASE p = IDLE_PID -> "BLOCKED"
                                      [] p = FirstProc -> "RUNNING"
                                      [] p \in Procs \ {FirstProc} -> "READY"
                                      [] OTHER         -> "INVALID"]
    BY <1>1, FirstIsAClient, ShellAssumption, ShellIsNotIdle DEF ProcInit, SchedInit
  <2> QED BY <2>1, ShellAssumption, ShellIsNotIdle DEF Programs
<1>4. Live(Shell) /\ \A p \in Programs : ~Live(p)
  BY <1>3 DEF Live, Shell
<1>f. PICK f : f = StandardFds
  OBVIOUS
<1>5. f \in Fds /\ \A i \in Anon : f.in # i /\ f.out # i
  BY <1>f, StandardIsNoPipe DEF Fds, StandardFds
<1>n. PICK n : n = NoCall
  OBVIOUS
<1>6. CallShape(n) /\ n.op = "none"
  BY <1>n DEF CallShape, NoCall
<1>7. \A p \in Slots : /\ file_descriptors[p] = f /\ call[p] = n /\ round[p] = 0
                       /\ pc[p] = IF p = Shell THEN "prompt" ELSE "gone"
  BY <1>1, <1>f, <1>n
<1>8. ProgramsOK
  <2>1. ShellOK
    BY <1>1, <1>4, <1>7, <1>f, ShellIsAProcess, ShellIsNotIdle
       DEF ShellOK, ShellLabels, HeldAt, Shell
  <2>2. \A p \in Programs : ProgramOK(p)
    BY <1>4, <1>6, <1>7, ShellIsAProcess DEF ProgramOK, ProgramLabels, Programs
  <2>3. \A p \in Slots : CallOK(call[p], file_descriptors[p])
    BY <1>6, <1>7 DEF CallOK
  <2>4. /\ pc \in [Slots -> ShellLabels \cup ProgramLabels]
        /\ round \in [Slots -> Nat] /\ file_descriptors \in [Slots -> Fds]
        /\ call = [p \in Slots |-> call[p]]
    BY <1>1, <1>5, <1>f DEF ShellLabels, ProgramLabels
  <2> QED BY <2>1, <2>2, <2>3, <2>4 DEF ProgramsOK
<1>9. Sound(World)
  <2>1. Kernel \in KernelType /\ Counted(Kernel)
    BY <1>2 DEF SchedInv, Settled
  <2>2. sems \in SemTables /\ \A m \in SemNames : ~sems[m].initialized
    <3>1. NoSem \in SemRecord /\ ~NoSem.initialized
      BY EmptySeq DEF NoSem, SemRecord
    <3> QED BY <1>1, <3>1 DEF SemTables
  <2>3. \A i \in PipeIds : PipeShape(pipes[i]) /\ (pipes[i].is_in_use <=> i <= STDERR)
    <3> SUFFICES ASSUME NEW i \in PipeIds
                 PROVE  PipeShape(pipes[i]) /\ (pipes[i].is_in_use <=> i <= STDERR)
      OBVIOUS
    <3>b. PICK b : b = (i <= STDERR)
      OBVIOUS
    <3>x. PICK x : x = NoPipe
      OBVIOUS
    <3>1. PipeShape(x)
      BY <3>x DEF PipeShape, NoPipe
    <3>2. pipes[i] = [x EXCEPT !.is_in_use = b]
      BY <1>1, <3>b, <3>x
    <3>3. PipeShape(pipes[i]) /\ pipes[i].is_in_use = b
      BY <3>1, <3>2 DEF PipeShape
    <3> QED BY <3>b, <3>3
  <2>4. PipesShape(pipes)
    BY <1>1, <2>3 DEF PipesShape
  <2>5. AllMatched(sems, pipes)
    <3>1. ASSUME NEW i \in Anon
          PROVE  Matched(sems, pipes[i], i)
      <4>1. i \in PipeIds /\ ~(i <= STDERR) /\ SemsOf(i) \subseteq SemNames
        BY NamesOfPipe DEF Anon, PipeIds, STDERR
      <4> QED BY <2>2, <2>3, <4>1 DEF Matched
    <3>2. \A i \in PipeIds \ Anon : i <= STDERR
      BY DEF Anon, PipeIds, STDERR
    <3> QED BY <2>2, <2>3, <3>1, <3>2 DEF AllMatched
  <2>w. PICK w : w = World
    OBVIOUS
  <2>6. /\ w = [k |-> w.k, s |-> w.s, p |-> w.p]
        /\ w.k = Kernel /\ w.s = sems /\ w.p = pipes
    BY <2>w DEF World
  <2>7. Sound(w)
    BY <2>1, <2>2, <2>4, <2>5, <2>6 DEF Sound
  <2> QED BY <2>7, <2>w
<1>10. Counts
  <2>1. ASSUME NEW i \in Anon
        PROVE  Tallied(World.p[i], Readers[i], Writers[i])
    <3>1. Readers[i] = {} /\ Writers[i] = {}
      BY <1>1, <1>5, <1>7, HoldersAre
    <3>2. ~World.p[i].is_in_use
      <4>1. pipes[i].is_in_use <=> i <= STDERR
        <5>b. PICK b : b = (i <= STDERR)
          OBVIOUS
        <5>1. i \in PipeIds
          BY DEF Anon
        <5>2. pipes[i] = [NoPipe EXCEPT !.is_in_use = b]
          BY <1>1, <5>1, <5>b
        <5>3. pipes[i].is_in_use = b
          BY <5>2 DEF NoPipe
        <5> QED BY <5>3, <5>b
      <4>2. ~(i <= STDERR)
        BY DEF Anon, PipeIds, STDERR
      <4> QED BY <4>1, <4>2 DEF World
    <3> QED BY <3>1, <3>2 DEF Tallied
  <2> QED BY <1>9, <2>1 DEF Counts, Booked
<1> QED BY <1>2, <1>8, <1>10 DEF PipeInv

LEMMA PipeStutters ==
  ASSUME PipeInv, UNCHANGED pipelineVars
  PROVE  PipeInv'
<1>1. /\ UNCHANGED <<procVars, sems, pipes, file_descriptors, held, pipe_id>>
      /\ UNCHANGED <<pc, round, call>>
  BY DEF pipelineVars, pipeVars, progVars
<1>2. WaitInv' /\ Counts' /\ \A p \in Slots : Live(p)' <=> Live(p)
  BY <1>1, NothingStep
<1>3. ProgramsOK'
  BY <1>1, <1>2, ProgramsStay DEF PipeInv
<1> QED BY <1>2, <1>3 DEF PipeInv

\* Every step of the command lines, by the action it is.
LEMMA PipeNextInv == PipeInv /\ [PipelineNext]_pipelineVars => PipeInv'
<1> SUFFICES ASSUME PipeInv, [PipelineNext]_pipelineVars
             PROVE  PipeInv'
  OBVIOUS
<1>1. CASE ShellCreatesPipe
  BY <1>1, CreatesPipeStep
<1>2. CASE ShellCreatesA \/ ShellCreatesB
  BY <1>2, CreatesProgramsStep
<1>3. CASE ShellClosesRead
  BY <1>3, ClosesReadStep
<1>4. CASE ShellClosesWrite
  BY <1>4, ClosesWriteStep
<1>5. CASE ShellWaitsA \/ ShellWaitsB
  BY <1>5, WaitsStep
<1>6. CASE Returns
  BY <1>6, ReturnsStep
<1>7. CASE ShellYields
  BY <1>7, YieldStep
<1>8. CASE ShellSleeps
  BY <1>8, SleepStep
<1>9. CASE WriterWrites \/ WriterEnds \/ ReaderReads
  BY <1>9, OwnSteps
<1>10. CASE WriteSleeps \/ ReadSleeps
  BY <1>10, FallsAsleepStep
<1>11. CASE WriteGoesOn
  BY <1>11, WriteStep
<1>12. CASE ReadGoesOn
  BY <1>12, ReadStep
<1>13. CASE ProgramExits \/ \E p \in Slots \ {Shell} : UserKills(p)
  BY <1>13, DeathStep
<1>14. CASE PipelineTick
  BY <1>14, TickStep
<1>15. CASE UNCHANGED pipelineVars
  BY <1>15, PipeStutters
<1> QED BY <1>1, <1>2, <1>3, <1>4, <1>5, <1>6, <1>7, <1>8, <1>9, <1>10, <1>11, <1>12,
           <1>13, <1>14, <1>15 DEF PipelineNext, UserStep

LEMMA PipeInvHolds == PipelineSpec => []PipeInv
<1>1. PipelineInit => PipeInv
  BY PipeInitInv
<1> QED BY <1>1, PipeNextInv, PTL DEF PipelineSpec

-----------------------------------------------------------------------------
(* What it says of the pipes.                                              *)

\* The counts of an anonymous pipe are those of its holders, whatever command
\* lines are typed and whoever is killed, and whenever: pipe_register(),
\* pipe_close() and kill_pipes() of pipes.c and proc.c count every opening once
\* and every closing once, so a pipe is freed with its last holder, and EOF is
\* signalled when, and only when, nobody is left to write.
THEOREM PipesCountTheirHolders == PipelineSpec => []CountsAgree
<1>1. PipeInv => CountsAgree
  <2> SUFFICES ASSUME PipeInv, NEW i \in PipesInUse
               PROVE  LET r == Cardinality(Holders(i, "PIPE_READ_END"))
                          w == Cardinality(Holders(i, "PIPE_WRITE_END"))
                      IN /\ pipes[i].read_open_count = r
                         /\ pipes[i].write_open_count = w
                         /\ pipes[i].ref_count = r + w /\ r + w > 0
                         /\ pipes[i].eof_signaled <=> w = 0
    BY DEF CountsAgree
  <2>1. i \in Anon /\ pipes[i].is_in_use
    BY DEF PipesInUse, Anon
  <2>a. PICK a : a = Holders(i, "PIPE_READ_END")
    OBVIOUS
  <2>b. PICK b : b = Holders(i, "PIPE_WRITE_END")
    OBVIOUS
  <2>2. a = Readers[i] /\ b = Writers[i]
    BY <2>1, <2>a, <2>b DEF Readers, Writers
  <2>3. Tallied(pipes[i], a, b)
    BY <2>1, <2>2 DEF PipeInv, Counts, Booked, World
  <2>4. a \subseteq Slots /\ b \subseteq Slots
    BY <2>1, <2>2, HoldersAre
  <2>5. /\ IsFiniteSet(a) /\ Cardinality(a) \in Nat /\ (Cardinality(a) = 0 <=> a = {})
        /\ IsFiniteSet(b) /\ Cardinality(b) \in Nat /\ (Cardinality(b) = 0 <=> b = {})
    <3>1. IsFiniteSet(a) /\ IsFiniteSet(b)
      BY <2>4, SlotsFinite, FS_Subset
    <3> QED BY <3>1, FS_CardinalityType, FS_EmptySet
  <2>6. /\ pipes[i].read_open_count = Cardinality(a)
        /\ pipes[i].write_open_count = Cardinality(b)
        /\ pipes[i].ref_count = Cardinality(a) + Cardinality(b)
        /\ Cardinality(a) + Cardinality(b) > 0
        /\ pipes[i].eof_signaled <=> Cardinality(b) = 0
    <3>1. a # {} \/ b # {}
      BY <2>1, <2>3 DEF Tallied
    <3>2. Cardinality(a) + Cardinality(b) > 0
      BY <2>5, <3>1
    <3> QED BY <2>1, <2>3, <2>5, <3>2 DEF Tallied
  <2> QED BY <2>6, <2>a, <2>b
<1> QED BY <1>1, PipeInvHolds, PTL

\* When the shell has closed its ends and every program of its command lines
\* is gone, no anonymous pipe is left in the table of pipes.c, and none of the
\* semaphores that create_pipe_object() opened: no end of a pipe is forgotten,
\* by a failure of create_process() or a kill in the middle of a call either.
THEOREM PipesLeaveNothing == PipelineSpec => []NothingKept
<1>1. PipeInv => NothingKept
  <2> SUFFICES ASSUME PipeInv, Idle, NEW i \in PipeIds
               PROVE  /\ i > STDERR => ~pipes[i].is_in_use \/ pipes[i].is_named
                      /\ \A n \in SemsOf(i) \cap SemNames : ~sems[n].initialized
    BY DEF NothingKept, SemsOf, Lock, Items, Space
  <2>1. ProgramsOK /\ Counts /\ AllMatched(sems, pipes)
    BY DEF PipeInv, Counts, Booked, Sound, World
  <2>2. CASE i \in Anon
    <3>1. ASSUME NEW p \in Slots
          PROVE  p \notin Readers[i] /\ p \notin Writers[i]
      <4>1. CASE p = Shell \/ p = IDLE_PID
        <5>1. file_descriptors[p] = StandardFds
          BY <2>1, <4>1 DEF ProgramsOK, ShellOK
        <5> QED BY <2>2, <5>1, HoldersAre, StandardIsNoPipe DEF Idle
      <4>2. CASE p # Shell /\ p # IDLE_PID
        <5>1. p \in Programs
          BY <4>2 DEF Programs, Shell
        <5>2. ~Live(p)
          BY <2>1, <4>2, <5>1 DEF ProgramsOK, ProgramOK, Idle
        <5> QED BY <2>2, <5>2, HoldersAre DEF Idle
      <4> QED BY <4>1, <4>2
    <3>2. Readers[i] = {} /\ Writers[i] = {}
      BY <2>2, <3>1, HoldersAre
    <3>3. ~pipes[i].is_in_use
      BY <2>1, <2>2, <3>2 DEF Counts, Booked, Tallied, World
    <3>4. \A n \in SemsOf(i) : ~sems[n].initialized
      BY <2>1, <2>2, <3>3 DEF AllMatched, Matched
    <3> QED BY <3>3, <3>4
  <2>3. CASE i \notin Anon
    BY <2>1, <2>3 DEF AllMatched, Anon
  <2> QED BY <2>2, <2>3
<1> QED BY <1>1, PipeInvHolds, PTL

\* Whenever a process has left the kernel, the lock of every pipe is free: the
\* ways out of pipe_read(), pipe_write() and pipe_close() give it back, so that
\* no process sleeps on it and a kill never takes it away.
THEOREM PipeLocksAreFree == PipelineSpec => []LockIsFree
<1>1. PipeInv => LockIsFree
  <2> SUFFICES ASSUME PipeInv, NEW i \in PipesInUse
               PROVE  /\ sems[LockOf(pipes[i])].initialized
                      /\ sems[LockOf(pipes[i])].value > 0
    BY DEF LockIsFree
  <2>1. i \in Anon /\ i \in PipeIds /\ pipes[i].is_in_use
    BY DEF PipesInUse, Anon
  <2>2. Matched(sems, pipes[i], i)
    BY <2>1 DEF PipeInv, Counts, Booked, Sound, AllMatched, World
  <2>3. pipes[i].name = AnonName(i)
    BY <2>1, <2>2 DEF Matched
  <2>4. LockOf(pipes[i]) = Lock(i)
    BY <2>1, <2>3, NamesKnown
  <2> QED BY <2>1, <2>2, <2>4 DEF Matched, SemsOf
<1> QED BY <1>1, PipeInvHolds, PTL

-----------------------------------------------------------------------------
(* The ring and the history of its bytes: those sent and those got.        *)

Shaped(s) == s \in Seq({s[j] : j \in DOMAIN s})

OnWay(s, g) == Len(s) - Len(g)

LEMMA OnWayIs ==
  ASSUME NEW s, NEW g, NEW m, m = Len(s), NEW n, n = Len(g)
  PROVE  OnWay(s, g) = m - n
BY Zenon DEF OnWay

\* What was got is what was sent first, and the ring has room for the rest.
Kept(s, g) == /\ Shaped(s) /\ Shaped(g)
              /\ OnWay(s, g) \in 0 .. PIPE_BUFFER_SIZE
              /\ \A j \in DOMAIN g : g[j] = s[j]

Wrap(j) == IF j < PIPE_BUFFER_SIZE THEN j ELSE j - PIPE_BUFFER_SIZE

\* The bytes on their way are in the ring, in their order.
Ring(x, s, g) ==
  /\ DOMAIN x.buffer = Places
  /\ x.read_index \in Places
  /\ x.write_index = Wrap(x.read_index + OnWay(s, g))
  /\ \A j \in 0 .. OnWay(s, g) - 1 : x.buffer[Wrap(x.read_index + j)] = s[Len(g) + j + 1]

LEMMA NextPlace ==
  ASSUME NEW j \in Places
  PROVE  (j + 1) % PIPE_BUFFER_SIZE = Wrap(j + 1) /\ Wrap(j + 1) \in Places
<1>1. PIPE_BUFFER_SIZE \in Nat /\ PIPE_BUFFER_SIZE > 0 /\ j \in Nat /\ j < PIPE_BUFFER_SIZE
  BY PipeAssumption DEF Places
<1>2. CASE j + 1 < PIPE_BUFFER_SIZE
  <2>1. (j + 1) % PIPE_BUFFER_SIZE = j + 1
    BY <1>1, <1>2
  <2> QED BY <1>1, <1>2, <2>1 DEF Wrap, Places
<1>3. CASE j + 1 = PIPE_BUFFER_SIZE
  <2>1. (j + 1) % PIPE_BUFFER_SIZE = 0
    BY <1>1, <1>3
  <2> QED BY <1>1, <1>3, <2>1 DEF Wrap, Places
<1> QED BY <1>1, <1>2, <1>3

LEMMA ShapedFacts ==
  ASSUME NEW s, Shaped(s)
  PROVE  Len(s) \in Nat /\ DOMAIN s = 1 .. Len(s)
BY LenProperties DEF Shaped

\* A sequence of any length, by its places.
LEMMA ShapedBy ==
  ASSUME NEW n \in Nat, NEW s, s = [j \in 1 .. n |-> s[j]]
  PROVE  Shaped(s)
<1> DEFINE S == {s[j] : j \in DOMAIN s}
<1>1. DOMAIN s = 1 .. n
  OBVIOUS
<1>2. s \in [1 .. n -> S]
  BY <1>1
<1> HIDE DEF S
<1>3. s \in Seq(S)
  BY <1>2, SeqDef
<1> QED BY <1>3 DEF Shaped, S

Longer(s, t, e) ==
  /\ Shaped(t) /\ Len(t) = Len(s) + 1 /\ t[Len(s) + 1] = e
  /\ \A j \in DOMAIN s : t[j] = s[j]

LEMMA ShapedAppend ==
  ASSUME NEW s, Shaped(s), NEW e
  PROVE  Longer(s, Append(s, e), e)
<1> SUFFICES ASSUME NEW t, t = Append(s, e)
             PROVE  Longer(s, t, e)
  OBVIOUS
<1> SUFFICES /\ Shaped(t) /\ Len(t) = Len(s) + 1 /\ t[Len(s) + 1] = e
             /\ \A j \in DOMAIN s : t[j] = s[j]
  BY DEF Longer
<1>1. PICK S : S = {s[j] : j \in DOMAIN s} \cup {e}
  OBVIOUS
<1>2. Len(s) \in Nat /\ DOMAIN s = 1 .. Len(s)
  BY ShapedFacts
<1>3. s = [j \in 1 .. Len(s) |-> s[j]]
  BY <1>2, LenProperties DEF Shaped
<1>4. s \in [1 .. Len(s) -> S]
  BY <1>1, <1>2, <1>3
<1>5. s \in Seq(S)
  BY <1>2, <1>4, SeqDef
<1>6. e \in S
  BY <1>1
<1>7. /\ t \in Seq(S) /\ Len(t) = Len(s) + 1 /\ t[Len(s) + 1] = e
      /\ \A j \in 1 .. Len(s) : t[j] = s[j]
  BY <1>5, <1>6, AppendProperties
<1>8. t = [j \in 1 .. Len(t) |-> t[j]]
  BY <1>7, LenProperties
<1>9. Len(t) \in Nat
  BY <1>2, <1>7
<1>10. Shaped(t)
  BY <1>8, <1>9, ShapedBy
<1> QED BY <1>2, <1>7, <1>10

\* Steps around the ring.
LEMMA WrapSteps ==
  ASSUME NEW r \in Places, NEW d \in 0 .. PIPE_BUFFER_SIZE
  PROVE  /\ Wrap(r + 0) = r /\ Wrap(r + d) \in Places
         /\ Wrap(r + d) = r <=> d \in {0, PIPE_BUFFER_SIZE}
         /\ Wrap(Wrap(r + d) + 1) = Wrap(r + (d + 1)) \/ d = PIPE_BUFFER_SIZE
         /\ d > 0 => Wrap(r + d) = Wrap(Wrap(r + 1) + (d - 1))
         /\ d < PIPE_BUFFER_SIZE =>
              \A j \in 0 .. d - 1 : Wrap(r + j) \in Places /\ Wrap(r + j) # Wrap(r + d)
         /\ \A j \in 0 .. d - 2 : Wrap(Wrap(r + 1) + j) = Wrap(r + (j + 1))
<1>1. PIPE_BUFFER_SIZE \in Nat /\ PIPE_BUFFER_SIZE > 0
  BY PipeAssumption
<1> QED BY <1>1 DEF Wrap, Places

\* The empty ring of a new pipe.
LEMMA RingNew ==
  ASSUME NEW x, DOMAIN x.buffer = Places, x.read_index = 0, x.write_index = 0
  PROVE  Ring(x, <<>>, <<>>) /\ Kept(<<>>, <<>>)
<1>1. PIPE_BUFFER_SIZE \in Nat /\ PIPE_BUFFER_SIZE > 0
  BY PipeAssumption
<1>2. Len(<<>>) = 0 /\ DOMAIN <<>> = 1 .. 0
  OBVIOUS
<1>3. <<>> = [j \in 1 .. 0 |-> <<>>[j]]
  OBVIOUS
<1>4. Shaped(<<>>)
  BY <1>3, ShapedBy
<1>5. OnWay(<<>>, <<>>) = 0
  BY <1>2 DEF OnWay
<1> QED BY <1>1, <1>2, <1>4, <1>5 DEF Ring, Kept, Wrap, Places

\* An index that meets the other one: the ring is empty, or full.
LEMMA RingLooksEmpty ==
  ASSUME NEW x, NEW s, NEW g, Kept(s, g), Ring(x, s, g)
  PROVE  LooksEmpty(x) <=> OnWay(s, g) \in {0, PIPE_BUFFER_SIZE}
<1>1. PICK d : d = OnWay(s, g)
  OBVIOUS
<1>2. d \in 0 .. PIPE_BUFFER_SIZE
  BY <1>1 DEF Kept
<1>3. x.read_index \in Places /\ x.write_index = Wrap(x.read_index + d)
  BY <1>1 DEF Ring
<1>4. Wrap(x.read_index + d) = x.read_index <=> d \in {0, PIPE_BUFFER_SIZE}
  BY <1>2, <1>3, WrapSteps
<1> QED BY <1>1, <1>3, <1>4 DEF LooksEmpty

\* A byte more in the ring.
LEMMA RingWritten ==
  ASSUME NEW x, NEW s, NEW g, Kept(s, g), Ring(x, s, g), OnWay(s, g) # PIPE_BUFFER_SIZE,
         NEW b, NEW t, Longer(s, t, b), NEW y, WithByte(x, y, b)
  PROVE  Kept(t, g) /\ Ring(y, t, g) /\ OnWay(t, g) = OnWay(s, g) + 1
<1>d. PICK d : d = OnWay(s, g)
  OBVIOUS
<1>r. PICK r : r = x.read_index
  OBVIOUS
<1>1. PIPE_BUFFER_SIZE \in Nat /\ d \in 0 .. PIPE_BUFFER_SIZE /\ d # PIPE_BUFFER_SIZE
  BY <1>d, PipeAssumption DEF Kept
<1>s. Shaped(s) /\ Shaped(g)
  BY DEF Kept
<1>m. PICK m : m = Len(s)
  OBVIOUS
<1>n. PICK n : n = Len(g)
  OBVIOUS
<1>2. m \in Nat /\ DOMAIN s = 1 .. m /\ n \in Nat /\ DOMAIN g = 1 .. n
  BY <1>s, <1>m, <1>n, ShapedFacts
<1>3. /\ Shaped(t) /\ Len(t) = m + 1 /\ t[m + 1] = b
      /\ \A j \in DOMAIN s : t[j] = s[j]
  BY <1>m DEF Longer
<1>y. /\ y.buffer = [x.buffer EXCEPT ![x.write_index] = b]
      /\ y.read_index = x.read_index
      /\ y.write_index = (x.write_index + 1) % PIPE_BUFFER_SIZE
  BY DEF WithByte, ByteAt
<1>5. n <= m /\ d = m - n
  <2>1. d = m - n
    BY <1>d, <1>m, <1>n, OnWayIs
  <2> QED BY <1>1, <1>2, <2>1
<1>4. OnWay(t, g) = d + 1
  <2>e. PICK e : e = Len(t)
    OBVIOUS
  <2>1. OnWay(t, g) = e - n
    BY ONLY <2>e, <1>n, OnWayIs
  <2>2. e = m + 1
    BY <1>3, <2>e
  <2> QED BY <1>2, <1>5, <2>1, <2>2
<1>6. \A j \in DOMAIN g : g[j] = t[j]
  <2>1. \A j \in DOMAIN g : j \in DOMAIN s /\ g[j] = s[j]
    BY <1>2, <1>5 DEF Kept
  <2> QED BY <1>3, <2>1
<1>7. OnWay(t, g) \in 0 .. PIPE_BUFFER_SIZE
  BY <1>1, <1>4
<1>8. Kept(t, g)
  BY <1>s, <1>3, <1>6, <1>7 DEF Kept
<1>9. /\ r \in Places /\ x.write_index = Wrap(r + d) /\ DOMAIN x.buffer = Places
      /\ \A j \in 0 .. d - 1 : x.buffer[Wrap(r + j)] = s[n + j + 1]
  BY <1>d, <1>r, <1>n DEF Ring
<1>10. /\ Wrap(r + d) \in Places /\ Wrap(Wrap(r + d) + 1) = Wrap(r + (d + 1))
       /\ \A j \in 0 .. d - 1 : Wrap(r + j) \in Places /\ Wrap(r + j) # Wrap(r + d)
  BY <1>1, <1>9, WrapSteps
<1>11. y.write_index = Wrap(r + (d + 1))
  BY <1>9, <1>10, <1>y, NextPlace
<1>12. DOMAIN y.buffer = Places
  BY <1>9, <1>y
<1>13. ASSUME NEW j \in 0 .. d
       PROVE  y.buffer[Wrap(r + j)] = t[n + j + 1]
  <2>1. CASE j = d
    <3>1. y.buffer[Wrap(r + d)] = b
      BY <1>9, <1>10, <1>y
    <3>2. n + j + 1 = m + 1
      BY <1>2, <1>5, <2>1
    <3> QED BY <1>3, <2>1, <3>1, <3>2
  <2>2. CASE j # d
    <3>0. j \in 0 .. d - 1
      BY <1>1, <2>2
    <3>1. y.buffer[Wrap(r + j)] = x.buffer[Wrap(r + j)]
      BY <1>9, <1>10, <1>y, <3>0
    <3>2. x.buffer[Wrap(r + j)] = s[n + j + 1]
      BY <1>9, <3>0
    <3>3. n + j + 1 \in DOMAIN s
      BY <1>1, <1>2, <1>5, <3>0
    <3> QED BY <1>3, <3>1, <3>2, <3>3
  <2> QED BY <2>1, <2>2
<1>14. 0 .. (d + 1) - 1 = 0 .. d
  BY <1>1
<1>15. Ring(y, t, g)
  BY <1>4, <1>9, <1>11, <1>12, <1>13, <1>14, <1>r, <1>n, <1>y DEF Ring
<1> QED BY <1>4, <1>8, <1>15, <1>d

\* A byte less, the one that was sent first.
LEMMA RingTaken ==
  ASSUME NEW x, NEW s, NEW g, Kept(s, g), Ring(x, s, g), OnWay(s, g) # 0,
         NEW h, Longer(g, h, x.buffer[x.read_index]), NEW y, WithoutByte(x, y)
  PROVE  /\ Kept(s, h) /\ Ring(y, s, h) /\ OnWay(s, h) = OnWay(s, g) - 1
         /\ x.buffer[x.read_index] = s[Len(g) + 1]
<1>d. PICK d : d = OnWay(s, g)
  OBVIOUS
<1>r. PICK r : r = x.read_index
  OBVIOUS
<1>b. PICK b : b = x.buffer[r]
  OBVIOUS
<1>1. PIPE_BUFFER_SIZE \in Nat /\ d \in 1 .. PIPE_BUFFER_SIZE
  BY <1>d, PipeAssumption DEF Kept
<1>s. Shaped(s) /\ Shaped(g)
  BY DEF Kept
<1>m. PICK m : m = Len(s)
  OBVIOUS
<1>n. PICK n : n = Len(g)
  OBVIOUS
<1>2. m \in Nat /\ DOMAIN s = 1 .. m /\ n \in Nat /\ DOMAIN g = 1 .. n
  BY <1>s, <1>m, <1>n, ShapedFacts
<1>3. /\ Shaped(h) /\ Len(h) = n + 1 /\ h[n + 1] = b
      /\ \A j \in DOMAIN g : h[j] = g[j]
  BY <1>b, <1>r, <1>n DEF Longer
<1>y. /\ y.buffer = x.buffer /\ y.write_index = x.write_index
      /\ y.read_index = (x.read_index + 1) % PIPE_BUFFER_SIZE
  BY DEF WithoutByte
<1>5. n <= m /\ d = m - n
  <2>1. d = m - n
    BY <1>d, <1>m, <1>n, OnWayIs
  <2> QED BY <1>1, <1>2, <2>1
<1>4. OnWay(s, h) = d - 1
  <2>e. PICK e : e = Len(h)
    OBVIOUS
  <2>1. OnWay(s, h) = m - e
    BY <2>e, <1>m, OnWayIs
  <2>2. e = n + 1
    BY <1>3, <2>e
  <2> QED BY <1>2, <1>5, <2>1, <2>2
<1>6. /\ r \in Places /\ x.write_index = Wrap(r + d) /\ DOMAIN x.buffer = Places
      /\ \A j \in 0 .. d - 1 : x.buffer[Wrap(r + j)] = s[n + j + 1]
  BY <1>d, <1>r, <1>n DEF Ring
<1>7. /\ Wrap(r + 0) = r /\ Wrap(r + d) = Wrap(Wrap(r + 1) + (d - 1))
      /\ \A j \in 0 .. d - 2 : Wrap(Wrap(r + 1) + j) = Wrap(r + (j + 1))
  BY <1>1, <1>6, WrapSteps
<1>8. b = s[n + 1]
  <2>1. 0 \in 0 .. d - 1
    BY <1>1
  <2>2. x.buffer[Wrap(r + 0)] = s[n + 0 + 1]
    BY <1>6, <2>1
  <2> QED BY <1>2, <1>7, <1>b, <2>2
<1>9. DOMAIN h = 1 .. n + 1
  BY <1>3, ShapedFacts
<1>10. \A j \in DOMAIN h : h[j] = s[j]
  <2>1. \A j \in DOMAIN g : h[j] = s[j]
    BY <1>3 DEF Kept
  <2> QED BY <1>2, <1>3, <1>8, <1>9, <2>1
<1>11. OnWay(s, h) \in 0 .. PIPE_BUFFER_SIZE
  BY <1>1, <1>4
<1>12. Kept(s, h)
  BY <1>s, <1>3, <1>10, <1>11 DEF Kept
<1>13. y.read_index = Wrap(r + 1) /\ y.read_index \in Places
  BY <1>6, <1>r, <1>y, NextPlace
<1>14. y.write_index = Wrap(y.read_index + (d - 1))
  BY <1>6, <1>7, <1>13, <1>y
<1>15. ASSUME NEW j \in 0 .. (d - 1) - 1
       PROVE  y.buffer[Wrap(y.read_index + j)] = s[Len(h) + j + 1]
  <2>1. j \in 0 .. d - 2 /\ j + 1 \in 0 .. d - 1
    BY <1>1
  <2>2. x.buffer[Wrap(r + (j + 1))] = s[n + (j + 1) + 1]
    BY <1>6, <2>1
  <2>3. n + (j + 1) + 1 = Len(h) + j + 1
    BY <1>2, <1>3
  <2> QED BY <1>7, <1>13, <1>y, <2>1, <2>2, <2>3
<1>16. Ring(y, s, h)
  BY <1>4, <1>6, <1>13, <1>14, <1>15, <1>y DEF Ring
<1> QED BY <1>4, <1>8, <1>12, <1>16, <1>b, <1>d, <1>n, <1>r

-----------------------------------------------------------------------------
(* The flow of a pipe: what its ring, its semaphores and the processes at  *)
(* its ends have to do with each other.                                    *)

\* The labels at which a process has an end of a pipe still to use, the shell for
\* a program that it has not created yet.
ReadAt == {"read", "create_A", "create_B"}
WriteAt == {"write", "create_A"}
OnAt == ReadAt \cup WriteAt \cup {"exit", "close_read", "close_write"}

\* The pipe of a process that has one.
PipeOf(p) == IF p = Shell THEN pipe_id
             ELSE IF file_descriptors[p].in = STDIN THEN file_descriptors[p].out
                                                    ELSE file_descriptors[p].in

\* The tokens for whoever reads, and for whoever writes.
Tokens(x, s, g) == OnWay(s, g) + IF x.eof_signaled THEN EOF_POSTS ELSE 0
Room(s, g) == PIPE_BUFFER_SIZE - OnWay(s, g)

\* A process p at label l with the histories s and g of its pipe i.
Served(w, s, g, i, l, tok, p) ==
  /\ l \in ReadAt \cup WriteAt => Ring(w.p[i], s, g)
  /\ l \in ReadAt => Seat(w.k, w.s[Items(i)], tok, p, Tokens(w.p[i], s, g))
  /\ l \in WriteAt => Seat(w.k, w.s[Space(i)], tok, p, Room(s, g))

ServedNow(p) ==
  Served(World, sent[round[p]], got[round[p]], PipeOf(p), pc[p], call[p].token, p)

\* A program has one end of a pipe, and is at one of the steps that go with it.
Fit(l, fd, r, n, c) ==
  /\ \/ fd.in = STDIN /\ fd.out \in Anon /\ l \in {"write", "exit"}
     \/ fd.in \in Anon /\ fd.out = STDOUT /\ l \in {"read", "exit"}
  /\ r \in 1 .. n
  /\ c.op # "none" => c.op = l /\ l # "exit"

Fits ==
  /\ \A p \in Programs :
       Live(p) => Fit(pc[p], file_descriptors[p], round[p], round[Shell], call[p])
  /\ \A p \in Slots : /\ call[p].token \in BOOLEAN
                      /\ call[p].token => p \in Programs /\ call[p].op # "none"

\* A command line has one pipe, with a reader and a writer at most.
Lines ==
  \A p, q \in Slots : pc[p] \in OnAt /\ pc[q] \in OnAt =>
    /\ PipeOf(p) = PipeOf(q) <=> round[p] = round[q]
    /\ PipeOf(p) = PipeOf(q) /\ pc[p] \in ReadAt /\ pc[q] \in ReadAt => p = q
    /\ PipeOf(p) = PipeOf(q) /\ pc[p] \in WriteAt /\ pc[q] \in WriteAt => p = q

\* Nothing has gone through the pipes of the command lines to come.
Later == /\ round[Shell] \in 0 .. ROUNDS
         /\ \A r \in Rounds : r > round[Shell] => sent[r] = <<>> /\ got[r] = <<>>

Histories ==
  /\ sent = [r \in Rounds |-> sent[r]] /\ got = [r \in Rounds |-> got[r]]
  /\ \A r \in Rounds : Kept(sent[r], got[r])

Buffers == \A i \in Anon : DOMAIN pipes[i].buffer = Places

ServedAll == \A p \in Slots : pc[p] \in ReadAt \cup WriteAt => ServedNow(p)

InPlace(i, q) == /\ InQueue(sems[Items(i)], q) => pc[q] = "read" /\ PipeOf(q) = i
                 /\ InQueue(sems[Space(i)], q) => pc[q] = "write" /\ PipeOf(q) = i

\* Who sleeps in a queue of a pipe in use is at the pipe, unless he is dead.
Strays == \A i \in Anon, q \in Slots : pipes[i].is_in_use /\ Live(q) => InPlace(i, q)

LineInv == Fits /\ Lines /\ Later
FlowInv == LineInv /\ Histories /\ Buffers /\ ServedAll /\ Strays

-----------------------------------------------------------------------------
(* Who is at a pipe, and who is in its queues.                             *)

LEMMA WorldNow ==
  ASSUME PipeInv
  PROVE  /\ World.k = Kernel /\ World.s = sems /\ World.p = pipes /\ Sound(World)
         /\ sems \in SemTables /\ Settled(Kernel) /\ IdleLives(Kernel)
         /\ Kernel \in KernelType /\ Counted(Kernel)
         /\ Kernel.state = state /\ Kernel.blocks_amount = blocks_amount
<1>1. World.k = Kernel /\ World.s = sems /\ World.p = pipes
  BY DEF World
<1>2. Sound(World) /\ Settled(Kernel) /\ IdleLives(Kernel)
  BY DEF PipeInv, Counts, Booked, WaitInv, ProcInv, SchedInv
<1> QED BY <1>1, <1>2 DEF Sound, Settled, Kernel

LEMMA LabelsOnAt ==
  /\ ReadAt \subseteq OnAt /\ WriteAt \subseteq OnAt
  /\ {"gone", "prompt", "yield", "wait_A", "wait_B", "asleep"} \cap OnAt = {}
  /\ ShellLabels \cap OnAt = {"create_A", "create_B", "close_read", "close_write"}
BY DEF ReadAt, WriteAt, OnAt, ShellLabels

\* A process at a pipe holds an end of it.
LEMMA AtThePipe ==
  ASSUME PipeInv, Fits, NEW p \in Slots, pc[p] \in OnAt
  PROVE  /\ p = Shell \/ (p \in Programs /\ Live(p))
         /\ PipeOf(p) \in Anon /\ pipes[PipeOf(p)].is_in_use
         /\ round[p] \in 1 .. round[Shell] /\ round[Shell] \in Nat
<1>0. round[Shell] \in Nat /\ ProgramsOK
  BY ShellIsAProcess DEF PipeInv, ProgramsOK
<1>1. CASE p = Shell
  <2>1. pc[Shell] \in {"create_A", "create_B", "close_read", "close_write"}
    BY <1>0, <1>1, LabelsOnAt DEF ProgramsOK, ShellOK
  <2>2. held # {} /\ "PIPE_WRITE_END" \in held
    BY <1>0, <2>1 DEF ProgramsOK, ShellOK, HeldAt, Modes
  <2>3. pipe_id \in Anon /\ round[Shell] > 0
    BY <1>0, <2>2 DEF ProgramsOK, ShellOK
  <2>4. Shell \in Writers[pipe_id]
    BY <2>2, <2>3, HoldersAre, ShellIsAProcess
  <2>5. Tallied(pipes[pipe_id], Readers[pipe_id], Writers[pipe_id])
    BY <2>3, WorldNow DEF PipeInv, Counts, Booked
  <2>6. pipes[pipe_id].is_in_use
    BY <2>4, <2>5 DEF Tallied
  <2> QED BY <1>0, <1>1, <2>3, <2>6 DEF PipeOf
<1>2. CASE p # Shell
  <2>1. p \in Programs
    BY <1>0, <1>2, LabelsOnAt DEF ProgramsOK, ShellOK, Programs, Shell
  <2>2. Live(p)
    BY <1>0, <2>1, LabelsOnAt DEF ProgramsOK, ProgramOK
  <2>f. PICK fd : fd = file_descriptors[p]
    OBVIOUS
  <2>3. Fit(pc[p], fd, round[p], round[Shell], call[p])
    BY <2>1, <2>2, <2>f DEF Fits
  <2>4. \/ fd.in = STDIN /\ fd.out \in Anon /\ PipeOf(p) = fd.out
        \/ fd.in # STDIN /\ fd.in \in Anon /\ PipeOf(p) = fd.in
    BY <1>2, <2>3, <2>f DEF Fit, PipeOf, Anon, STDIN, STDERR
  <2>i. PICK i : i = PipeOf(p)
    OBVIOUS
  <2>5. p \in Readers[i] \/ p \in Writers[i]
    BY <2>2, <2>4, <2>f, <2>i, HoldersAre
  <2>6. i \in Anon
    BY <2>4, <2>i
  <2>7. Tallied(pipes[i], Readers[i], Writers[i])
    BY <2>6, WorldNow DEF PipeInv, Counts, Booked
  <2>8. pipes[i].is_in_use
    BY <2>5, <2>7 DEF Tallied
  <2> QED BY <1>0, <2>1, <2>2, <2>3, <2>6, <2>8, <2>i DEF Fit
<1> QED BY <1>1, <1>2

\* Only programs queue.
LEMMA InQueueProgram ==
  ASSUME NEW s \in SemTables, NEW n \in SemNames, NEW q, InQueue(s[n], q)
  PROVE  q \in Programs
<1>1. s[n].blocked \in Seq(Programs)
  BY DEF SemTables, SemRecord
<1>2. PICK j \in DOMAIN s[n].blocked : s[n].blocked[j] = q
  BY DEF InQueue
<1> QED BY <1>1, <1>2, LenProperties

\* The only one in a queue is who waits there, asleep.
LEMMA InQueueSeat ==
  ASSUME NEW k, NEW x, NEW tok, NEW q, NEW c, Seat(k, x, tok, q, c),
         NEW p, InQueue(x, p)
  PROVE  tok /\ p = q /\ k.state[q] = "BLOCKED" /\ c = 0
<1>1. ASSUME x.blocked = <<>>
      PROVE  FALSE
  BY <1>1 DEF InQueue
<1>2. tok /\ k.state[q] = "BLOCKED" /\ x.blocked = <<q>> /\ c = 0
  BY <1>1 DEF Seat
<1>3. p = q
  BY <1>2 DEF InQueue
<1> QED BY <1>2, <1>3

LEMMA InQueueAsleep ==
  ASSUME PipeInv, FlowInv, NEW i \in Anon, pipes[i].is_in_use, NEW q, Live(q),
         InQueue(sems[Items(i)], q) \/ InQueue(sems[Space(i)], q)
  PROVE  /\ q \in Programs /\ call[q].token /\ state[q] = "BLOCKED"
         /\ PipeOf(q) = i /\ pc[q] \in OnAt
         /\ InQueue(sems[Items(i)], q) => pc[q] = "read"
         /\ InQueue(sems[Space(i)], q) => pc[q] = "write"
<1>1. Items(i) \in SemNames /\ Space(i) \in SemNames
  BY NamesOfPipe DEF SemsOf
<1>2. q \in Programs /\ q \in Slots
  BY <1>1, WorldNow, InQueueProgram DEF Programs
<1>3. /\ InQueue(sems[Items(i)], q) => pc[q] = "read" /\ PipeOf(q) = i
      /\ InQueue(sems[Space(i)], q) => pc[q] = "write" /\ PipeOf(q) = i
  BY <1>2 DEF FlowInv, Strays, InPlace
<1>4. pc[q] \in ReadAt \cup WriteAt /\ pc[q] \in OnAt /\ PipeOf(q) = i
  BY <1>3 DEF ReadAt, WriteAt, OnAt
<1>r. PICK r : r = round[q]
  OBVIOUS
<1>5. Served(World, sent[r], got[r], i, pc[q], call[q].token, q)
  BY <1>2, <1>4, <1>r DEF FlowInv, ServedAll, ServedNow
<1>6. CASE InQueue(sems[Items(i)], q)
  <2>1. pc[q] \in ReadAt
    BY <1>3, <1>6 DEF ReadAt
  <2>2. \E c : Seat(Kernel, sems[Items(i)], call[q].token, q, c)
    BY <1>5, <2>1, WorldNow DEF Served
  <2>3. call[q].token /\ Kernel.state[q] = "BLOCKED"
    BY <1>6, <2>2, InQueueSeat
  <2> QED BY <1>2, <1>3, <1>4, <2>3, WorldNow
<1>7. CASE InQueue(sems[Space(i)], q)
  <2>1. pc[q] \in WriteAt
    BY <1>3, <1>7 DEF WriteAt
  <2>2. \E c : Seat(Kernel, sems[Space(i)], call[q].token, q, c)
    BY <1>5, <2>1, WorldNow DEF Served
  <2>3. call[q].token /\ Kernel.state[q] = "BLOCKED"
    BY <1>7, <2>2, InQueueSeat
  <2> QED BY <1>2, <1>3, <1>4, <2>3, WorldNow
<1> QED BY <1>6, <1>7

-----------------------------------------------------------------------------
(* What a step leaves of the lines and of the pipes it is not about.       *)

\* A process is at a pipe after the step only when it was at it before.
Stays(p) ==
  pc'[p] \in OnAt =>
    /\ pc[p] \in OnAt /\ round'[p] = round[p] /\ PipeOf(p)' = PipeOf(p)
    /\ pc'[p] \in ReadAt => pc[p] \in ReadAt
    /\ pc'[p] \in WriteAt => pc[p] \in WriteAt

LEMMA LinesKept ==
  ASSUME Lines, \A p \in Slots : Stays(p)
  PROVE  Lines'
<1> SUFFICES ASSUME NEW p \in Slots, NEW q \in Slots, pc'[p] \in OnAt, pc'[q] \in OnAt
             PROVE  /\ PipeOf(p)' = PipeOf(q)' <=> round'[p] = round'[q]
                    /\ PipeOf(p)' = PipeOf(q)' /\ pc'[p] \in ReadAt /\ pc'[q] \in ReadAt
                         => p = q
                    /\ PipeOf(p)' = PipeOf(q)' /\ pc'[p] \in WriteAt /\ pc'[q] \in WriteAt
                         => p = q
  BY DEF Lines
<1>1. /\ pc[p] \in OnAt /\ round'[p] = round[p] /\ PipeOf(p)' = PipeOf(p)
      /\ pc'[p] \in ReadAt => pc[p] \in ReadAt
      /\ pc'[p] \in WriteAt => pc[p] \in WriteAt
  BY DEF Stays
<1>2. /\ pc[q] \in OnAt /\ round'[q] = round[q] /\ PipeOf(q)' = PipeOf(q)
      /\ pc'[q] \in ReadAt => pc[q] \in ReadAt
      /\ pc'[q] \in WriteAt => pc[q] \in WriteAt
  BY DEF Stays
<1> QED BY <1>1, <1>2 DEF Lines

\* Every program but q is where it was, or is gone.
LEMMA FitsKept ==
  ASSUME Fits, round'[Shell] = round[Shell], NEW q \in Slots,
         \A p \in Programs \ {q} : Live(p)' =>
           /\ Live(p) /\ pc'[p] = pc[p] /\ round'[p] = round[p]
           /\ file_descriptors'[p] = file_descriptors[p],
         \A p \in Slots \ {q} : call'[p] = call[p],
         q \in Programs /\ Live(q)' =>
           Fit(pc'[q], file_descriptors'[q], round'[q], round[Shell], call'[q]),
         call'[q].token \in BOOLEAN,
         call'[q].token => q \in Programs /\ call'[q].op # "none"
  PROVE  Fits'
<1>1. ASSUME NEW p \in Programs, Live(p)'
      PROVE  Fit(pc'[p], file_descriptors'[p], round'[p], round'[Shell], call'[p])
  <2>1. CASE p = q
    BY <1>1, <2>1
  <2>2. CASE p # q
    <3>1. p \in Slots
      BY DEF Programs
    <3>2. Fit(pc[p], file_descriptors[p], round[p], round[Shell], call[p])
      BY <1>1, <2>2 DEF Fits
    <3> QED BY <1>1, <2>2, <3>1, <3>2
  <2> QED BY <2>1, <2>2
<1>2. ASSUME NEW p \in Slots
      PROVE  /\ call'[p].token \in BOOLEAN
             /\ call'[p].token => p \in Programs /\ call'[p].op # "none"
  BY DEF Fits
<1> QED BY <1>1, <1>2 DEF Fits, Fit

\* A pipe that is left alone serves its processes as before.
LEMMA ServedAlike ==
  ASSUME NEW w, NEW v, NEW i, v.p[i] = w.p[i],
         NEW s, NEW g, NEW l, NEW m, NEW tok, NEW q,
         m \in ReadAt => l \in ReadAt /\ v.s[Items(i)] = w.s[Items(i)],
         m \in WriteAt => l \in WriteAt /\ v.s[Space(i)] = w.s[Space(i)],
         tok => SleepsAlike(w.k, v.k, q), Served(w, s, g, i, l, tok, q)
  PROVE  Served(v, s, g, i, m, tok, q)
<1>1. ASSUME NEW x, NEW c, Seat(w.k, x, tok, q, c)
      PROVE  Seat(v.k, x, tok, q, c)
  <2>1. CASE tok
    BY <1>1, <2>1, SeatKept
  <2>2. CASE ~tok
    BY <1>1, <2>2 DEF Seat
  <2> QED BY <2>1, <2>2
<1> QED BY <1>1 DEF Served

LEMMA ServedElsewhere ==
  ASSUME PipeInv, FlowInv, NEW i,
         \A j \in Anon \ {i} : /\ sems'[Items(j)] = sems[Items(j)]
                               /\ sems'[Space(j)] = sems[Space(j)]
                               /\ pipes'[j] = pipes[j],
         NEW q \in Slots, Stays(q), pc'[q] \in ReadAt \cup WriteAt, PipeOf(q) # i,
         call'[q].token = call[q].token,
         call[q].token => SleepsAlike(Kernel, Kernel', q),
         sent'[round[q]] = sent[round[q]], got'[round[q]] = got[round[q]]
  PROVE  ServedNow(q)'
<1>1. /\ pc[q] \in OnAt /\ round'[q] = round[q] /\ PipeOf(q)' = PipeOf(q)
      /\ pc'[q] \in ReadAt => pc[q] \in ReadAt
      /\ pc'[q] \in WriteAt => pc[q] \in WriteAt
  BY LabelsOnAt DEF Stays
<1>j. PICK j : j = PipeOf(q)
  OBVIOUS
<1>r. PICK r : r = round[q]
  OBVIOUS
<1>2. j \in Anon \ {i}
  BY <1>1, <1>j, AtThePipe DEF FlowInv, LineInv
<1>v. PICK v : v = World'
  OBVIOUS
<1>3. v.k = Kernel' /\ v.s = sems' /\ v.p = pipes'
  BY <1>v DEF World
<1>4. Served(World, sent[r], got[r], j, pc[q], call[q].token, q)
  BY <1>1, <1>j, <1>r DEF FlowInv, ServedAll, ServedNow
<1>5. Served(v, sent[r], got[r], j, pc'[q], call[q].token, q)
  BY <1>1, <1>2, <1>3, <1>4, WorldNow, ServedAlike
<1>6. Served(World', sent'[r], got'[r], j, pc'[q], call'[q].token, q)
  BY <1>5, <1>r, <1>v
<1> QED BY <1>1, <1>6, <1>j, <1>r DEF ServedNow

\* The queues that nobody enters, and whoever lives there.
LEMMA StraysKept ==
  ASSUME PipeInv, FlowInv, NEW j \in Anon, NEW q \in Slots,
         InQueue(sems'[Items(j)], q) => InQueue(sems[Items(j)], q),
         InQueue(sems'[Space(j)], q) => InQueue(sems[Space(j)], q),
         pipes'[j].is_in_use, pipes[j].is_in_use, Live(q)', Live(q),
         pc'[q] # pc[q] \/ PipeOf(q)' # PipeOf(q) =>
           q = Shell \/ ~call[q].token \/ state[q] # "BLOCKED"
  PROVE  InPlace(j, q)'
<1> SUFFICES ASSUME InQueue(sems[Items(j)], q) \/ InQueue(sems[Space(j)], q)
             PROVE  /\ InQueue(sems[Items(j)], q) => pc'[q] = "read" /\ PipeOf(q)' = j
                    /\ InQueue(sems[Space(j)], q) => pc'[q] = "write" /\ PipeOf(q)' = j
  BY DEF InPlace
<1>1. /\ q \in Programs /\ call[q].token /\ state[q] = "BLOCKED" /\ PipeOf(q) = j
      /\ InQueue(sems[Items(j)], q) => pc[q] = "read"
      /\ InQueue(sems[Space(j)], q) => pc[q] = "write"
  BY InQueueAsleep
<1> QED BY <1>1, ShellIsAProcess

\* The pipe that a process is at, by what it depends on.
LEMMA PipeOfKept ==
  ASSUME NEW p, file_descriptors'[p] = file_descriptors[p], pipe_id' = pipe_id
  PROVE  PipeOf(p)' = PipeOf(p)
BY DEF PipeOf

\* A step that leaves the pipes alone, and who sleeps.
LEMMA QuietFlow ==
  ASSUME PipeInv, FlowInv, Fits',
         UNCHANGED <<sems, pipes, file_descriptors, pipe_id, sent, got>>,
         round'[Shell] = round[Shell],
         \A p \in Slots :
           /\ Stays(p) /\ (Live(p)' => Live(p))
           /\ call'[p].token = call[p].token
           /\ call[p].token => SleepsAlike(Kernel, Kernel', p)
           /\ pc'[p] # pc[p] => p = Shell \/ ~call[p].token
  PROVE  FlowInv'
<1>1. Lines'
  BY LinesKept DEF FlowInv, LineInv
<1>2. Later' /\ Histories' /\ Buffers'
  BY DEF FlowInv, LineInv, Later, Histories, Buffers
<1>3. ASSUME NEW q \in Slots, pc'[q] \in ReadAt \cup WriteAt
      PROVE  ServedNow(q)'
  <2>1. pc[q] \in OnAt
    BY <1>3, LabelsOnAt DEF Stays
  <2>2. PipeOf(q) # -1
    BY <2>1, AtThePipe DEF FlowInv, LineInv, Anon, STDERR
  <2> QED BY <1>3, <2>2, ServedElsewhere
<1>4. ASSUME NEW j \in Anon, NEW q \in Slots, pipes'[j].is_in_use, Live(q)'
      PROVE  InPlace(j, q)'
  <2>1. PipeOf(q)' = PipeOf(q)
    BY PipeOfKept
  <2> QED BY <1>4, <2>1, StraysKept
<1>5. ServedAll' /\ Strays'
  BY <1>3, <1>4 DEF ServedAll, Strays
<1> QED BY <1>1, <1>2, <1>5 DEF FlowInv, LineInv

LEMMA TokensLive ==
  ASSUME PipeInv, Fits, NEW p \in Slots, call[p].token
  PROVE  p \in Programs /\ Live(p)
BY DEF Fits, PipeInv, ProgramsOK, ProgramOK

\* The shell goes on to a label where it has nothing to do with a pipe.
LEMMA ShellQuiet ==
  ASSUME PipeInv, FlowInv, NEW l, l \notin OnAt,
         pc' = pc \/ pc' = [pc EXCEPT ![Shell] = l],
         UNCHANGED <<sems, pipes, file_descriptors, call, pipe_id, round, sent, got>>,
         \A p \in Slots : Live(p)' <=> Live(p),
         \A p \in Programs : Live(p) => SleepsAlike(Kernel, Kernel', p)
  PROVE  FlowInv'
<1>0. Shell \in Slots /\ Shell \notin Programs /\ Fits /\ DOMAIN pc = Slots
  BY ShellIsAProcess DEF FlowInv, LineInv, PipeInv, ProgramsOK
<1>1. /\ \A p \in Slots \ {Shell} : pc'[p] = pc[p]
      /\ pc'[Shell] = pc[Shell] \/ pc'[Shell] \notin OnAt
  BY <1>0
<1>2. \A p \in Slots : Stays(p)
  BY <1>1, PipeOfKept DEF Stays
<1>3. Fits'
  <2>1. call'[Shell].token \in BOOLEAN /\ ~call'[Shell].token
    BY <1>0 DEF Fits
  <2>2. \A p \in Programs : p \in Slots /\ p # Shell
    BY <1>0 DEF Programs
  <2> QED BY <1>0, <1>1, <2>1, <2>2, FitsKept
<1>4. \A p \in Slots : call[p].token => SleepsAlike(Kernel, Kernel', p)
  BY <1>0, TokensLive
<1>5. \A p \in Slots : pc'[p] # pc[p] => p = Shell
  BY <1>1
<1> QED BY <1>2, <1>3, <1>4, <1>5, QuietFlow

\* A context switch touches nobody's sleep.
LEMMA SwitchAlike ==
  ASSUME NEW r, Settled(r), KernelBecomes(r), SameSleepers(Kernel, r)
  PROVE  \A p \in Programs : SleepsAlike(Kernel, Kernel', p)
<1>1. Kernel' = r
  BY KernelAfter
<1>2. \A p \in Programs : Untouched(Kernel, r, p)
  BY DEF SameSleepers, Programs
<1> QED BY <1>1, <1>2 DEF SleepsAlike, Untouched

LEMMA TickFlow ==
  ASSUME PipeInv, FlowInv, PipelineTick
  PROVE  FlowInv'
<1>1. SchedInv /\ IdleLives(Kernel) /\ Coherent(Kernel)
  BY SettledCoherent DEF PipeInv, WaitInv, ProcInv, SchedInv
<1> DEFINE r == Scheduling(Kernel)
<1>2. Settled(r) /\ SameSleepers(Kernel, r)
  BY <1>1, SchedulingFacts, SchedulingSleepers
<1>3. /\ KernelBecomes(r) /\ TableStays
      /\ UNCHANGED <<sems, pipes, file_descriptors, held, pipe_id, pc, round, call, sent, got>>
  BY DEF PipelineTick, TimerTick, pipeVars, progVars
<1> HIDE DEF r
<1>4. IdleLives(r) /\ Phases(r) = Phases(Kernel) /\ Untouched(Kernel, r, SHELL_PID)
  BY <1>1, <1>2, SwitchFacts
<1>5. \A p \in Slots : Live(p)' <=> Live(p)
  BY <1>2, <1>3, <1>4, KernelStep
<1>6. \A p \in Programs : SleepsAlike(Kernel, Kernel', p)
  BY <1>2, <1>3, SwitchAlike
<1> QED BY <1>3, <1>5, <1>6, ShellQuiet, LabelsOnAt

LEMMA YieldFlow ==
  ASSUME PipeInv, FlowInv, ShellYields
  PROVE  FlowInv'
<1>1. SchedInv /\ IdleLives(Kernel) /\ Coherent(Kernel)
  BY SettledCoherent DEF PipeInv, WaitInv, ProcInv, SchedInv
<1> DEFINE r == Yield(Kernel)
<1>2. Settled(r) /\ SameSleepers(Kernel, r)
  BY <1>1, YieldFacts, YieldSleepers
<1>3. /\ KernelBecomes(r) /\ TableStays /\ pc' = [pc EXCEPT ![Shell] = "prompt"]
      /\ UNCHANGED <<sems, pipes, file_descriptors, held, pipe_id, round, call, sent, got>>
  BY DEF ShellYields, SysYield, pipeVars, Goto
<1> HIDE DEF r
<1>4. IdleLives(r) /\ Phases(r) = Phases(Kernel) /\ Untouched(Kernel, r, SHELL_PID)
  BY <1>1, <1>2, SwitchFacts
<1>5. \A p \in Slots : Live(p)' <=> Live(p)
  BY <1>2, <1>3, <1>4, KernelStep
<1>6. \A p \in Programs : SleepsAlike(Kernel, Kernel', p)
  BY <1>2, <1>3, SwitchAlike
<1>7. "prompt" \notin OnAt
  BY LabelsOnAt
<1> QED BY <1>3, <1>5, <1>6, <1>7, ShellQuiet

\* The shell that blocks itself touches no program.
LEMMA ShellBlocks ==
  ASSUME PipeInv, Caller = Shell, KernelBecomes(BlockProcess(Kernel, Shell))
  PROVE  /\ \A p \in Slots : Live(p)' <=> Live(p)
         /\ \A p \in Programs : SleepsAlike(Kernel, Kernel', p)
<1> DEFINE r == BlockProcess(Kernel, Shell)
<1>1. /\ Settled(r) /\ Phases(r) = Phases(Kernel)
      /\ \A q \in Slots \ {Shell, IDLE_PID} : Untouched(Kernel, r, q)
  BY WorldNow, BlockPhases, ShellIsAProcess
<1>2. KernelBecomes(r)
  OBVIOUS
<1> HIDE DEF r
<1>3. Kernel' = r
  BY <1>1, <1>2, KernelAfter
<1>4. \A p \in Slots : Live(p)' <=> Live(p)
  BY <1>1, <1>2, SamePhases DEF PipeInv, WaitInv, ProcInv
<1>5. \A p \in Programs : Untouched(Kernel, r, p)
  BY <1>1 DEF Programs, Shell
<1> QED BY <1>3, <1>4, <1>5 DEF SleepsAlike, Untouched

LEMMA SleepFlow ==
  ASSUME PipeInv, FlowInv, ShellSleeps
  PROVE  FlowInv'
<1>1. Caller = Shell
  <2>1. At("prompt") /\ "prompt" \notin ProgramLabels
    BY DEF ShellSleeps, ProgramLabels
  <2> QED BY <2>1, ShellAt
<1>2. /\ KernelBecomes(BlockProcess(Kernel, Shell)) /\ pc' = [pc EXCEPT ![Shell] = "asleep"]
      /\ UNCHANGED <<sems, pipes, file_descriptors, pipe_id, round, call, sent, got>>
  BY DEF ShellSleeps, pipeVars, Goto
<1>3. "asleep" \notin OnAt
  BY LabelsOnAt
<1> QED BY <1>1, <1>2, <1>3, ShellBlocks, ShellQuiet

\* The slot of a process that is gone is emptied.
LEMMA SlotAlike ==
  ASSUME PipeInv, NEW q \in Slots, q # Caller, ~Live(q),
         KernelBecomes(FreeKernel(Kernel, q))
  PROVE  /\ \A p \in Slots : Live(p)' <=> Live(p)
         /\ \A p \in Programs : Live(p) => SleepsAlike(Kernel, Kernel', p)
<1>1. SchedInv /\ Kernel.current_index = Caller
  BY RunnerFacts DEF PipeInv, WaitInv, ProcInv
<1> DEFINE r == FreeKernel(Kernel, q)
<1>2. /\ Settled(r)
      /\ \A p \in Slots \ {q} : /\ r.state[p] = Kernel.state[p]
                                /\ r.blocks_amount[p] = Kernel.blocks_amount[p]
  BY <1>1, WorldNow, FreeKernelFacts
<1> HIDE DEF r
<1>3. KernelBecomes(r)
  BY DEF r
<1>4. Kernel' = r
  BY <1>2, <1>3, KernelAfter
<1>5. \A p \in Programs : Live(p) => p \in Slots \ {q}
  BY DEF Programs
<1> QED BY <1>1, <1>2, <1>4, <1>5, SlotEmptied DEF SleepsAlike

LEMMA WaitsFlow ==
  ASSUME PipeInv, FlowInv, ShellWaitsA \/ ShellWaitsB
  PROVE  FlowInv'
<1>1. PICK here, l, who : /\ here \in {"wait_A", "wait_B"} /\ l \in {"wait_B", "prompt"}
                          /\ ShellWaits(here, l, who)
  BY DEF ShellWaitsA, ShellWaitsB
<1>2. Caller = Shell
  <2>1. here \notin ProgramLabels /\ At(here)
    BY <1>1 DEF ProgramLabels, ShellWaits
  <2> QED BY <2>1, ShellAt
<1>q. PICK q : q = pid[who]
  OBVIOUS
<1>3. /\ pc' = [pc EXCEPT ![Shell] = l]
      /\ SysWait(q) \/ UNCHANGED procVars
      /\ UNCHANGED <<sems, pipes, file_descriptors, call, pipe_id, round, sent, got>>
  BY <1>1, <1>2, <1>q DEF ShellWaits, pipeVars, Goto
<1>4. l \notin OnAt
  BY <1>1, LabelsOnAt
<1>5. /\ \A p \in Slots : Live(p)' <=> Live(p)
      /\ \A p \in Programs : Live(p) => SleepsAlike(Kernel, Kernel', p)
  <2>1. CASE UNCHANGED procVars
    <3>1. Kernel' = Kernel /\ state' = state
      BY <2>1 DEF procVars, schedVars, Kernel
    <3> QED BY <3>1 DEF SleepsAlike, Live
  <2>2. CASE SysWait(q)
    <3>1. q \in Slots
      BY <2>2 DEF SysWait, IsPidValid
    <3>2. CASE state[q] = "ZOMBIE"
      <4>1. /\ KernelBecomes(FreeKernel(Kernel, q)) /\ q # Caller /\ ~Live(q)
        BY <2>2, <3>2 DEF SysWait, Live
      <4> QED BY <3>1, <4>1, SlotAlike
    <3>3. CASE state[q] # "ZOMBIE"
      <4>1. KernelBecomes(BlockProcess(Kernel, Shell))
        BY <1>2, <2>2, <3>3 DEF SysWait
      <4> QED BY <1>2, <4>1, ShellBlocks
    <3> QED BY <3>2, <3>3
  <2> QED BY <1>3, <2>1, <2>2
<1> QED BY <1>3, <1>4, <1>5, ShellQuiet

LEMMA ReturnsFlow ==
  ASSUME PipeInv, FlowInv, Returns
  PROVE  FlowInv'
<1>1. /\ WaitInv /\ WaitReturns /\ pc' = pc
      /\ UNCHANGED <<sems, pipes, file_descriptors, call, pipe_id, round, sent, got>>
  BY DEF PipeInv, Returns, pipeVars, progVars
<1>2. /\ Caller = SHELL_PID /\ waiting[SHELL_PID] \in Programs
      /\ state[waiting[SHELL_PID]] = "ZOMBIE"
  BY <1>1, ReturnFacts
<1>q. PICK q : q = waiting[SHELL_PID]
  OBVIOUS
<1>3. q \in Slots /\ q # Caller /\ ~Live(q) /\ KernelBecomes(FreeKernel(Kernel, q))
  BY <1>1, <1>2, <1>q, ShellIsNotIdle DEF WaitReturns, Live, Programs
<1>4. /\ \A p \in Slots : Live(p)' <=> Live(p)
      /\ \A p \in Programs : Live(p) => SleepsAlike(Kernel, Kernel', p)
  BY <1>3, SlotAlike
<1> QED BY <1>1, <1>4, ShellQuiet, LabelsOnAt

LEMMA StutterFlow ==
  ASSUME PipeInv, FlowInv, UNCHANGED pipelineVars
  PROVE  FlowInv'
<1>1. /\ Kernel' = Kernel /\ state' = state /\ pc' = pc
      /\ UNCHANGED <<sems, pipes, file_descriptors, call, pipe_id, round, sent, got>>
  BY DEF pipelineVars, procVars, schedVars, pipeVars, progVars, Kernel
<1>2. /\ \A p \in Slots : Live(p)' <=> Live(p)
      /\ \A p \in Programs : Live(p) => SleepsAlike(Kernel, Kernel', p)
  BY <1>1 DEF SleepsAlike, Live
<1> QED BY <1>1, <1>2, ShellQuiet, LabelsOnAt

\* A program outside of a call goes into one, or leaves its loop.
LEMMA OwnFlow ==
  ASSUME PipeInv, FlowInv, WriterWrites \/ WriterEnds \/ ReaderReads
  PROVE  FlowInv'
<1>p. PICK p : p = Caller
  OBVIOUS
<1>1. /\ UserRuns /\ pc[p] \in {"write", "read"} /\ ~InCall
      /\ UNCHANGED <<procVars, sems, pipes, file_descriptors, pipe_id, round, sent, got>>
  BY <1>p DEF WriterWrites, WriterEnds, ReaderReads, At, InUser, KernelStays, progVars
<1>2. p \in Programs /\ Live(p) /\ p \in Slots
  BY <1>1, <1>p, CallerIs DEF ShellLabels
<1>3. Kernel' = Kernel /\ state' = state
  BY <1>1 DEF procVars, schedVars, Kernel
<1>4. call[p] = NoCall /\ NoCall.op = "none" /\ NoCall.token = FALSE
  BY <1>1, <1>p DEF InCall, UserRuns, NoCall
<1>5. DOMAIN pc = Slots /\ DOMAIN call = Slots /\ Fits
  BY DEF PipeInv, ProgramsOK, FlowInv, LineInv
<1>f. PICK fd : fd = file_descriptors[p]
  OBVIOUS
<1>6. Fit(pc[p], fd, round[p], round[Shell], call[p])
  BY <1>2, <1>5, <1>f DEF Fits
<1>7. /\ \A q \in Slots \ {p} : pc'[q] = pc[q] /\ call'[q] = call[q]
      /\ call'[p].token = FALSE
      /\ pc'[p] \in {pc[p], "exit"}
      /\ call'[p].op = "none" \/ (call'[p].op = pc[p] /\ pc'[p] = pc[p])
  <2>1. CASE WriterEnds
    <3>1. pc' = [pc EXCEPT ![p] = "exit"] /\ call' = call
      BY <1>p, <2>1 DEF WriterEnds, Goto
    <3> QED BY <1>2, <1>4, <1>5, <3>1
  <2>2. CASE WriterWrites \/ ReaderReads
    <3>1. \E c : /\ pc' = pc /\ c.op = pc[p] /\ c.token = FALSE
                 /\ call' = [call EXCEPT ![p] = c]
      <4>1. CASE WriterWrites
        <5>c. PICK c : c = [NoCall EXCEPT !.op = "write", !.id = file_descriptors[p].out,
                                          !.bytes = Message(p)]
          OBVIOUS
        <5>1. pc' = pc /\ pc[p] = "write" /\ call' = [call EXCEPT ![p] = c]
          BY <1>p, <4>1, <5>c DEF WriterWrites, StartsWrite, At
        <5>2. c.op = "write" /\ c.token = FALSE
          BY <5>c DEF NoCall
        <5> QED BY <5>1, <5>2
      <4>2. CASE ReaderReads
        <5>c. PICK c : c = [NoCall EXCEPT !.op = "read", !.id = file_descriptors[p].in]
          OBVIOUS
        <5>1. pc' = pc /\ pc[p] = "read" /\ call' = [call EXCEPT ![p] = c]
          BY <1>p, <4>2, <5>c DEF ReaderReads, StartsRead, At, progVars
        <5>2. c.op = "read" /\ c.token = FALSE
          BY <5>c DEF NoCall
        <5> QED BY <5>1, <5>2
      <4> QED BY <2>2, <4>1, <4>2
    <3> QED BY <1>2, <1>5, <3>1
  <2> QED BY <2>1, <2>2
<1>8. \A q \in Slots : Stays(q)
  <2>1. "exit" \notin ReadAt \cup WriteAt /\ {"write", "read"} \subseteq OnAt
    BY DEF ReadAt, WriteAt, OnAt
  <2> QED BY <1>1, <1>7, <2>1, PipeOfKept DEF Stays
<1>9. Fits'
  <2>1. Fit(pc'[p], file_descriptors'[p], round'[p], round[Shell], call'[p])
    BY <1>1, <1>6, <1>7, <1>f DEF Fit
  <2>2. \A q \in Programs \ {p} : q \in Slots \ {p}
    BY DEF Programs
  <2>3. \A q \in Slots : Live(q)' <=> Live(q)
    BY <1>3 DEF Live
  <2>4. call'[p].token \in BOOLEAN /\ ~call'[p].token
    BY <1>7
  <2>5. \A q \in Programs \ {p} : Live(q)' =>
          /\ Live(q) /\ pc'[q] = pc[q] /\ round'[q] = round[q]
          /\ file_descriptors'[q] = file_descriptors[q]
    BY <1>1, <1>7, <2>2, <2>3
  <2>6. \A q \in Slots \ {p} : call'[q] = call[q]
    BY <1>7
  <2>7. round'[Shell] = round[Shell]
    BY <1>1
  <2> QED BY <1>2, <1>5, <2>1, <2>4, <2>5, <2>6, <2>7, FitsKept
<1>10. \A q \in Slots : /\ call'[q].token = call[q].token
                        /\ pc'[q] # pc[q] => ~call[q].token
  BY <1>4, <1>7
<1>11. \A q \in Slots : SleepsAlike(Kernel, Kernel', q) /\ (Live(q)' <=> Live(q))
  BY <1>3 DEF SleepsAlike, Live
<1> QED BY <1>1, <1>8, <1>9, <1>10, <1>11, QuietFlow

-----------------------------------------------------------------------------
(* The steps that go through a pipe.                                       *)

\* A step on pipe i, by what it does to whoever is there.
LEMMA PassFlow ==
  ASSUME PipeInv, FlowInv, NEW i \in Anon, Fits', Later', Histories',
         \A j \in Anon \ {i} : /\ sems'[Items(j)] = sems[Items(j)]
                               /\ sems'[Space(j)] = sems[Space(j)]
                               /\ pipes'[j] = pipes[j],
         DOMAIN pipes'[i].buffer = Places,
         \A q \in Slots : Stays(q),
         \A q \in Slots : pc'[q] \in ReadAt \cup WriteAt /\ PipeOf(q) # i =>
           /\ call'[q].token = call[q].token
           /\ call[q].token => SleepsAlike(Kernel, Kernel', q)
           /\ sent'[round[q]] = sent[round[q]] /\ got'[round[q]] = got[round[q]],
         \A q \in Slots : pc'[q] \in ReadAt \cup WriteAt /\ PipeOf(q) = i => ServedNow(q)',
         \A q \in Slots : Live(q)' =>
           /\ Live(q)
           /\ pc'[q] # pc[q] \/ PipeOf(q)' # PipeOf(q) =>
                q = Shell \/ ~call[q].token \/ state[q] # "BLOCKED",
         \A q \in Slots : pipes'[i].is_in_use /\ Live(q)' => InPlace(i, q)'
  PROVE  FlowInv'
<1>1. Lines'
  BY LinesKept DEF FlowInv, LineInv
<1>2. Buffers'
  BY DEF FlowInv, Buffers
<1>3. ASSUME NEW q \in Slots, pc'[q] \in ReadAt \cup WriteAt
      PROVE  ServedNow(q)'
  <2>1. CASE PipeOf(q) = i
    BY <1>3, <2>1
  <2>2. CASE PipeOf(q) # i
    BY <1>3, <2>2, ServedElsewhere
  <2> QED BY <2>1, <2>2
<1>4. ASSUME NEW j \in Anon, NEW q \in Slots, pipes'[j].is_in_use, Live(q)'
      PROVE  InPlace(j, q)'
  <2>1. CASE j = i
    BY <1>4, <2>1
  <2>2. CASE j # i
    BY <1>4, <2>2, StraysKept
  <2> QED BY <2>1, <2>2
<1>5. ServedAll' /\ Strays'
  BY <1>3, <1>4 DEF ServedAll, Strays
<1> QED BY <1>1, <1>2, <1>5 DEF FlowInv, LineInv

\* What a pipe gives to a process at it, in the queue that the process may be in.
LEMMA GivesServed ==
  ASSUME NEW w, NEW v, NEW i \in Anon, NEW a \in Int, NEW b \in Int, Gives(w, v, i, a, b),
         NEW q \in Slots, NEW tok \in BOOLEAN, NEW l,
         NEW s, NEW g, Served(w, s, g, i, l, tok, q),
         l \in ReadAt => ~InQueue(w.s[Space(i)], q),
         l \in WriteAt => ~InQueue(w.s[Items(i)], q),
         NEW t, NEW h, Ring(v.p[i], t, h),
         Tokens(w.p[i], s, g) \in Int, Room(s, g) \in Int,
         l \in ReadAt => Tokens(v.p[i], t, h) = Tokens(w.p[i], s, g) + a,
         l \in WriteAt => Room(t, h) = Room(s, g) + b
  PROVE  Served(v, t, h, i, l, tok, q)
<1>c. PICK c : c = Tokens(w.p[i], s, g)
  OBVIOUS
<1>d. PICK d : d = Room(s, g)
  OBVIOUS
<1>1. ASSUME l \in ReadAt
      PROVE  Seat(v.k, v.s[Items(i)], tok, q, Tokens(v.p[i], t, h))
  <2>1. ~InQueue(w.s[Space(i)], q) /\ Seat(w.k, w.s[Items(i)], tok, q, c) /\ c \in Int
    BY <1>1, <1>c DEF Served
  <2>2. Seat(v.k, v.s[Items(i)], tok, q, c + a)
    BY <2>1 DEF Gives
  <2> QED BY <1>1, <1>c, <2>2
<1>2. ASSUME l \in WriteAt
      PROVE  Seat(v.k, v.s[Space(i)], tok, q, Room(t, h))
  <2>1. ~InQueue(w.s[Items(i)], q) /\ Seat(w.k, w.s[Space(i)], tok, q, d) /\ d \in Int
    BY <1>2, <1>d DEF Served
  <2>2. Seat(v.k, v.s[Space(i)], tok, q, d + b)
    BY <2>1 DEF Gives
  <2> QED BY <1>2, <1>d, <2>2
<1> QED BY <1>1, <1>2 DEF Served

LEMMA TokensAreInt ==
  ASSUME NEW x, NEW s, NEW g, Kept(s, g)
  PROVE  Tokens(x, s, g) \in Int /\ Room(s, g) \in Int /\ OnWay(s, g) \in Nat
<1>1. OnWay(s, g) \in 0 .. PIPE_BUFFER_SIZE /\ PIPE_BUFFER_SIZE \in Nat /\ EOF_POSTS \in Nat
  BY PipeAssumption DEF Kept
<1> QED BY <1>1 DEF Tokens, Room

\* A process queues for the one thing that it is there for, if at all.
LEMMA OwnQueue ==
  ASSUME PipeInv, FlowInv, NEW q \in Slots, NEW i \in Anon, pipes[i].is_in_use
  PROVE  /\ pc[q] \in ReadAt => ~InQueue(sems[Space(i)], q)
         /\ pc[q] \in WriteAt => ~InQueue(sems[Items(i)], q)
         /\ PipeOf(q) # i /\ (q = Shell \/ Live(q)) =>
              ~InQueue(sems[Items(i)], q) /\ ~InQueue(sems[Space(i)], q)
<1>1. Items(i) \in SemNames /\ Space(i) \in SemNames
  BY NamesOfPipe DEF SemsOf
<1>2. InQueue(sems[Items(i)], q) \/ InQueue(sems[Space(i)], q) => q \in Programs
  BY <1>1, WorldNow, InQueueProgram
<1>3. pc[q] \in ReadAt \cup WriteAt => q = Shell \/ Live(q)
  BY AtThePipe, LabelsOnAt DEF FlowInv, LineInv
<1>4. Live(q) =>
        /\ InQueue(sems[Items(i)], q) => pc[q] = "read" /\ PipeOf(q) = i
        /\ InQueue(sems[Space(i)], q) => pc[q] = "write" /\ PipeOf(q) = i
  BY InQueueAsleep
<1>5. "read" \notin WriteAt /\ "write" \notin ReadAt
  BY DEF ReadAt, WriteAt
<1> QED BY <1>2, <1>3, <1>4, <1>5, ShellIsAProcess

\* The pipe of a process that goes on to use it is in use.
PipesHeld == \A p \in Slots : pc[p] \in OnAt => pipes[PipeOf(p)].is_in_use

LEMMA HeldNow == PipeInv /\ Fits => PipesHeld
<1> SUFFICES ASSUME PipeInv, Fits
             PROVE  PipesHeld
  OBVIOUS
<1> QED BY AtThePipe DEF PipesHeld

LEMMA HeldNext == PipeInv' /\ Fits' => PipesHeld'
BY HeldNow, PTL

\* An end of pipe i is closed: by the shell, or for a program p that dies, whose
\* death the kernel is told of before (w) and after (v).
LEMMA EndFlow ==
  ASSUME PipeInv, PipeInv', FlowInv, Fits', NEW i \in Anon, pipes[i].is_in_use,
         NEW p \in Slots, NEW w, NEW v, w.s = sems, w.p = pipes, Ends(w, v, i),
         sems' = v.s, pipes' = v.p,
         \A q \in Slots \ {p} : call[q].token =>
           SleepsAlike(Kernel, w.k, q) /\ SleepsAlike(v.k, Kernel', q),
         UNCHANGED <<pipe_id, sent, got>>, round'[Shell] = round[Shell],
         \A q \in Slots \ {p} : /\ pc'[q] = pc[q] /\ round'[q] = round[q]
                                /\ file_descriptors'[q] = file_descriptors[q]
                                /\ call'[q] = call[q] /\ (Live(q)' => Live(q)),
         pc'[p] \notin ReadAt \cup WriteAt, Stays(p), Live(p)' => p = Shell
  PROVE  FlowInv'
<1>0. /\ Moved(w, v, i) /\ SameRing(pipes[i], v.p[i])
      /\ pipes[i].eof_signaled => v.p[i].eof_signaled
      /\ v.p[i].is_in_use => Gives(w, v, i, Signal(pipes[i], v.p[i]), 0)
  BY DEF Ends
<1>1. \A j \in Anon \ {i} : /\ sems'[Items(j)] = sems[Items(j)]
                            /\ sems'[Space(j)] = sems[Space(j)]
                            /\ pipes'[j] = pipes[j]
  BY <1>0 DEF Moved
<1>2. DOMAIN pipes'[i].buffer = Places
  BY <1>0 DEF FlowInv, Buffers, SameRing
<1>3. Later' /\ Histories'
  BY DEF FlowInv, LineInv, Later, Histories
<1>4. \A q \in Slots \ {p} : PipeOf(q)' = PipeOf(q)
  BY PipeOfKept
<1>5. \A q \in Slots : Stays(q)
  BY <1>4 DEF Stays
<1>6. \A q \in Slots : pc'[q] \in ReadAt \cup WriteAt => q # p /\ pc[q] \in OnAt
  BY <1>5, LabelsOnAt DEF Stays
<1>7. ASSUME NEW q \in Slots, pc'[q] \in ReadAt \cup WriteAt, PipeOf(q) # i, call[q].token
      PROVE  SleepsAlike(Kernel, Kernel', q)
  <2>1. q # p /\ Live(q)
    BY <1>6, <1>7, TokensLive DEF FlowInv, LineInv
  <2>2. ~InQueue(sems[Items(i)], q) /\ ~InQueue(sems[Space(i)], q)
    BY <1>7, <2>1, OwnQueue
  <2>3. SleepsAlike(w.k, v.k, q)
    BY <1>0, <2>2 DEF Moved
  <2>4. SleepsAlike(Kernel, w.k, q) /\ SleepsAlike(v.k, Kernel', q)
    BY <1>7, <2>1
  <2> QED BY <2>3, <2>4 DEF SleepsAlike
<1>8. ASSUME NEW q \in Slots, pc'[q] \in ReadAt \cup WriteAt, PipeOf(q) = i
      PROVE  ServedNow(q)'
  <2>1. /\ q # p /\ pc[q] \in OnAt /\ pc'[q] = pc[q] /\ round'[q] = round[q]
        /\ PipeOf(q)' = i /\ call'[q] = call[q]
    BY <1>4, <1>6, <1>8
  <2>r. PICK r : r = round[q]
    OBVIOUS
  <2>t. PICK tok : tok = call[q].token
    OBVIOUS
  <2>l. PICK l : l = pc[q]
    OBVIOUS
  <2>s. PICK s : s = sent[r]
    OBVIOUS
  <2>g. PICK g : g = got[r]
    OBVIOUS
  <2>2. tok \in BOOLEAN /\ r \in Rounds
    <3>1. tok \in BOOLEAN
      BY <2>t DEF FlowInv, LineInv, Fits
    <3>2. round[q] \in 1 .. round[Shell] /\ round[Shell] \in Nat
      BY <2>1, AtThePipe DEF FlowInv, LineInv
    <3>3. round[Shell] \in 0 .. ROUNDS /\ ROUNDS \in Nat
      BY PipelineAssumption DEF FlowInv, LineInv, Later
    <3> QED BY <2>r, <3>1, <3>2, <3>3 DEF Rounds
  <2>3. Kept(s, g)
    BY <2>2, <2>s, <2>g DEF FlowInv, Histories
  <2>4. Served(World, s, g, i, l, tok, q)
    BY <1>8, <2>1, <2>r, <2>t, <2>l, <2>s, <2>g DEF FlowInv, ServedAll, ServedNow
  <2>5. tok => SleepsAlike(Kernel, w.k, q) /\ SleepsAlike(v.k, Kernel', q)
    BY <2>1, <2>t
  <2>6. Served(w, s, g, i, l, tok, q)
    <3>1. /\ World.k = Kernel /\ w.p[i] = World.p[i]
          /\ w.s[Items(i)] = World.s[Items(i)] /\ w.s[Space(i)] = World.s[Space(i)]
      BY WorldNow
    <3>2. tok => SleepsAlike(World.k, w.k, q)
      BY <2>5, <3>1
    <3> QED BY <2>4, <3>1, <3>2, ServedAlike
  <2>7. pipes'[i].is_in_use
    <3>1. PipesHeld'
      BY HeldNext
    <3>2. pipes'[PipeOf(q)'].is_in_use
      BY <2>1, <3>1 DEF PipesHeld
    <3> QED BY <2>1, <3>2
  <2>a. PICK a : a = Signal(pipes[i], v.p[i])
    OBVIOUS
  <2>8. a \in Int /\ Gives(w, v, i, a, 0)
    BY <1>0, <2>7, <2>a, PipeAssumption DEF Signal
  <2>9. /\ l \in ReadAt => ~InQueue(w.s[Space(i)], q)
        /\ l \in WriteAt => ~InQueue(w.s[Items(i)], q)
    BY <2>l, OwnQueue
  <2>10. Ring(v.p[i], s, g)
    <3>1. l \in ReadAt \cup WriteAt
      BY <1>8, <2>1, <2>l
    <3>2. Ring(pipes[i], s, g)
      BY <2>6, <3>1 DEF Served
    <3> QED BY <1>0, <3>2 DEF Ring, SameRing
  <2>11. /\ Tokens(w.p[i], s, g) \in Int /\ Room(s, g) \in Int
         /\ Tokens(v.p[i], s, g) = Tokens(w.p[i], s, g) + a
         /\ Room(s, g) = Room(s, g) + 0
    <3>1. OnWay(s, g) \in Nat /\ EOF_POSTS \in Nat /\ Room(s, g) \in Int
          /\ Tokens(w.p[i], s, g) \in Int
      BY <2>3, TokensAreInt, PipeAssumption
    <3>2. Tokens(v.p[i], s, g) = Tokens(w.p[i], s, g) + a
      BY <1>0, <2>a, <3>1 DEF Tokens, Signal
    <3> QED BY <3>1, <3>2
  <2>12. Served(v, s, g, i, l, tok, q)
    <3>1. i \in Anon /\ q \in Slots /\ 0 \in Int
      OBVIOUS
    <3> QED BY ONLY <3>1, <2>2, <2>6, <2>8, <2>9, <2>10, <2>11, GivesServed
  <2>x. PICK x : x = World'
    OBVIOUS
  <2>13. x.k = Kernel' /\ x.s = v.s /\ x.p = v.p
    BY <2>x DEF World
  <2>14. Served(x, s, g, i, l, tok, q)
    BY <2>5, <2>12, <2>13, ServedAlike
  <2>15. Served(World', sent'[r], got'[r], i, l, tok, q)
    BY <2>14, <2>x, <2>s, <2>g
  <2> QED BY <2>1, <2>15, <2>r, <2>l, <2>t DEF ServedNow
<1>9. \A q \in Slots : Live(q)' =>
        /\ Live(q)
        /\ pc'[q] # pc[q] \/ PipeOf(q)' # PipeOf(q) =>
             q = Shell \/ ~call[q].token \/ state[q] # "BLOCKED"
  BY <1>4 DEF PipeInv, ProgramsOK, ShellOK
<1>10. ASSUME NEW q \in Slots, pipes'[i].is_in_use, Live(q)'
       PROVE  InPlace(i, q)'
  <2>1. /\ InQueue(v.s[Items(i)], q) => InQueue(sems[Items(i)], q)
        /\ InQueue(v.s[Space(i)], q) => InQueue(sems[Space(i)], q)
    BY <1>0 DEF Moved
  <2> QED BY <1>9, <1>10, <2>1, StraysKept
<1>11. \A q \in Slots : pc'[q] \in ReadAt \cup WriteAt /\ PipeOf(q) # i =>
         /\ call'[q].token = call[q].token
         /\ call[q].token => SleepsAlike(Kernel, Kernel', q)
         /\ sent'[round[q]] = sent[round[q]] /\ got'[round[q]] = got[round[q]]
  BY <1>6, <1>7
<1> QED BY <1>1, <1>2, <1>3, <1>5, <1>8, <1>9, <1>10, <1>11, PassFlow

LEMMA SleepsSame == \A k, q : SleepsAlike(k, k, q)
BY DEF SleepsAlike

\* The shell closes an end of its pipe.
LEMMA ShellEnds ==
  ASSUME PipeInv, PipeInv', FlowInv, pc[Shell] \in {"close_read", "close_write"},
         NEW i, i = pipe_id, NEW v, WorldBecomes(v), Sound(v), Woken(Kernel, v.k), TableStays,
         Ends(World, v, i), NEW l \in {"close_write", "wait_A", "yield"}, Goto(Shell, l),
         UNCHANGED <<file_descriptors, call, round, pipe_id, sent, got>>
  PROVE  FlowInv'
<1>w. PICK w : w = World
  OBVIOUS
<1>1. w.k = Kernel /\ w.s = sems /\ w.p = pipes /\ Ends(w, v, i)
  BY <1>w, WorldNow
<1>2. Kernel' = v.k /\ sems' = v.s /\ pipes' = v.p
  BY WorldNext
<1>3. \A q \in Slots : Live(q)' <=> Live(q)
  BY WokenWaits
<1>4. Shell \in Slots /\ Shell \notin Programs /\ DOMAIN pc = Slots /\ Fits
  BY ShellIsAProcess DEF PipeInv, ProgramsOK, FlowInv, LineInv
<1>5. pc'[Shell] = l /\ \A q \in Slots \ {Shell} : pc'[q] = pc[q]
  BY <1>4 DEF Goto
<1>6. pc[Shell] \in OnAt /\ pc'[Shell] \notin ReadAt \cup WriteAt
  BY <1>5 DEF OnAt, ReadAt, WriteAt
<1>7. i \in Anon /\ pipes[i].is_in_use
  BY <1>4, <1>6, AtThePipe DEF PipeOf
<1>8. Stays(Shell)
  BY <1>6, PipeOfKept DEF Stays
<1>9. Fits'
  <2>1. call'[Shell].token \in BOOLEAN /\ ~call'[Shell].token
    BY <1>4 DEF Fits
  <2>2. \A p \in Programs \ {Shell} : Live(p)' =>
          /\ Live(p) /\ pc'[p] = pc[p] /\ round'[p] = round[p]
          /\ file_descriptors'[p] = file_descriptors[p]
    BY <1>3, <1>4, <1>5 DEF Programs
  <2> QED BY <1>4, <2>1, <2>2, FitsKept
<1>10. \A q \in Slots \ {Shell} : /\ pc'[q] = pc[q] /\ round'[q] = round[q]
                                  /\ file_descriptors'[q] = file_descriptors[q]
                                  /\ call'[q] = call[q] /\ (Live(q)' => Live(q))
  BY <1>3, <1>5
<1>11. \A q \in Slots \ {Shell} : call[q].token =>
         SleepsAlike(Kernel, w.k, q) /\ SleepsAlike(v.k, Kernel', q)
  BY <1>1, <1>2, SleepsSame
<1>12. UNCHANGED <<pipe_id, sent, got>> /\ round'[Shell] = round[Shell]
       /\ (Live(Shell)' => Shell = Shell)
  OBVIOUS
<1> QED BY <1>1, <1>2, <1>4, <1>6, <1>7, <1>8, <1>9, <1>10, <1>11, <1>12, EndFlow

LEMMA ClosesFlow ==
  ASSUME PipeInv, PipeInv', FlowInv, ShellClosesRead \/ ShellClosesWrite
  PROVE  FlowInv'
<1>i. PICK i : i = pipe_id
  OBVIOUS
<1>A. PICK A : A = Readers
  OBVIOUS
<1>B. PICK B : B = Writers
  OBVIOUS
<1>1. A \in EndSets /\ B \in EndSets /\ Booked(World, A, B) /\ World.k = Kernel
  BY <1>A, <1>B, EndSetsNow DEF PipeInv, Counts, World
<1>2. CASE ShellClosesRead
  <2>1. /\ At("close_read") /\ "close_read" \notin ProgramLabels
        /\ HeldAt("close_read") = Modes /\ "PIPE_READ_END" \in Modes
    BY <1>2 DEF ShellClosesRead, ShellCloses, ProgramLabels, HeldAt, Modes
  <2>2. pc[Shell] = "close_read" /\ held = Modes /\ i \in Anon
    BY <2>1, <1>i, ShellAt
  <2>3. Shell \in A[i]
    BY <2>1, <2>2, <1>A, <1>i, HoldersAre, ShellIsAProcess
  <2>v. PICK v : v = PipeClose(World, i, "PIPE_READ_END")
    OBVIOUS
  <2>4. Booked(v, Less(A, i, Shell), B) /\ Woken(Kernel, v.k) /\ Ends(World, v, i)
    BY <1>1, <2>2, <2>3, <2>v, BookedReadCloses
  <2>5. Sound(v)
    BY <2>4 DEF Booked
  <2>6. /\ WorldBecomes(v) /\ TableStays /\ Goto(Shell, "close_write")
        /\ UNCHANGED <<file_descriptors, call, round, pipe_id, sent, got>>
    BY <1>2, <1>i, <2>v DEF ShellClosesRead, ShellCloses
  <2> QED BY <1>i, <2>2, <2>4, <2>5, <2>6, ShellEnds
<1>3. CASE ShellClosesWrite
  <2>l. PICK l : l = IF plan.foreground THEN "wait_A" ELSE "yield"
    OBVIOUS
  <2>1. /\ At("close_write") /\ "close_write" \notin ProgramLabels
        /\ HeldAt("close_write") = {"PIPE_WRITE_END"}
    BY <1>3 DEF ShellClosesWrite, ShellCloses, ProgramLabels, HeldAt
  <2>2. pc[Shell] = "close_write" /\ held = {"PIPE_WRITE_END"} /\ i \in Anon
    BY <2>1, <1>i, ShellAt
  <2>3. Shell \in B[i]
    BY <2>1, <2>2, <1>B, <1>i, HoldersAre, ShellIsAProcess
  <2>v. PICK v : v = PipeClose(World, i, "PIPE_WRITE_END")
    OBVIOUS
  <2>4. Booked(v, A, Less(B, i, Shell)) /\ Woken(Kernel, v.k) /\ Ends(World, v, i)
    BY <1>1, <2>2, <2>3, <2>v, BookedWriteCloses
  <2>5. Sound(v)
    BY <2>4 DEF Booked
  <2>6. /\ WorldBecomes(v) /\ TableStays /\ Goto(Shell, l) /\ l \in {"wait_A", "yield"}
        /\ UNCHANGED <<file_descriptors, call, round, pipe_id, sent, got>>
    BY <1>3, <1>i, <2>v, <2>l DEF ShellClosesWrite, ShellCloses
  <2> QED BY <1>i, <2>2, <2>4, <2>5, <2>6, ShellEnds
<1> QED BY <1>2, <1>3

\* A program has one end of a pipe, which closes when it dies.
LEMMA EndKilled ==
  ASSUME PipeInv, FlowInv, NEW p \in Programs, Live(p),
         NEW w, w = Dead(p), NEW v, v = KilledWorld(p)
  PROVE  \E i \in Anon : pipes[i].is_in_use /\ Ends(w, v, i)
<1>f. PICK fd : fd = file_descriptors[p]
  OBVIOUS
<1>A. PICK A : A = Readers
  OBVIOUS
<1>B. PICK B : B = Writers
  OBVIOUS
<1>i. PICK i : i = PipeOf(p)
  OBVIOUS
<1>1. /\ A \in EndSets /\ B \in EndSets /\ Booked(w, A, B) /\ v = KillPipes(w, fd)
      /\ fd.in \in Anon => p \in A[fd.in]
      /\ fd.out \in Anon => p \in B[fd.out]
  BY <1>f, <1>A, <1>B, ZombieBooks
<1>2. p \in Slots /\ p # Shell /\ Fit(pc[p], fd, round[p], round[Shell], call[p])
  BY <1>f, ShellIsAProcess DEF FlowInv, LineInv, Fits, Programs
<1>3. pc[p] \in OnAt
  BY <1>2 DEF Fit, OnAt, ReadAt, WriteAt
<1>4. i \in Anon /\ pipes[i].is_in_use
  BY <1>2, <1>3, <1>i, AtThePipe DEF FlowInv, LineInv
<1>5. CASE fd.in = STDIN /\ fd.out \in Anon
  <2>1. i = fd.out /\ fd.out > STDERR /\ ~(fd.in > STDERR)
    BY <1>2, <1>5, <1>f, <1>i DEF PipeOf, Anon, STDIN, STDERR
  <2>2. v = PipeClose(w, i, "PIPE_WRITE_END") /\ p \in B[i]
    BY <1>1, <1>5, <2>1 DEF KillPipes
  <2>3. Ends(w, v, i)
    BY <1>1, <1>4, <2>2, BookedWriteCloses
  <2> QED BY <1>4, <2>3
<1>6. CASE fd.in \in Anon /\ fd.out = STDOUT
  <2>1. i = fd.in /\ fd.in > STDERR /\ ~(fd.out > STDERR)
    BY <1>2, <1>6, <1>f, <1>i DEF PipeOf, Anon, STDIN, STDOUT, STDERR
  <2>2. v = PipeClose(w, i, "PIPE_READ_END") /\ p \in A[i]
    BY <1>1, <1>6, <2>1 DEF KillPipes
  <2>3. Ends(w, v, i)
    BY <1>1, <1>4, <2>2, BookedReadCloses
  <2> QED BY <1>4, <2>3
<1> QED BY <1>2, <1>5, <1>6 DEF Fit

LEMMA KillFlow ==
  ASSUME PipeInv, PipeInv', FlowInv, NEW p \in Programs, KillPiped(p), Leaves(p)
  PROVE  FlowInv'
<1>w. PICK w : w = Dead(p)
  OBVIOUS
<1>v. PICK v : v = KilledWorld(p)
  OBVIOUS
<1>k. PICK k : k = v.k
  OBVIOUS
<1>1. /\ Live(p) /\ Woken(Zombie(Kernel, p), k) /\ WaitInv
      /\ KernelBecomes(KillKernel(k, Family, p)) /\ sems' = v.s /\ pipes' = v.p
  BY <1>v, <1>k, KillTells DEF PipeInv
<1>2. /\ call' = [call EXCEPT ![p] = NoCall]
      /\ file_descriptors' = [file_descriptors EXCEPT ![p] = StandardFds]
      /\ pc' = [pc EXCEPT ![p] = "gone"] /\ round' = [round EXCEPT ![p] = 0]
      /\ UNCHANGED <<pipe_id, sent, got>>
  BY DEF KillPiped, Leaves, Goto, StandardFds
<1>3. /\ p \in Slots /\ p # Shell /\ Shell \in Slots /\ DOMAIN pc = Slots /\ DOMAIN call = Slots
      /\ DOMAIN round = Slots /\ DOMAIN file_descriptors = Slots /\ Fits
  BY ShellIsAProcess DEF PipeInv, ProgramsOK, FlowInv, LineInv, Programs
<1>4. PICK i \in Anon : pipes[i].is_in_use /\ Ends(w, v, i)
  BY <1>1, <1>w, <1>v, EndKilled
<1>5. /\ w.k = Zombie(Kernel, p) /\ w.s = sems /\ w.p = pipes
      /\ \A q \in Slots \ {p} : w.k.state[q] = Kernel.state[q]
      /\ w.k.blocks_amount = Kernel.blocks_amount
  <2>1. Coherent(Kernel)
    BY SettledCoherent DEF PipeInv, WaitInv, ProcInv, SchedInv
  <2>2. w.k = Zombie(Kernel, p) /\ w.s = sems /\ w.p = pipes
    BY <1>w DEF Dead
  <2> QED BY <1>3, <2>1, <2>2, ZombieFacts
<1>6. /\ ~Live(p)'
      /\ \A q \in Slots \ {p} : Live(q)' <=> Live(q)
      /\ \A q \in Programs \ {p} : SleepsAlike(k, Kernel', q)
  <2>1. /\ state'[p] = "ZOMBIE"
        /\ \A q \in Slots \ {p} : Live(q)' <=> Live(q)
        /\ \A q \in Programs \ {p} : SleepsAlike(k, Kernel', q)
    BY <1>1, DeathStates
  <2> QED BY <2>1 DEF Live
<1>7. /\ pc'[p] = "gone" /\ call'[p] = NoCall /\ round'[Shell] = round[Shell]
      /\ \A q \in Slots \ {p} : /\ pc'[q] = pc[q] /\ round'[q] = round[q]
                                /\ file_descriptors'[q] = file_descriptors[q]
                                /\ call'[q] = call[q]
  BY <1>2, <1>3
<1>8. pc'[p] \notin OnAt /\ pc'[p] \notin ReadAt \cup WriteAt
  BY <1>7, LabelsOnAt
<1>9. \A q \in Slots \ {p} : call[q].token =>
         SleepsAlike(Kernel, w.k, q) /\ SleepsAlike(v.k, Kernel', q)
  <2>1. \A q \in Slots \ {p} : SleepsAlike(Kernel, w.k, q)
    BY <1>5 DEF SleepsAlike
  <2>2. \A q \in Slots \ {p} : call[q].token => q \in Programs \ {p}
    BY <1>3, TokensLive
  <2> QED BY <1>6, <1>k, <2>1, <2>2
<1>10. Fits'
  <2>1. NoCall.token = FALSE
    BY DEF NoCall
  <2>2. call'[p].token \in BOOLEAN /\ ~call'[p].token
    BY <1>7, <2>1
  <2>3. \A q \in Programs \ {p} : Live(q)' =>
          /\ Live(q) /\ pc'[q] = pc[q] /\ round'[q] = round[q]
          /\ file_descriptors'[q] = file_descriptors[q]
    BY <1>6, <1>7 DEF Programs
  <2>4. \A q \in Slots \ {p} : call'[q] = call[q]
    BY <1>7
  <2> QED BY <1>3, <1>6, <1>7, <2>2, <2>3, <2>4, FitsKept
<1>11. Stays(p) /\ (Live(p)' => p = Shell)
  BY <1>6, <1>8 DEF Stays
<1>12. \A q \in Slots \ {p} : /\ pc'[q] = pc[q] /\ round'[q] = round[q]
                              /\ file_descriptors'[q] = file_descriptors[q]
                              /\ call'[q] = call[q] /\ (Live(q)' => Live(q))
  BY <1>6, <1>7
<1>13. UNCHANGED <<pipe_id, sent, got>>
  BY <1>2
<1> QED BY <1>1, <1>3, <1>4, <1>5, <1>7, <1>8, <1>9, <1>10, <1>11, <1>12, <1>13, EndFlow

LEMMA DeathFlow ==
  ASSUME PipeInv, PipeInv', FlowInv, ProgramExits \/ \E p \in Slots \ {Shell} : UserKills(p)
  PROVE  FlowInv'
<1>1. CASE ProgramExits
  <2>1. At("exit") /\ Caller # Shell /\ KillPiped(Caller) /\ Leaves(Caller)
    BY <1>1 DEF ProgramExits
  <2>2. Caller \in Programs
    BY <2>1, CallerIs DEF At, InUser
  <2> QED BY <2>1, <2>2, KillFlow
<1>2. ASSUME NEW p \in Slots \ {Shell}, UserKills(p)
      PROVE  FlowInv'
  <2>1. round[p] > 0 /\ KillPiped(p) /\ Leaves(p)
    BY <1>2 DEF UserKills
  <2>2. p \in Programs
    BY <2>1 DEF PipeInv, ProgramsOK, ShellOK, Programs, Shell
  <2> QED BY <2>1, <2>2, KillFlow
<1> QED BY <1>1, <1>2

-----------------------------------------------------------------------------
(* The steps inside of a call.                                             *)

LEMMA RoundOfLine ==
  ASSUME PipeInv, FlowInv, NEW q \in Slots, pc[q] \in OnAt
  PROVE  round[q] \in Rounds /\ Kept(sent[round[q]], got[round[q]])
<1>1. round[q] \in 1 .. round[Shell] /\ round[Shell] \in Nat
  BY AtThePipe DEF FlowInv, LineInv
<1>2. round[Shell] \in 0 .. ROUNDS /\ ROUNDS \in Nat
  BY PipelineAssumption DEF FlowInv, LineInv, Later
<1>3. round[q] \in Rounds
  BY <1>1, <1>2 DEF Rounds
<1> QED BY <1>3 DEF FlowInv, Histories

\* The caller is at its pipe, which serves it.
LEMMA CallerAtPipe ==
  ASSUME PipeInv, FlowInv, InCall, call[Caller].op \in {"write", "read"},
         NEW p, p = Caller, NEW i, i = call[p].id, NEW r, r = round[p],
         NEW s, s = sent[r], NEW g, g = got[r], NEW l, l = pc[p],
         NEW tok, tok = call[p].token
  PROVE  /\ p \in Programs /\ p \in Slots /\ p # Shell /\ p # IDLE_PID /\ Live(p)
         /\ Kernel.current_index = p
         /\ l = call[p].op /\ l \in OnAt /\ PipeOf(p) = i /\ CallShape(call[p])
         /\ r \in Rounds /\ tok \in BOOLEAN /\ Kept(s, g) /\ Ring(pipes[i], s, g)
         /\ Served(World, s, g, i, l, tok, p)
<1>1. p \in Programs /\ Live(p) /\ i \in Anon
  BY InTheCall
<1>2. p \in Slots /\ p # Shell /\ p # IDLE_PID
  BY <1>1, ShellIsAProcess DEF Programs
<1>3. CallOK(call[p], file_descriptors[p]) /\ Kernel.current_index = p
  BY <1>2, RunnerFacts DEF PipeInv, ProgramsOK, WaitInv, ProcInv
<1>f. PICK fd : fd = file_descriptors[p]
  OBVIOUS
<1>4. Fit(l, fd, r, round[Shell], call[p]) /\ tok \in BOOLEAN
  BY <1>1, <1>2, <1>f DEF FlowInv, LineInv, Fits
<1>5. l = call[p].op
  BY <1>4 DEF Fit
<1>6. l \in ReadAt \cup WriteAt /\ l \in OnAt
  BY <1>5 DEF ReadAt, WriteAt, OnAt
<1>7. PipeOf(p) = i
  <2>1. \/ fd.in = STDIN /\ fd.out \in Anon /\ l = "write"
        \/ fd.in \in Anon /\ fd.out = STDOUT /\ l = "read"
    BY <1>4, <1>5 DEF Fit
  <2>2. l = "write" => i = fd.out
    BY <1>3, <1>5, <1>f DEF CallOK
  <2>3. l = "read" => i = fd.in
    BY <1>3, <1>5, <1>f DEF CallOK
  <2>4. \A x \in Anon : x # STDIN
    BY DEF Anon, STDIN, STDERR
  <2> QED BY <1>2, <1>f, <2>1, <2>2, <2>3, <2>4 DEF PipeOf
<1>8. r \in Rounds /\ Kept(s, g)
  BY <1>2, <1>6, RoundOfLine
<1>9. Served(World, s, g, i, l, tok, p)
  BY <1>2, <1>6, <1>7 DEF FlowInv, ServedAll, ServedNow
<1>10. Ring(pipes[i], s, g)
  BY <1>6, <1>9, WorldNow DEF Served
<1> QED BY <1>1, <1>2, <1>3, <1>4, <1>5, <1>6, <1>7, <1>8, <1>9, <1>10 DEF CallOK

\* What sem_wait(n) does to its own queue.
LEMMA WaitQueue ==
  ASSUME NEW w, Sound(w), NEW n \in SemNames, w.s[n].initialized,
         NEW v, v = SemWaitIn(w, n)
  PROVE  /\ v.s[n].value = w.s[n].value - 1
         /\ v.s[n].blocked = IF MustSleep(w.s, n)
                             THEN Append(w.s[n].blocked, GetPid(w.k))
                             ELSE w.s[n].blocked
<1>s. PICK s : s = w.s
  OBVIOUS
<1>x. PICK x : x = s[n].value - 1
  OBVIOUS
<1>b. PICK b : b = IF MustSleep(s, n) THEN Append(s[n].blocked, GetPid(w.k))
                                      ELSE s[n].blocked
  OBVIOUS
<1>1. v.s = SemWaitTable(w.k, s, n)
  <2>1. w = [k |-> w.k, s |-> w.s, p |-> w.p]
    BY DEF Sound
  <2>t. PICK t : t = SemWaitTable(w.k, s, n)
    OBVIOUS
  <2>2. v = [w EXCEPT !.k = SemWaitKernel(w.k, s, n), !.s = t]
    BY <1>s, <2>t DEF SemWaitIn
  <2> QED BY <2>1, <2>2, <2>t
<1>2. v.s = [s EXCEPT ![n].value = x, ![n].blocked = b]
  BY <1>1, <1>s, <1>x, <1>b DEF SemWaitTable
<1>3. s \in SemTables
  BY <1>s DEF Sound
<1>4. v.s[n].value = x /\ v.s[n].blocked = b
  BY <1>2, <1>3 DEF SemTables, SemRecord
<1> QED BY <1>4, <1>s, <1>x, <1>b

\* A semaphore with nothing left, and the one who comes to wait for it.
LEMMA SeatTaken ==
  ASSUME NEW w, Sound(w), NEW n \in SemNames, MustSleep(w.s, n), NEW p, GetPid(w.k) = p,
         NEW c \in Int, Seat(w.k, w.s[n], FALSE, p, c), NEW v, v = SemWaitIn(w, n),
         v.k.state[p] = "BLOCKED", v.k.blocks_amount[p] = 1
  PROVE  c = 0 /\ Seat(v.k, v.s[n], TRUE, p, c)
<1>1. w.s[n].initialized /\ w.s[n].value - 1 < 0
  BY DEF MustSleep
<1>2. w.s[n].value = c /\ c >= 0 /\ w.s[n].blocked = <<>>
  BY DEF Seat
<1>3. c = 0
  BY <1>1, <1>2
<1>b. PICK b : b = w.s[n].blocked
  OBVIOUS
<1>4. v.s[n].value = w.s[n].value - 1 /\ v.s[n].blocked = Append(b, p)
  <2>1. /\ v.s[n].value = w.s[n].value - 1
        /\ v.s[n].blocked = IF MustSleep(w.s, n)
                            THEN Append(w.s[n].blocked, GetPid(w.k))
                            ELSE w.s[n].blocked
    BY <1>1, WaitQueue
  <2> QED BY <1>b, <2>1
<1>5. v.s[n].blocked = <<p>> /\ v.s[n].value = -1
  BY <1>2, <1>3, <1>4, <1>b
<1> QED BY <1>3, <1>4, <1>5 DEF Seat

\* Others at the pipe wait for something else.
LEMMA OthersApart ==
  ASSUME FlowInv, NEW p \in Slots, NEW q \in Slots \ {p}, pc[p] \in OnAt, pc[q] \in OnAt,
         PipeOf(p) = PipeOf(q)
  PROVE  /\ round[p] = round[q]
         /\ pc[p] \in ReadAt => pc[q] \notin ReadAt
         /\ pc[p] \in WriteAt => pc[q] \notin WriteAt
BY DEF FlowInv, LineInv, Lines

LEMMA SleepsFlow ==
  ASSUME PipeInv, FlowInv, WriteSleeps \/ ReadSleeps
  PROVE  FlowInv'
<1>p. PICK p : p = Caller
  OBVIOUS
<1>i. PICK i : i = call[p].id
  OBVIOUS
<1>r. PICK r : r = round[p]
  OBVIOUS
<1>s. PICK s : s = sent[r]
  OBVIOUS
<1>g. PICK g : g = got[r]
  OBVIOUS
<1>l. PICK l : l = pc[p]
  OBVIOUS
<1>t. PICK tok : tok = call[p].token
  OBVIOUS
<1>1. InCall /\ call[Caller].op \in {"write", "read"}
  BY DEF WriteSleeps, ReadSleeps
<1>2. /\ i \in Anon /\ pipes[i].is_in_use
      /\ ItemsOf(pipes[i]) = Items(i) /\ SpaceOf(pipes[i]) = Space(i)
      /\ Settled(Kernel) /\ GetPid(Kernel) = p
      /\ Sound(World) /\ World.k = Kernel /\ World.s = sems /\ World.p = pipes
  BY <1>1, <1>p, <1>i, InTheCall
<1>3. /\ p \in Programs /\ p \in Slots /\ p # Shell /\ p # IDLE_PID /\ Live(p)
      /\ Kernel.current_index = p
      /\ l = call[p].op /\ l \in OnAt /\ PipeOf(p) = i /\ CallShape(call[p])
      /\ r \in Rounds /\ tok \in BOOLEAN /\ Kept(s, g) /\ Ring(pipes[i], s, g)
      /\ Served(World, s, g, i, l, tok, p)
  BY <1>1, <1>p, <1>i, <1>r, <1>s, <1>g, <1>l, <1>t, CallerAtPipe
<1>n. PICK n : n = IF l = "write" THEN Space(i) ELSE Items(i)
  OBVIOUS
<1>4. /\ l \in {"write", "read"} /\ FallsAsleep(n) /\ TableStays /\ n \in SemNames
      /\ UNCHANGED <<file_descriptors, pc, round, pipe_id, sent, got>>
  <2>1. CASE WriteSleeps
    BY <1>2, <1>3, <1>p, <1>i, <1>n, <2>1, NamesOfPipe DEF WriteSleeps, progVars, SemsOf
  <2>2. CASE ReadSleeps
    BY <1>2, <1>3, <1>p, <1>i, <1>n, <2>2, NamesOfPipe DEF ReadSleeps, progVars, SemsOf
  <2> QED BY <2>1, <2>2
<1>w. PICK w : w = World
  OBVIOUS
<1>v. PICK v : v = SemWaitIn(w, n)
  OBVIOUS
<1>c. PICK c : c = call[p]
  OBVIOUS
<1>d. PICK d : d = [c EXCEPT !.token = TRUE]
  OBVIOUS
<1>5. /\ ~tok /\ MustSleep(w.s, n) /\ WorldBecomes(v)
      /\ call' = [call EXCEPT ![p] = d]
  BY <1>2, <1>4, <1>p, <1>t, <1>v, <1>w, <1>c, <1>d DEF FallsAsleep
<1>6. /\ Sound(v) /\ v.p = pipes /\ v.k = BlockProcess(Kernel, p)
      /\ Shifted(w.s, v.s, n)
  <2>1. n \in {Items(i), Space(i)} /\ GetPid(w.k) \in Programs /\ Settled(w.k) /\ Sound(w)
    BY <1>2, <1>3, <1>n, <1>w
  <2>2. Sound(v) /\ v.p = w.p
        /\ v.k = IF MustSleep(w.s, n) THEN BlockProcess(w.k, GetPid(w.k)) ELSE w.k
    BY <1>2, <1>v, <2>1, WaitWorld
  <2>3. Shifted(w.s, v.s, n)
    BY <1>4, <1>v, <2>1, WaitParts
  <2> QED BY <1>2, <1>5, <1>w, <2>2, <2>3
<1>7. /\ v.k.state[p] = "BLOCKED" /\ v.k.blocks_amount[p] = 1
      /\ \A q \in Slots \ {p, IDLE_PID} : Untouched(Kernel, v.k, q)
  BY <1>2, <1>3, <1>6, BlockSelf
<1>8. Kernel' = v.k /\ sems' = v.s /\ pipes' = pipes
  BY <1>5, <1>6, WorldNext
<1>9. \A q \in Slots : Live(q)' <=> Live(q)
  <2>1. IdleLives(Kernel) /\ SchedInv
    BY DEF PipeInv, WaitInv, ProcInv
  <2>2. Settled(v.k) /\ Phases(v.k) = Phases(Kernel) /\ KernelBecomes(v.k)
    BY <1>2, <1>3, <1>5, <1>6, <2>1, BlockPhases DEF WorldBecomes
  <2> QED BY <2>1, <2>2, SamePhases
<1>10. d.token = TRUE /\ d.op = c.op
  BY <1>3, <1>c, <1>d DEF CallShape
<1>11. /\ DOMAIN call = Slots /\ Fits /\ call'[p] = d
       /\ \A q \in Slots \ {p} : call'[q] = call[q]
  BY <1>3, <1>5 DEF PipeInv, ProgramsOK, FlowInv, LineInv
<1>12. Fits'
  <2>f. PICK fd : fd = file_descriptors[p]
    OBVIOUS
  <2>1. Fit(l, fd, r, round[Shell], c)
    BY <1>3, <1>11, <1>l, <1>r, <1>c, <2>f DEF Fits
  <2>2. Fit(pc'[p], file_descriptors'[p], round'[p], round[Shell], call'[p])
    BY <1>4, <1>10, <1>11, <1>l, <1>r, <2>f, <2>1 DEF Fit
  <2>3. call'[p].token \in BOOLEAN /\ call'[p].op # "none"
    BY <1>3, <1>4, <1>10, <1>11, <1>c
  <2>4. \A q \in Programs \ {p} : Live(q)' =>
          /\ Live(q) /\ pc'[q] = pc[q] /\ round'[q] = round[q]
          /\ file_descriptors'[q] = file_descriptors[q]
    BY <1>4, <1>9 DEF Programs
  <2>5. round'[Shell] = round[Shell] /\ \A q \in Slots \ {p} : call'[q] = call[q]
    BY <1>4, <1>11
  <2> QED BY <1>3, <1>11, <2>2, <2>3, <2>4, <2>5, FitsKept
<1>13. \A q \in Slots : Stays(q) /\ PipeOf(q)' = PipeOf(q)
  BY <1>4, PipeOfKept DEF Stays
<1>14. \A m \in SemNames \ {n} : sems'[m] = sems[m]
  BY <1>2, <1>6, <1>8, <1>w DEF Shifted
<1>15. \A j \in Anon \ {i} : /\ sems'[Items(j)] = sems[Items(j)]
                             /\ sems'[Space(j)] = sems[Space(j)]
                             /\ pipes'[j] = pipes[j]
  <2> SUFFICES ASSUME NEW j \in Anon \ {i}
               PROVE  /\ sems'[Items(j)] = sems[Items(j)]
                      /\ sems'[Space(j)] = sems[Space(j)]
    BY <1>8
  <2>1. Items(j) \in SemNames /\ Space(j) \in SemNames
    BY NamesOfPipe DEF SemsOf
  <2>2. Items(j) # n /\ Space(j) # n
    BY <1>2, <1>n, CountsApart
  <2> QED BY <1>14, <2>1, <2>2
<1>16. \A q \in Slots \ {p} : call[q].token => SleepsAlike(Kernel, Kernel', q)
  <2>1. \A q \in Slots \ {p} : call[q].token => q \in Slots \ {p, IDLE_PID}
    BY <1>11, TokensLive DEF Programs
  <2> QED BY <1>7, <1>8, <2>1 DEF SleepsAlike, Untouched
<1>17. ServedNow(p)'
  <2>c. PICK x : x = IF l = "write" THEN Room(s, g) ELSE Tokens(pipes[i], s, g)
    OBVIOUS
  <2>1. x \in Int
    BY <1>3, <2>c, TokensAreInt
  <2>2. l \in ReadAt <=> l = "read"
    BY <1>4 DEF ReadAt
  <2>3. l \in WriteAt <=> l = "write"
    BY <1>4 DEF WriteAt
  <2>4. Seat(w.k, w.s[n], FALSE, p, x)
    BY <1>2, <1>3, <1>4, <1>5, <1>n, <1>w, <2>2, <2>3, <2>c DEF Served
  <2>5. Seat(v.k, v.s[n], TRUE, p, x)
    <3>1. Sound(w) /\ GetPid(w.k) = p
      BY <1>2, <1>w
    <3> QED BY <1>4, <1>5, <1>7, <1>v, <2>1, <2>4, <3>1, SeatTaken
  <2>y. PICK y : y = World'
    OBVIOUS
  <2>6. y.k = v.k /\ y.s = v.s /\ y.p = pipes
    BY <1>8, <2>y DEF World
  <2>7. Served(y, s, g, i, l, TRUE, p)
    BY <1>3, <1>4, <1>n, <2>2, <2>3, <2>5, <2>6, <2>c DEF Served
  <2>8. Served(World', sent'[r], got'[r], i, l, TRUE, p)
    BY <1>4, <1>s, <1>g, <2>7, <2>y
  <2> QED BY <1>3, <1>4, <1>10, <1>11, <1>13, <1>l, <1>r, <2>8 DEF ServedNow
<1>18. ASSUME NEW q \in Slots, pc'[q] \in ReadAt \cup WriteAt, PipeOf(q) = i
       PROVE  ServedNow(q)'
  <2>1. CASE q = p
    BY <1>17, <2>1
  <2>2. CASE q # p
    <3>r. PICK x : x = round[q]
      OBVIOUS
    <3>m. PICK m : m = pc[q]
      OBVIOUS
    <3>1. m \in ReadAt \cup WriteAt /\ m \in OnAt
      BY <1>4, <1>18, <3>m, LabelsOnAt
    <3>2. Served(World, sent[x], got[x], i, m, call[q].token, q)
      BY <1>18, <3>1, <3>r, <3>m DEF FlowInv, ServedAll, ServedNow
    <3>3. /\ l \in ReadAt => m \notin ReadAt
          /\ l \in WriteAt => m \notin WriteAt
      BY <1>3, <1>18, <1>l, <2>2, <3>1, <3>m, OthersApart
    <3>4. /\ m \in ReadAt => n = Space(i)
          /\ m \in WriteAt => n = Items(i)
      <4>1. "write" \in WriteAt /\ "read" \in ReadAt
        BY DEF ReadAt, WriteAt
      <4> QED BY <1>4, <1>n, <3>3, <4>1
    <3>y. PICK y : y = World'
      OBVIOUS
    <3>5. y.k = Kernel' /\ y.s = sems' /\ y.p = pipes
      BY <1>8, <3>y DEF World
    <3>6. /\ m \in ReadAt => y.s[Items(i)] = World.s[Items(i)]
          /\ m \in WriteAt => y.s[Space(i)] = World.s[Space(i)]
      <4>1. Items(i) \in SemNames /\ Space(i) \in SemNames /\ Items(i) # Space(i)
        BY <1>2, NamesOfPipe DEF SemsOf
      <4> QED BY <1>2, <1>14, <3>4, <3>5, <4>1
    <3>7. call[q].token => SleepsAlike(World.k, y.k, q)
      BY <1>2, <1>16, <2>2, <3>5
    <3>8. y.p[i] = World.p[i]
      BY <1>2, <3>5
    <3>9. Served(y, sent[x], got[x], i, m, call[q].token, q)
      BY <3>2, <3>6, <3>7, <3>8, ServedAlike
    <3>10. Served(World', sent'[x], got'[x], i, m, call'[q].token, q)
      BY <1>4, <1>11, <2>2, <3>9, <3>y
    <3> QED BY <1>4, <1>13, <1>18, <3>10, <3>r, <3>m DEF ServedNow
  <2> QED BY <2>1, <2>2
<1>19. ASSUME NEW q \in Slots, pipes'[i].is_in_use, Live(q)'
       PROVE  InPlace(i, q)'
  <2>1. CASE q = p
    <3>1. p \in Slots /\ Items(i) \in SemNames /\ Space(i) \in SemNames /\ Items(i) # Space(i)
      BY <1>2, <1>3, NamesOfPipe DEF SemsOf
    <3>2. /\ l \in ReadAt <=> l = "read"
          /\ l \in WriteAt <=> l = "write"
      BY <1>4 DEF ReadAt, WriteAt
    <3>3. /\ l \in ReadAt => ~InQueue(sems[Space(i)], p)
          /\ l \in WriteAt => ~InQueue(sems[Items(i)], p)
      BY <1>2, <1>3, <1>l, OwnQueue
    <3>4. /\ InQueue(sems'[Items(i)], p) => l = "read"
          /\ InQueue(sems'[Space(i)], p) => l = "write"
      BY <1>4, <1>14, <1>n, <3>1, <3>2, <3>3
    <3> QED BY <1>3, <1>4, <1>13, <1>l, <2>1, <3>4 DEF InPlace
  <2>2. CASE q # p
    <3>1. v.s[n].blocked = <<p>>
      <4>c. PICK x : x = IF l = "write" THEN Room(s, g) ELSE Tokens(pipes[i], s, g)
        OBVIOUS
      <4>2. l \in ReadAt <=> l = "read"
        BY <1>4 DEF ReadAt
      <4>3. l \in WriteAt <=> l = "write"
        BY <1>4 DEF WriteAt
      <4>4. Seat(w.k, w.s[n], FALSE, p, x)
        BY <1>2, <1>3, <1>4, <1>5, <1>n, <1>w, <4>2, <4>3, <4>c DEF Served
      <4>5. w.s[n].blocked = <<>> /\ w.s[n].initialized /\ Sound(w) /\ GetPid(w.k) = p
        BY <1>2, <1>5, <1>w, <4>4 DEF Seat, MustSleep
      <4>6. v.s[n].blocked = Append(w.s[n].blocked, p)
        BY <1>4, <1>5, <1>v, <4>5, WaitQueue
      <4> QED BY <4>5, <4>6
    <3>2. ~InQueue(sems'[n], q)
      BY <1>8, <2>2, <3>1 DEF InQueue
    <3>3. Items(i) \in SemNames /\ Space(i) \in SemNames
      BY <1>2, NamesOfPipe DEF SemsOf
    <3>4. /\ InQueue(sems'[Items(i)], q) => InQueue(sems[Items(i)], q)
          /\ InQueue(sems'[Space(i)], q) => InQueue(sems[Space(i)], q)
      BY <1>14, <3>2, <3>3
    <3>5. Live(q) /\ pipes[i].is_in_use /\ pc'[q] = pc[q] /\ PipeOf(q)' = PipeOf(q)
      BY <1>2, <1>4, <1>9, <1>13, <1>19
    <3> QED BY <1>2, <1>19, <3>4, <3>5, StraysKept
  <2> QED BY <2>1, <2>2
<1>20. Later' /\ Histories' /\ DOMAIN pipes'[i].buffer = Places
  BY <1>2, <1>4, <1>8 DEF FlowInv, LineInv, Later, Histories, Buffers
<1>21. \A q \in Slots : pc'[q] \in ReadAt \cup WriteAt /\ PipeOf(q) # i =>
         /\ call'[q].token = call[q].token
         /\ call[q].token => SleepsAlike(Kernel, Kernel', q)
         /\ sent'[round[q]] = sent[round[q]] /\ got'[round[q]] = got[round[q]]
  BY <1>3, <1>4, <1>11, <1>16
<1>22. \A q \in Slots : Live(q)' =>
         /\ Live(q)
         /\ pc'[q] # pc[q] \/ PipeOf(q)' # PipeOf(q) =>
              q = Shell \/ ~call[q].token \/ state[q] # "BLOCKED"
  BY <1>4, <1>9, <1>13
<1>23. \A q \in Slots : Stays(q)
  BY <1>13
<1> QED BY <1>2, <1>12, <1>15, <1>18, <1>19, <1>20, <1>21, <1>22, <1>23, PassFlow

\* Two tables of semaphores that differ at n at most.
SameButFor(s, t, n) == \A m \in SemNames \ {n} : t[m] = s[m]

\* The token of a call, which its semaphore had, or had given already.
LEMMA TokenSeat ==
  ASSUME PipeInv, NEW n \in SemNames, sems[n].initialized, NEW p, p = Caller, NEW tok \in BOOLEAN, tok = call[Caller].token, ~AwaitsToken(n),
         NEW c \in Int, Seat(Kernel, sems[n], tok, p, c), NEW u, u = WithToken(n)
  PROVE  /\ c > 0 /\ Seat(u.k, u.s[n], FALSE, p, c - 1) /\ u.s[n].blocked = <<>>
         /\ SameButFor(sems, u.s, n)
<1>1. state[p] = "RUNNING"
  BY RunnerFacts DEF PipeInv, WaitInv, ProcInv
<1>w. PICK w : w = World
  OBVIOUS
<1>2. /\ Sound(w) /\ w.k = Kernel /\ w.s = sems /\ w.p = pipes /\ w.k.state[p] # "BLOCKED"
  BY <1>1, <1>w, WorldNow
<1>3. w.s[n].initialized
  BY <1>2
<1>4. CASE tok
  <2>1. u = w
    BY <1>4, <1>w DEF WithToken
  <2>2. w.s[n].value = c - 1 /\ c > 0 /\ w.s[n].blocked = <<>>
    BY <1>2, <1>4 DEF Seat
  <2>3. c - 1 >= 0
    BY <2>2
  <2> QED BY <1>2, <2>1, <2>2, <2>3 DEF Seat, SameButFor
<1>5. CASE ~tok
  <2>1. u = SemWaitIn(w, n) /\ ~MustSleep(w.s, n)
    BY <1>2, <1>5, <1>w DEF WithToken, AwaitsToken
  <2>2. w.s[n].value = c /\ c >= 0 /\ w.s[n].blocked = <<>>
    BY <1>2, <1>5 DEF Seat
  <2>3. c > 0
    BY <1>3, <2>1, <2>2 DEF MustSleep
  <2>4. u.s[n].value = w.s[n].value - 1 /\ u.s[n].blocked = w.s[n].blocked
    <3>1. /\ u.s[n].value = w.s[n].value - 1
          /\ u.s[n].blocked = IF MustSleep(w.s, n)
                              THEN Append(w.s[n].blocked, GetPid(w.k))
                              ELSE w.s[n].blocked
      BY <1>1, <1>2, <1>3, <2>1, WaitQueue
    <3> QED BY <2>1, <3>1
  <2>5. Shifted(w.s, u.s, n)
    BY <1>1, <1>2, <2>1, WaitParts
  <2>6. u.s[n].value = c - 1 /\ c - 1 >= 0 /\ u.s[n].blocked = <<>>
    BY <2>2, <2>3, <2>4
  <2> QED BY <1>2, <2>3, <2>5, <2>6 DEF Seat, Shifted, SameButFor
<1> QED BY <1>4, <1>5

\* The caller p, at its end of pipe i with the histories s and g, takes its token
\* of n, which makes the world u, and goes on in it to the world v, to label m and
\* to what is left of its call, d; the histories of the pipe are t and h then.
Goes(p, l, i, r, s, g, n, u, v, a, b, t, h, m, d) ==
  /\ p \in Programs /\ p \in Slots /\ p # Shell /\ Live(p) /\ state[p] = "RUNNING"
  /\ i \in Anon /\ pipes[i].is_in_use /\ PipeOf(p) = i
  /\ l = pc[p] /\ l \in {"write", "read"}
  /\ r \in Rounds /\ r = round[p] /\ s = sent[r] /\ g = got[r] /\ Kept(s, g)
  /\ n = (IF l = "write" THEN Space(i) ELSE Items(i))
  /\ u.k = Kernel /\ u.p = pipes /\ u.s[n].blocked = <<>> /\ SameButFor(sems, u.s, n)
  /\ Sound(v) /\ Woken(Kernel, v.k) /\ SameBooks(pipes, v.p)
  /\ Moved(u, v, i) /\ a \in Int /\ b \in Int /\ Gives(u, v, i, a, b)
  /\ Kept(t, h) /\ Ring(v.p[i], t, h)
  /\ l = "write" => Tokens(v.p[i], t, h) = Tokens(pipes[i], s, g) + a
  /\ l = "read" => Room(t, h) = Room(s, g) + b
  /\ m \in {l, "exit"} /\ d.token = FALSE /\ (d.op = "none" \/ (d.op = l /\ m = l))
  /\ Served(v, t, h, i, m, FALSE, p)

GoesNext(p, v, r, t, h, m, d) ==
  /\ WorldBecomes(v) /\ TableStays /\ UNCHANGED <<file_descriptors, round, pipe_id>>
  /\ sent' = [sent EXCEPT ![r] = t] /\ got' = [got EXCEPT ![r] = h]
  /\ pc' = [pc EXCEPT ![p] = m] /\ call' = [call EXCEPT ![p] = d]

LEMMA CallFlow ==
  ASSUME PipeInv, FlowInv,
         NEW p, NEW l, NEW i, NEW r, NEW s, NEW g, NEW n, NEW u, NEW v, NEW a, NEW b,
         NEW t, NEW h, NEW m, NEW d,
         Goes(p, l, i, r, s, g, n, u, v, a, b, t, h, m, d),
         GoesNext(p, v, r, t, h, m, d)
  PROVE  FlowInv'
<1>g. /\ p \in Programs /\ p \in Slots /\ p # Shell /\ Live(p) /\ state[p] = "RUNNING"
      /\ i \in Anon /\ pipes[i].is_in_use /\ PipeOf(p) = i
      /\ l = pc[p] /\ l \in {"write", "read"}
      /\ r \in Rounds /\ r = round[p] /\ s = sent[r] /\ g = got[r] /\ Kept(s, g)
      /\ n = (IF l = "write" THEN Space(i) ELSE Items(i))
      /\ u.k = Kernel /\ u.p = pipes /\ u.s[n].blocked = <<>>
      /\ \A x \in SemNames \ {n} : u.s[x] = sems[x]
      /\ Sound(v) /\ Woken(Kernel, v.k) /\ SameBooks(pipes, v.p)
      /\ Moved(u, v, i) /\ a \in Int /\ b \in Int /\ Gives(u, v, i, a, b)
      /\ Kept(t, h) /\ Ring(v.p[i], t, h) /\ DOMAIN v.p[i].buffer = Places
      /\ l = "write" => Tokens(v.p[i], t, h) = Tokens(pipes[i], s, g) + a
      /\ l = "read" => Room(t, h) = Room(s, g) + b
      /\ m \in {l, "exit"} /\ d.token = FALSE /\ (d.op = "none" \/ (d.op = l /\ m = l))
      /\ Served(v, t, h, i, m, FALSE, p)
  BY DEF Goes, SameButFor, Ring
<1>n. /\ WorldBecomes(v) /\ TableStays /\ UNCHANGED <<file_descriptors, round, pipe_id>>
      /\ sent' = [sent EXCEPT ![r] = t] /\ got' = [got EXCEPT ![r] = h]
      /\ pc' = [pc EXCEPT ![p] = m] /\ call' = [call EXCEPT ![p] = d]
  BY DEF GoesNext
<1> USE <1>g, <1>n
<1>1. /\ n \in SemNames /\ n \in {Items(i), Space(i)}
      /\ Items(i) \in SemNames /\ Space(i) \in SemNames /\ Items(i) # Space(i)
  BY NamesOfPipe DEF SemsOf
<1>2. Kernel' = v.k /\ sems' = v.s /\ pipes' = v.p /\ World' = v
  BY WorldNext
<1>3. \A q \in Slots : Live(q)' <=> Live(q)
  BY WokenWaits
<1>4. /\ DOMAIN pc = Slots /\ DOMAIN call = Slots /\ Fits /\ Lines
      /\ DOMAIN sent = Rounds /\ DOMAIN got = Rounds
      /\ l \in OnAt /\ l \in ReadAt \cup WriteAt
      /\ l \in ReadAt <=> l = "read"
      /\ l \in WriteAt <=> l = "write"
      /\ "exit" \notin ReadAt \cup WriteAt
  BY DEF PipeInv, ProgramsOK, FlowInv, LineInv, Histories, ReadAt, WriteAt, OnAt
<1>5. /\ pc'[p] = m /\ call'[p] = d
      /\ \A q \in Slots \ {p} : pc'[q] = pc[q] /\ call'[q] = call[q]
  BY <1>4
<1>6. /\ sent'[r] = t /\ got'[r] = h /\ \A x \in Rounds \ {r} : sent'[x] = sent[x] /\ got'[x] = got[x]
      /\ sent' = [x \in Rounds |-> sent'[x]] /\ got' = [x \in Rounds |-> got'[x]]
  BY <1>4 DEF FlowInv, Histories
<1>7. \A q \in Slots : Stays(q) /\ PipeOf(q)' = PipeOf(q)
  BY <1>4, <1>5, PipeOfKept DEF Stays
<1>8. Fits'
  <2>f. PICK fd : fd = file_descriptors[p]
    OBVIOUS
  <2>1. Fit(l, fd, r, round[Shell], call[p])
    BY <1>4, <2>f DEF Fits
  <2>2. Fit(pc'[p], file_descriptors'[p], round'[p], round[Shell], call'[p])
    BY <1>5, <2>f, <2>1 DEF Fit
  <2>3. call'[p].token \in BOOLEAN /\ ~call'[p].token
    BY <1>5
  <2>4. \A q \in Programs \ {p} : Live(q)' =>
          /\ Live(q) /\ pc'[q] = pc[q] /\ round'[q] = round[q]
          /\ file_descriptors'[q] = file_descriptors[q]
    BY <1>3, <1>5 DEF Programs
  <2>5. round'[Shell] = round[Shell] /\ \A q \in Slots \ {p} : call'[q] = call[q]
    BY <1>5
  <2> QED BY <1>4, <2>2, <2>3, <2>4, <2>5, FitsKept
<1>9. Histories'
  BY <1>6 DEF FlowInv, Histories
<1>10. Later'
  <2>1. r <= round[Shell] /\ round[Shell] \in Nat
    <3>1. round[p] \in 1 .. round[Shell] /\ round[Shell] \in Nat
      BY <1>4, AtThePipe
    <3> QED BY <3>1
  <2> QED BY <1>6, <2>1 DEF FlowInv, LineInv, Later, Rounds
<1>11. \A j \in Anon \ {i} : /\ sems'[Items(j)] = sems[Items(j)]
                             /\ sems'[Space(j)] = sems[Space(j)]
                             /\ pipes'[j] = pipes[j]
  <2> SUFFICES ASSUME NEW j \in Anon \ {i}
               PROVE  /\ v.s[Items(j)] = sems[Items(j)]
                      /\ v.s[Space(j)] = sems[Space(j)]
                      /\ v.p[j] = pipes[j]
    BY <1>2
  <2>1. Items(j) \in SemNames /\ Space(j) \in SemNames
    BY NamesOfPipe DEF SemsOf
  <2>2. Items(j) # n /\ Space(j) # n
    BY <1>1, CountsApart
  <2> QED BY <2>1, <2>2 DEF Moved
<1>12. \A q \in Slots :
         /\ InQueue(u.s[Items(i)], q) => InQueue(sems[Items(i)], q) /\ n # Items(i)
         /\ InQueue(u.s[Space(i)], q) => InQueue(sems[Space(i)], q) /\ n # Space(i)
  <2>1. \A q \in Slots : ~InQueue(u.s[n], q)
    BY DEF InQueue
  <2> QED BY <1>1, <2>1
<1>13. ASSUME NEW q \in Slots, pc'[q] \in ReadAt \cup WriteAt, PipeOf(q) # i
       PROVE  /\ q # p /\ round[q] # r /\ round[q] \in Rounds
              /\ call[q].token => SleepsAlike(Kernel, Kernel', q)
  <2>1. q # p /\ pc[q] \in OnAt
    BY <1>5, <1>13, LabelsOnAt
  <2>2. round[q] # r /\ round[q] \in Rounds
    BY <1>4, <1>13, <2>1, RoundOfLine DEF Lines
  <2>3. ASSUME call[q].token
        PROVE  SleepsAlike(Kernel, Kernel', q)
    <3>1. Live(q)
      BY <1>4, <2>3, TokensLive
    <3>2. ~InQueue(sems[Items(i)], q) /\ ~InQueue(sems[Space(i)], q)
      BY <1>13, <3>1, OwnQueue
    <3>3. ~InQueue(u.s[Items(i)], q) /\ ~InQueue(u.s[Space(i)], q)
      BY <1>12, <3>2
    <3> QED BY <1>2, <3>3 DEF Moved
  <2> QED BY <2>1, <2>2, <2>3
<1>14. ASSUME NEW q \in Slots, pc'[q] \in ReadAt \cup WriteAt, PipeOf(q) = i
       PROVE  ServedNow(q)'
  <2>1. CASE q = p
    <3>k. PICK tok : tok = call'[p].token
      OBVIOUS
    <3>1. tok = FALSE /\ round'[p] = r /\ PipeOf(p)' = i
      BY <1>5, <1>7, <3>k
    <3>2. Served(World', sent'[r], got'[r], i, m, tok, p)
      BY <1>2, <1>6, <3>1
    <3> QED BY <1>5, <2>1, <3>1, <3>2, <3>k DEF ServedNow
  <2>2. CASE q # p
    <3>y. PICK y : y = pc[q]
      OBVIOUS
    <3>k. PICK tok : tok = call[q].token
      OBVIOUS
    <3>1. y \in ReadAt \cup WriteAt /\ y \in OnAt /\ tok \in BOOLEAN
      BY <1>4, <1>5, <1>14, <2>2, <3>y, <3>k, LabelsOnAt DEF Fits
    <3>2. round[q] = r /\ (l = "read" => y \notin ReadAt) /\ (l = "write" => y \notin WriteAt)
      BY <1>4, <1>14, <2>2, <3>1, <3>y, OthersApart
    <3>3. Served(World, s, g, i, y, tok, q)
      BY <1>14, <3>1, <3>2, <3>y, <3>k DEF FlowInv, ServedAll, ServedNow
    <3>4. /\ y \in ReadAt => y \in ReadAt /\ u.s[Items(i)] = World.s[Items(i)]
          /\ y \in WriteAt => y \in WriteAt /\ u.s[Space(i)] = World.s[Space(i)]
      BY <1>1, <3>2, WorldNow
    <3>5. tok => SleepsAlike(World.k, u.k, q)
      BY WorldNow, SleepsSame
    <3>6. u.p[i] = World.p[i]
      BY WorldNow
    <3>7. Served(u, s, g, i, y, tok, q)
      BY ONLY <3>3, <3>4, <3>5, <3>6, ServedAlike
    <3>8. /\ y \in ReadAt => ~InQueue(u.s[Space(i)], q)
          /\ y \in WriteAt => ~InQueue(u.s[Items(i)], q)
      BY <1>12, <3>2
    <3>9. /\ Tokens(u.p[i], s, g) \in Int /\ Room(s, g) \in Int
          /\ y \in ReadAt => Tokens(v.p[i], t, h) = Tokens(u.p[i], s, g) + a
          /\ y \in WriteAt => Room(t, h) = Room(s, g) + b
      BY <3>2, TokensAreInt
    <3>10. i \in Anon /\ q \in Slots /\ a \in Int /\ b \in Int /\ Gives(u, v, i, a, b)
           /\ Ring(v.p[i], t, h)
      OBVIOUS
    <3>11. Served(v, t, h, i, y, tok, q)
      BY ONLY <3>1, <3>7, <3>8, <3>9, <3>10, GivesServed
    <3>12. Served(World', sent'[r], got'[r], i, y, tok, q)
      BY <1>2, <1>6, <3>11
    <3> QED BY <1>5, <1>7, <1>14, <2>2, <3>2, <3>12, <3>y, <3>k DEF ServedNow
  <2> QED BY <2>1, <2>2
<1>15. ASSUME NEW q \in Slots, pipes'[i].is_in_use, Live(q)'
       PROVE  InPlace(i, q)'
  <2>1. /\ InQueue(sems'[Items(i)], q) => InQueue(sems[Items(i)], q) /\ n # Items(i)
        /\ InQueue(sems'[Space(i)], q) => InQueue(sems[Space(i)], q) /\ n # Space(i)
    BY <1>2, <1>12 DEF Moved
  <2>2. CASE q = p
    <3>1. /\ l \in ReadAt => ~InQueue(sems[Space(i)], p)
          /\ l \in WriteAt => ~InQueue(sems[Items(i)], p)
      BY OwnQueue
    <3>2. ~InQueue(sems'[Items(i)], q) /\ ~InQueue(sems'[Space(i)], q)
      BY <1>4, <2>1, <2>2, <3>1
    <3> QED BY <3>2 DEF InPlace
  <2>3. CASE q # p
    <3>1. pc'[q] = pc[q] /\ PipeOf(q)' = PipeOf(q) /\ Live(q)
      BY <1>3, <1>5, <1>7, <1>15, <2>3
    <3> QED BY <1>15, <2>1, <3>1, StraysKept
  <2> QED BY <2>2, <2>3
<1>16. \A q \in Slots : pc'[q] \in ReadAt \cup WriteAt /\ PipeOf(q) # i =>
         /\ call'[q].token = call[q].token
         /\ call[q].token => SleepsAlike(Kernel, Kernel', q)
         /\ sent'[round[q]] = sent[round[q]] /\ got'[round[q]] = got[round[q]]
  BY <1>5, <1>6, <1>13
<1>17. \A q \in Slots : Live(q)' =>
         /\ Live(q)
         /\ pc'[q] # pc[q] \/ PipeOf(q)' # PipeOf(q) =>
              q = Shell \/ ~call[q].token \/ state[q] # "BLOCKED"
  BY <1>3, <1>5, <1>7
<1>18. DOMAIN pipes'[i].buffer = Places /\ \A q \in Slots : Stays(q)
  BY <1>2, <1>7
<1> QED BY <1>8, <1>9, <1>10, <1>11, <1>14, <1>15, <1>16, <1>17, <1>18, PassFlow

LEMMA WriteFlow ==
  ASSUME PipeInv, FlowInv, WriteGoesOn
  PROVE  FlowInv'
<1>p. PICK p : p = Caller
  OBVIOUS
<1>c. PICK c : c = call[p]
  OBVIOUS
<1>i. PICK i : i = c.id
  OBVIOUS
<1>l. PICK l : l = pc[p]
  OBVIOUS
<1>k. PICK tok : tok = call[Caller].token
  OBVIOUS
<1>r. PICK r : r = round[p]
  OBVIOUS
<1>s. PICK s : s = sent[r]
  OBVIOUS
<1>g. PICK g : g = got[r]
  OBVIOUS
<1>1. InCall /\ call[Caller].op = "write" /\ c.op = "write"
  BY <1>p, <1>c DEF WriteGoesOn
<1>2. /\ p \in Programs /\ p \in Slots /\ p # Shell /\ Live(p)
      /\ l = "write" /\ PipeOf(p) = i /\ CallShape(c)
      /\ r \in Rounds /\ tok \in BOOLEAN /\ Kept(s, g) /\ Ring(pipes[i], s, g)
      /\ Served(World, s, g, i, l, tok, p)
  BY <1>1, <1>p, <1>c, <1>i, <1>l, <1>k, <1>r, <1>s, <1>g, CallerAtPipe
<1>n. PICK n : n = Space(i)
  OBVIOUS
<1>3. /\ i \in Anon /\ pipes[i].is_in_use /\ SpaceOf(pipes[i]) = n
      /\ Sound(World) /\ World.k = Kernel /\ World.s = sems /\ World.p = pipes
      /\ state[p] = "RUNNING"
  BY <1>1, <1>p, <1>c, <1>i, <1>n, InTheCall, RunnerFacts DEF PipeInv, WaitInv, ProcInv
<1>b. PICK b : b = Head(c.bytes)
  OBVIOUS
<1>u. PICK u : u = WithToken(n)
  OBVIOUS
<1>v. PICK v : v = WriteByte(u, i, b)
  OBVIOUS
<1>t. PICK t : t = Append(s, b)
  OBVIOUS
<1>4. /\ ~AwaitsToken(n) /\ WorldBecomes(v) /\ TableStays
      /\ UNCHANGED <<file_descriptors, pipe_id, round, pc, got>>
      /\ sent' = [sent EXCEPT ![r] = t]
      /\ call' = [call EXCEPT ![p] =
                    IF Tail(c.bytes) = <<>> THEN NoCall
                    ELSE [c EXCEPT !.bytes = Tail(c.bytes), !.token = FALSE]]
  BY <1>3, <1>p, <1>c, <1>i, <1>b, <1>u, <1>v, <1>t, <1>r, <1>s DEF WriteGoesOn, R
<1>5. Sound(u) /\ u.k = Kernel /\ u.p = pipes
  BY <1>3, <1>4, <1>n, <1>u, TokenTaken
<1>6. /\ Sound(v) /\ Woken(Kernel, v.k) /\ SameBooks(pipes, v.p)
      /\ Moved(u, v, i) /\ Gives(u, v, i, 1, 0) /\ WithByte(pipes[i], v.p[i], b)
  BY <1>3, <1>5, <1>v, WriteByteWorld
<1>e. PICK e : e = Room(s, g)
  OBVIOUS
<1>7. e \in Int /\ Seat(Kernel, sems[n], tok, p, e) /\ l \in WriteAt /\ l \notin ReadAt
  BY <1>2, <1>3, <1>n, <1>e, TokensAreInt DEF Served, WriteAt, ReadAt
<1>8. /\ e > 0 /\ Seat(u.k, u.s[n], FALSE, p, e - 1) /\ u.s[n].blocked = <<>>
      /\ SameButFor(sems, u.s, n)
  <2>1. n \in SemNames /\ ~AwaitsToken(n)
    BY <1>3, <1>4, <1>n, NamesOfPipe DEF SemsOf
  <2>2. sems[n].initialized
    BY <1>3, <1>n DEF Sound, AllMatched, Matched, SemsOf
  <2> QED BY <1>2, <1>7, <1>u, <1>p, <1>k, <2>1, <2>2, TokenSeat
<1>9. OnWay(s, g) # PIPE_BUFFER_SIZE
  <2>1. OnWay(s, g) = PIPE_BUFFER_SIZE => e = 0
    BY <1>e, PipeAssumption DEF Room
  <2> QED BY <1>8, <2>1
<1>10. Kept(t, g) /\ Ring(v.p[i], t, g) /\ OnWay(t, g) = OnWay(s, g) + 1
  <2>x. PICK x : x = pipes[i]
    OBVIOUS
  <2>y. PICK y : y = v.p[i]
    OBVIOUS
  <2>1. WithByte(x, y, b) /\ Kept(s, g) /\ Ring(x, s, g)
    BY <1>2, <1>6, <2>x, <2>y
  <2>l. Longer(s, t, b)
    <3>1. Longer(s, Append(s, b), b)
      BY <1>2, ShapedAppend DEF Kept
    <3> QED BY <1>t, <3>1
  <2>2. Kept(t, g) /\ Ring(y, t, g) /\ OnWay(t, g) = OnWay(s, g) + 1
    BY ONLY <1>9, <2>l, <2>1, RingWritten
  <2> QED BY <2>2, <2>y
<1>11. OnWay(s, g) \in Nat /\ PIPE_BUFFER_SIZE \in Nat /\ EOF_POSTS \in Nat
  BY <1>2, TokensAreInt, PipeAssumption
<1>12. Room(t, g) = e - 1
  BY <1>10, <1>11, <1>e DEF Room
<1>13. Tokens(v.p[i], t, g) = Tokens(pipes[i], s, g) + 1
  <2>1. v.p[i].eof_signaled = pipes[i].eof_signaled
    BY <1>3, <1>6 DEF SameBooks, SameBook, Anon
  <2> QED BY <1>10, <1>11, <2>1 DEF Tokens
<1>15. got' = [got EXCEPT ![r] = g]
  <2>1. got = [x \in Rounds |-> got[x]]
    BY DEF FlowInv, Histories
  <2> QED BY <1>2, <1>4, <1>g, <2>1
<1>16. pc' = [pc EXCEPT ![p] = l]
  <2>1. DOMAIN pc = Slots /\ pc = [q \in Slots |-> pc[q]]
    BY DEF PipeInv, ProgramsOK
  <2> QED BY <1>2, <1>4, <1>l, <2>1
<1>d. PICK d : d = IF Tail(c.bytes) = <<>> THEN NoCall
                   ELSE [c EXCEPT !.bytes = Tail(c.bytes), !.token = FALSE]
  OBVIOUS
<1>17. d.token = FALSE /\ (d.op = "none" \/ (d.op = l /\ l = l))
  <2>1. CASE Tail(c.bytes) = <<>>
    BY <1>d, <2>1 DEF NoCall
  <2>2. CASE Tail(c.bytes) # <<>>
    <3>y. PICK y : y = Tail(c.bytes)
      OBVIOUS
    <3>1. d = [c EXCEPT !.bytes = y, !.token = FALSE]
      BY <1>d, <2>2, <3>y
    <3> QED BY <1>1, <1>2, <3>1 DEF CallShape
  <2> QED BY <2>1, <2>2
<1>18. call' = [call EXCEPT ![p] = d]
  BY <1>4, <1>d
<1>19. Served(v, t, g, i, l, FALSE, p)
  <2>1. ~InQueue(u.s[Items(i)], p)
    <3>1. ~InQueue(sems[Items(i)], p)
      BY <1>2, <1>3, <1>7, <1>l, OwnQueue
    <3>2. Items(i) \in SemNames \ {n}
      BY <1>3, <1>n, NamesOfPipe DEF SemsOf
    <3> QED BY <1>8, <3>1, <3>2 DEF SameButFor
  <2>2. e - 1 \in Int
    BY <1>7
  <2>3. Seat(v.k, v.s[n], FALSE, p, (e - 1) + 0)
    BY <1>2, <1>6, <1>8, <1>n, <2>1, <2>2 DEF Gives
  <2>4. (e - 1) + 0 = Room(t, g)
    BY <1>7, <1>12
  <2>5. Seat(v.k, v.s[Space(i)], FALSE, p, Room(t, g))
    BY <1>n, <2>3, <2>4
  <2> QED BY <1>7, <1>10, <2>5 DEF Served
<1>20. Goes(p, l, i, r, s, g, n, u, v, 1, 0, t, g, l, d)
  <2>1. /\ n = (IF l = "write" THEN Space(i) ELSE Items(i)) /\ l # "read"
        /\ l \in {"write", "read"} /\ l \in {l, "exit"} /\ 1 \in Int /\ 0 \in Int
    BY <1>2, <1>n
  <2>2. u.s[n].blocked = <<>> /\ SameButFor(sems, u.s, n)
    BY <1>8
  <2> QED BY ONLY <1>2, <1>3, <1>5, <1>6, <2>2, <1>10, <1>13, <1>17, <1>19, <1>l, <1>r,
                  <1>s, <1>g, <2>1, Zenon DEF Goes
<1>21. GoesNext(p, v, r, t, g, l, d)
  BY <1>4, <1>15, <1>16, <1>18 DEF GoesNext
<1> QED BY <1>20, <1>21, CallFlow

LEMMA ReadFlow ==
  ASSUME PipeInv, FlowInv, ReadGoesOn
  PROVE  FlowInv'
<1>p. PICK p : p = Caller
  OBVIOUS
<1>i. PICK i : i = call[p].id
  OBVIOUS
<1>l. PICK l : l = pc[p]
  OBVIOUS
<1>k. PICK tok : tok = call[Caller].token
  OBVIOUS
<1>r. PICK r : r = round[p]
  OBVIOUS
<1>s. PICK s : s = sent[r]
  OBVIOUS
<1>g. PICK g : g = got[r]
  OBVIOUS
<1>1. InCall /\ call[Caller].op = "read" /\ call[p].op = "read"
  BY <1>p DEF ReadGoesOn
<1>2. /\ p \in Programs /\ p \in Slots /\ p # Shell /\ Live(p)
      /\ l = "read" /\ PipeOf(p) = i
      /\ r \in Rounds /\ tok \in BOOLEAN /\ Kept(s, g) /\ Ring(pipes[i], s, g)
      /\ Served(World, s, g, i, l, tok, p)
  BY <1>1, <1>p, <1>i, <1>l, <1>k, <1>r, <1>s, <1>g, CallerAtPipe
<1>n. PICK n : n = Items(i)
  OBVIOUS
<1>3. /\ i \in Anon /\ pipes[i].is_in_use /\ ItemsOf(pipes[i]) = n
      /\ Sound(World) /\ World.k = Kernel /\ World.s = sems /\ World.p = pipes
      /\ state[p] = "RUNNING"
  BY <1>1, <1>p, <1>i, <1>n, InTheCall, RunnerFacts DEF PipeInv, WaitInv, ProcInv
<1>u. PICK u : u = WithToken(n)
  OBVIOUS
<1>y. PICK y : y = ReadByte(u, i)
  OBVIOUS
<1>v. PICK v : v = y.w
  OBVIOUS
<1>z. PICK bytes : bytes = y.bytes
  OBVIOUS
<1>m. PICK m : m = IF bytes = <<>> THEN "exit" ELSE "read"
  OBVIOUS
<1>h. PICK h : h = g \o bytes
  OBVIOUS
<1>d. PICK d : d = NoCall
  OBVIOUS
<1>4. /\ ~AwaitsToken(n) /\ WorldBecomes(v) /\ TableStays
      /\ UNCHANGED <<file_descriptors, pipe_id, round, sent>>
      /\ got' = [got EXCEPT ![r] = h]
      /\ pc' = [pc EXCEPT ![p] = m]
      /\ call' = [call EXCEPT ![p] = d]
  BY <1>3, <1>p, <1>i, <1>u, <1>y, <1>v, <1>z, <1>m, <1>h, <1>d, <1>r, <1>g
  DEF ReadGoesOn, R, Goto
<1>5. Sound(u) /\ u.k = Kernel /\ u.p = pipes
  BY <1>3, <1>4, <1>n, <1>u, TokenTaken
<1>x. PICK x : x = pipes[i]
  OBVIOUS
<1>6. /\ Sound(v) /\ Woken(Kernel, v.k) /\ SameBooks(pipes, v.p) /\ Moved(u, v, i)
      /\ IF LooksEmpty(x) /\ x.eof_signaled
         THEN Gives(u, v, i, 0, 0) /\ v.p = pipes /\ bytes = <<>>
         ELSE /\ Gives(u, v, i, 0, 1) /\ WithoutByte(x, v.p[i])
              /\ bytes = <<x.buffer[x.read_index]>>
  <2>1. v = ReadByte(u, i).w /\ u.p[i] = x /\ u.p[i].is_in_use
    BY <1>3, <1>5, <1>v, <1>x, <1>y
  <2>2. bytes = IF LooksEmpty(x) /\ x.eof_signaled THEN <<>> ELSE <<x.buffer[x.read_index]>>
    BY <2>1, <1>y, <1>z DEF ReadByte
  <2> QED BY <1>3, <1>5, <2>1, <2>2, ReadByteWorld
<1>e. PICK e : e = Tokens(x, s, g)
  OBVIOUS
<1>7. /\ e \in Int /\ Seat(Kernel, sems[n], tok, p, e) /\ l \in ReadAt
      /\ OnWay(s, g) \in Nat /\ EOF_POSTS \in Nat /\ PIPE_BUFFER_SIZE \in Nat \ {0}
  BY <1>2, <1>3, <1>n, <1>e, <1>x, TokensAreInt, PipeAssumption DEF Served, ReadAt
<1>8. /\ e > 0 /\ Seat(u.k, u.s[n], FALSE, p, e - 1) /\ u.s[n].blocked = <<>>
      /\ SameButFor(sems, u.s, n)
  <2>1. n \in SemNames /\ ~AwaitsToken(n)
    BY <1>3, <1>4, <1>n, NamesOfPipe DEF SemsOf
  <2>2. sems[n].initialized
    BY <1>3, <1>n DEF Sound, AllMatched, Matched, SemsOf
  <2> QED BY <1>2, <1>7, <1>u, <1>p, <1>k, <2>1, <2>2, TokenSeat
<1>9. sent' = [sent EXCEPT ![r] = s]
  <2>1. sent = [j \in Rounds |-> sent[j]]
    BY DEF FlowInv, Histories
  <2> QED BY <1>2, <1>4, <1>s, <2>1
<1>10. d.token = FALSE /\ d.op = "none"
  BY <1>d DEF NoCall
<1>11. GoesNext(p, v, r, s, h, m, d)
  BY <1>4, <1>9 DEF GoesNext
<1>12. n = (IF l = "write" THEN Space(i) ELSE Items(i)) /\ l # "write"
  BY <1>2, <1>n
<1>13. g \in Seq({g[j] : j \in DOMAIN g})
  BY <1>2 DEF Kept, Shaped
<1>14. CASE LooksEmpty(x) /\ x.eof_signaled
  <2>1. h = g /\ m = "exit"
    BY <1>6, <1>13, <1>14, <1>h, <1>m
  <2>2. Kept(s, h) /\ Ring(v.p[i], s, h) /\ Gives(u, v, i, 0, 0)
    BY <1>2, <1>6, <1>14, <2>1
  <2>3. Served(v, s, h, i, m, FALSE, p)
    BY <2>1 DEF Served, ReadAt, WriteAt
  <2>4. Room(s, h) = Room(s, g) + 0 /\ 0 \in Int
    <3>1. Room(s, g) \in Int
      BY <1>2, TokensAreInt
    <3> QED BY <2>1, <3>1
  <2>5. m \in {l, "exit"} /\ l \in {"write", "read"}
    BY <1>2, <2>1
  <2>6. Goes(p, l, i, r, s, g, n, u, v, 0, 0, s, h, m, d)
    BY ONLY <1>2, <1>3, <1>5, <1>6, <1>8, <1>10, <1>12, <1>l, <1>r, <1>s, <1>g,
            <2>2, <2>3, <2>4, <2>5, Zenon DEF Goes
  <2> QED BY <1>11, <2>6, CallFlow
<1>15. CASE ~(LooksEmpty(x) /\ x.eof_signaled)
  <2>b. PICK b : b = x.buffer[x.read_index]
    OBVIOUS
  <2>1. bytes = <<b>> /\ m = "read" /\ Gives(u, v, i, 0, 1) /\ WithoutByte(x, v.p[i])
    BY <1>6, <1>15, <1>m, <2>b
  <2>2. h = Append(g, b)
    BY <1>13, <1>h, <2>1
  <2>3. OnWay(s, g) # 0
    <3>1. x.eof_signaled => ~LooksEmpty(x)
      BY <1>15
    <3>2. ~x.eof_signaled => OnWay(s, g) = e
      BY <1>7, <1>e DEF Tokens
    <3>3. LooksEmpty(x) <=> OnWay(s, g) \in {0, PIPE_BUFFER_SIZE}
      BY <1>2, <1>x, RingLooksEmpty
    <3> QED BY <1>8, <3>1, <3>2, <3>3
  <2>4. Longer(g, h, b)
    <3>1. Longer(g, Append(g, b), b)
      BY <1>2, ShapedAppend DEF Kept
    <3> QED BY <2>2, <3>1
  <2>5. Kept(s, h) /\ Ring(v.p[i], s, h) /\ OnWay(s, h) = OnWay(s, g) - 1
    BY <1>2, <1>x, <2>1, <2>3, <2>4, <2>b, RingTaken
  <2>6. Room(s, h) = Room(s, g) + 1 /\ 0 \in Int /\ 1 \in Int
    BY <1>7, <2>5 DEF Room
  <2>7. Tokens(v.p[i], s, h) = e - 1
    <3>1. v.p[i].eof_signaled = x.eof_signaled
      BY <1>3, <1>6, <1>x DEF SameBooks, SameBook, Anon
    <3> QED BY <1>7, <1>e, <2>5, <3>1 DEF Tokens
  <2>8. Served(v, s, h, i, m, FALSE, p)
    <3>1. ~InQueue(u.s[Space(i)], p)
      <4>1. ~InQueue(sems[Space(i)], p)
        BY <1>2, <1>3, <1>7, <1>l, OwnQueue
      <4>2. Space(i) \in SemNames \ {n}
        BY <1>3, <1>n, NamesOfPipe DEF SemsOf
      <4> QED BY <1>8, <4>1, <4>2 DEF SameButFor
    <3>2. e - 1 \in Int
      BY <1>7
    <3>3. Seat(v.k, v.s[n], FALSE, p, (e - 1) + 0)
      BY <1>2, <1>8, <1>n, <2>1, <3>1, <3>2 DEF Gives
    <3>4. (e - 1) + 0 = Tokens(v.p[i], s, h)
      BY <1>7, <2>7
    <3>5. Seat(v.k, v.s[Items(i)], FALSE, p, Tokens(v.p[i], s, h))
      BY <1>n, <3>3, <3>4
    <3>6. m \notin WriteAt
      BY <2>1 DEF WriteAt
    <3> QED BY <2>5, <3>5, <3>6 DEF Served
  <2>9. m \in {l, "exit"} /\ l \in {"write", "read"}
    BY <1>2, <2>1
  <2>10. Goes(p, l, i, r, s, g, n, u, v, 0, 1, s, h, m, d)
    BY ONLY <1>2, <1>3, <1>5, <1>6, <1>8, <1>10, <1>12, <1>l, <1>r, <1>s, <1>g,
            <2>1, <2>5, <2>6, <2>8, <2>9, Zenon DEF Goes
  <2> QED BY <1>11, <2>10, CallFlow
<1> QED BY <1>14, <1>15

-----------------------------------------------------------------------------
(* The steps by which a pipe comes, and its ends go to the programs.       *)

LEMMA CreatesPipeFlow ==
  ASSUME PipeInv, PipeInv', FlowInv, ShellCreatesPipe
  PROVE  FlowInv'
<1>1. Caller = Shell /\ pc[Shell] = "prompt"
  <2>1. At("prompt") /\ "prompt" \notin ProgramLabels
    BY DEF ShellCreatesPipe, ProgramLabels
  <2> QED BY <2>1, ShellAt
<1>y. PICK y : y = PipeCreateAnonymous(World)
  OBVIOUS
<1>v. PICK v : v = y.w
  OBVIOUS
<1>n. PICK n : n = y.id
  OBVIOUS
<1>l. PICK l : l = IF n < 0 THEN "prompt" ELSE "create_A"
  OBVIOUS
<1>r. PICK r : r = round[Shell] + 1
  OBVIOUS
<1>2. /\ WorldBecomes(v) /\ pipe_id' = n /\ round[Shell] < ROUNDS
      /\ held' = IF n < 0 THEN {} ELSE Modes
      /\ pc' = [pc EXCEPT ![Shell] = l]
      /\ round' = [round EXCEPT ![Shell] = r]
      /\ UNCHANGED <<file_descriptors, call, sent, got>>
  BY <1>1, <1>y, <1>v, <1>n, <1>l, <1>r DEF ShellCreatesPipe, Goto, R
<1>3. /\ World.k = Kernel /\ World.s = sems /\ World.p = pipes
      /\ v.k = Kernel /\ Sound(v) /\ Opened(World, v, n) /\ (n = -1 \/ n \in Anon)
  <2>A. PICK A : A = Readers
    OBVIOUS
  <2>B. PICK B : B = Writers
    OBVIOUS
  <2>1. A \in EndSets /\ B \in EndSets /\ Booked(World, A, B) /\ World.k = Kernel
    BY <2>A, <2>B, EndSetsNow DEF PipeInv, Counts, World
  <2>2. Made(World, y, A, B, Shell)
    BY <2>1, <1>y, AnonymousCreated, ShellIsAProcess
  <2> QED BY <2>2, <1>v, <1>n, WorldNow DEF Made, Booked
<1>4. Kernel' = Kernel /\ sems' = v.s /\ pipes' = v.p /\ World' = v
  BY <1>2, <1>3, WorldNext
<1>5. \A q \in Slots : Live(q)' <=> Live(q)
  BY <1>4 DEF Live, Kernel
<1>6. /\ Shell \in Slots /\ Shell \notin Programs /\ Fits /\ Lines
      /\ DOMAIN pc = Slots /\ DOMAIN round = Slots /\ round[Shell] \in Nat
      /\ ROUNDS \in Nat /\ round[Shell] \in 0 .. ROUNDS
  BY ShellIsAProcess, PipelineAssumption DEF FlowInv, LineInv, Later, PipeInv, ProgramsOK
<1>7. /\ \A q \in Slots \ {Shell} : pc'[q] = pc[q] /\ round'[q] = round[q]
                                    /\ PipeOf(q)' = PipeOf(q)
      /\ pc'[Shell] = l /\ round'[Shell] = r /\ PipeOf(Shell)' = n
      /\ "prompt" \notin OnAt
  BY <1>2, <1>6, LabelsOnAt DEF PipeOf
<1>8. /\ r \in Nat /\ r > round[Shell] /\ r \in Rounds
      /\ sent[r] = <<>> /\ got[r] = <<>>
  BY <1>2, <1>6, <1>r DEF Rounds, FlowInv, LineInv, Later
<1>9. Fits'
  <2>1. ASSUME NEW q \in Programs, Live(q)'
        PROVE  Fit(pc'[q], file_descriptors'[q], round'[q], round'[Shell], call'[q])
    <3>1. q \in Slots \ {Shell} /\ Live(q)
      BY <1>5, <1>6, <2>1 DEF Programs
    <3>2. Fit(pc[q], file_descriptors[q], round[q], round[Shell], call[q])
      BY <1>6, <3>1 DEF Fits
    <3>3. round[q] \in 1 .. round[Shell] => round[q] \in 1 .. r
      BY <1>6, <1>8
    <3> QED BY <1>2, <1>7, <3>1, <3>2, <3>3 DEF Fit
  <2> QED BY <1>2, <1>6, <2>1 DEF Fits
<1>10. \A q \in Slots \ {Shell} : pc[q] \in OnAt =>
         /\ PipeOf(q) \in Anon /\ pipes[PipeOf(q)].is_in_use
         /\ round[q] \in 1 .. round[Shell] /\ PipeOf(q) # n /\ round[q] # r
  <2> SUFFICES ASSUME NEW q \in Slots \ {Shell}, pc[q] \in OnAt
               PROVE  /\ PipeOf(q) \in Anon /\ pipes[PipeOf(q)].is_in_use
                      /\ round[q] \in 1 .. round[Shell] /\ PipeOf(q) # n /\ round[q] # r
    OBVIOUS
  <2>1. /\ PipeOf(q) \in Anon /\ pipes[PipeOf(q)].is_in_use
        /\ round[q] \in 1 .. round[Shell]
    BY <1>6, AtThePipe
  <2>2. n \in Anon => ~pipes[n].is_in_use
    BY <1>3 DEF Opened
  <2> QED BY <1>6, <1>8, <2>1, <2>2
<1>11. Lines'
  <2> SUFFICES ASSUME NEW p \in Slots, NEW q \in Slots, pc'[p] \in OnAt, pc'[q] \in OnAt
               PROVE  /\ PipeOf(p)' = PipeOf(q)' <=> round'[p] = round'[q]
                      /\ PipeOf(p)' = PipeOf(q)' /\ pc'[p] \in ReadAt /\ pc'[q] \in ReadAt
                           => p = q
                      /\ PipeOf(p)' = PipeOf(q)' /\ pc'[p] \in WriteAt /\ pc'[q] \in WriteAt
                           => p = q
    BY DEF Lines
  <2>1. CASE p = Shell \/ q = Shell
    BY <1>7, <1>10, <2>1
  <2>2. CASE p # Shell /\ q # Shell
    BY <1>6, <1>7, <2>2 DEF Lines
  <2> QED BY <2>1, <2>2
<1>12. Later' /\ Histories' /\ Buffers'
  <2>1. Buffers'
    BY <1>3, <1>4 DEF FlowInv, Buffers, Opened
  <2>2. Histories'
    BY <1>2 DEF FlowInv, Histories
  <2>3. Later'
    BY <1>2, <1>6, <1>7, <1>8 DEF FlowInv, LineInv, Later, Rounds
  <2> QED BY <2>1, <2>2, <2>3
<1>13. ASSUME NEW q \in Slots, pc'[q] \in ReadAt \cup WriteAt
       PROVE  ServedNow(q)'
  <2>k. PICK tok : tok = call[q].token
    OBVIOUS
  <2>1. CASE q = Shell
    <3>1. l = "create_A" /\ n \in Anon /\ tok = FALSE
      <4>1. l # "prompt"
        BY <1>7, <1>13, <2>1, LabelsOnAt
      <4>2. ~(n < 0)
        BY <4>1, <1>l
      <4> QED BY <1>3, <1>6, <1>l, <2>1, <2>k, <4>2 DEF Fits
    <3>2. Blank(v, n) /\ v.p[n].buffer = pipes[n].buffer
      BY <1>3, <3>1 DEF Opened
    <3>3. DOMAIN v.p[n].buffer = Places
      BY <3>1, <3>2 DEF FlowInv, Buffers
    <3>4. Ring(v.p[n], <<>>, <<>>) /\ Kept(<<>>, <<>>)
      BY <3>2, <3>3, RingNew DEF Blank
    <3>5. OnWay(<<>>, <<>>) = 0
      <4>z. PICK m : m = Len(<<>>)
        OBVIOUS
      <4>1. m = 0
        BY <4>z
      <4>2. OnWay(<<>>, <<>>) = m - m
        BY <4>z, OnWayIs
      <4> QED BY <4>1, <4>2
    <3>6. ~v.p[n].eof_signaled
      <4>0. ~(n < 0)
        BY <3>1 DEF Anon, STDERR, PipeIds
      <4>1. "PIPE_WRITE_END" \in held' /\ pipe_id' = n
        BY <1>2, <4>0 DEF Modes
      <4>2. Shell \in Writers[n]'
        BY <1>6, <3>1, <4>1 DEF Writers, Holders
      <4>3. Tallied(World'.p[n], Readers'[n], Writers'[n])
        BY <3>1 DEF PipeInv, Counts, Booked
      <4> QED BY <1>4, <4>2, <4>3 DEF Tallied
    <3>7. Tokens(v.p[n], <<>>, <<>>) = 0 /\ Room(<<>>, <<>>) = PIPE_BUFFER_SIZE
      BY <3>5, <3>6, PipeAssumption DEF Tokens, Room
    <3>8. PIPE_BUFFER_SIZE >= 0
      BY PipeAssumption
    <3>9. Served(v, <<>>, <<>>, n, l, FALSE, Shell)
      BY <3>2, <3>4, <3>7, <3>8 DEF Served, Seat, Blank
    <3>10. Served(World', sent'[r], got'[r], n, l, tok, Shell)
      BY <1>2, <1>4, <1>8, <3>1, <3>9
    <3> QED BY <1>2, <1>7, <2>1, <2>k, <3>10 DEF ServedNow
  <2>2. CASE q # Shell
    <3>j. PICK j : j = PipeOf(q)
      OBVIOUS
    <3>r. PICK o : o = round[q]
      OBVIOUS
    <3>m. PICK m : m = pc[q]
      OBVIOUS
    <3>1. /\ m \in ReadAt \cup WriteAt /\ pc'[q] = m
          /\ j \in Anon /\ pipes[j].is_in_use
      BY <1>7, <1>10, <1>13, <2>2, <3>j, <3>m, LabelsOnAt
    <3>2. Served(World, sent[o], got[o], j, m, tok, q)
      BY <1>13, <3>1, <2>k, <3>j, <3>r, <3>m DEF FlowInv, ServedAll, ServedNow
    <3>3. /\ v.s[Items(j)] = World.s[Items(j)] /\ v.s[Space(j)] = World.s[Space(j)]
          /\ v.p[j] = World.p[j]
      BY <1>3, <3>1 DEF Opened
    <3>4. SleepsAlike(World.k, v.k, q)
      BY <1>3, SleepsSame
    <3>5. Served(v, sent[o], got[o], j, m, tok, q)
      BY <3>2, <3>3, <3>4, ServedAlike
    <3>6. Served(World', sent'[o], got'[o], j, m, tok, q)
      BY <1>2, <1>4, <3>5
    <3> QED BY <1>2, <1>7, <2>2, <2>k, <3>1, <3>6, <3>j, <3>r DEF ServedNow
  <2> QED BY <2>1, <2>2
<1>14. ASSUME NEW j \in Anon, NEW q \in Slots, pipes'[j].is_in_use, Live(q)'
       PROVE  InPlace(j, q)'
  <2>1. CASE j = n
    <3>1. sems'[Items(j)].blocked = <<>> /\ sems'[Space(j)].blocked = <<>>
      BY <1>3, <1>4, <2>1 DEF Opened, Blank
    <3> QED BY <3>1 DEF InPlace, InQueue
  <2>2. CASE j # n
    <3>1. /\ pipes[j].is_in_use
          /\ sems'[Items(j)] = sems[Items(j)] /\ sems'[Space(j)] = sems[Space(j)]
      BY <1>3, <1>4, <1>14, <2>2 DEF Opened
    <3>2. Live(q) /\ (pc'[q] # pc[q] \/ PipeOf(q)' # PipeOf(q) => q = Shell)
      BY <1>5, <1>7, <1>14
    <3> QED BY <1>14, <3>1, <3>2, StraysKept
  <2> QED BY <2>1, <2>2
<1>15. ServedAll' /\ Strays'
  BY <1>13, <1>14 DEF ServedAll, Strays
<1> QED BY <1>9, <1>11, <1>12, <1>15 DEF FlowInv, LineInv

\* pipe_register() counts, and that is all.
CountsOnly(x, y) == /\ SameRing(x, y) /\ y.is_in_use = x.is_in_use
                    /\ y.eof_signaled = x.eof_signaled

LEMMA RegisterCounts ==
  ASSUME NEW w, w = [k |-> w.k, s |-> w.s, p |-> w.p], PipesShape(w.p), NEW i \in PipeIds,
         NEW mode, NEW v, v = PipeRegister(w, i, mode)
  PROVE  /\ v = [k |-> v.k, s |-> v.s, p |-> v.p] /\ PipesShape(v.p)
         /\ \A j \in PipeIds : CountsOnly(w.p[j], v.p[j])
<1>1. CASE ~w.p[i].is_in_use
  BY <1>1 DEF PipeRegister, CountsOnly, SameRing
<1>2. CASE w.p[i].is_in_use
  <2>c. PICK c : c = w.p[i]
    OBVIOUS
  <2>a. PICK a : a = c.ref_count + 1
    OBVIOUS
  <2>b. PICK b : b = IF mode = "PIPE_READ_END" THEN c.read_open_count + 1
                                               ELSE c.read_open_count
    OBVIOUS
  <2>e. PICK e : e = IF mode = "PIPE_WRITE_END" THEN c.write_open_count + 1
                                                ELSE c.write_open_count
    OBVIOUS
  <2>d. PICK d : d = [c EXCEPT !.ref_count = a, !.read_open_count = b,
                               !.write_open_count = e]
    OBVIOUS
  <2>1. /\ PipeShape(c) /\ w.p = [j \in PipeIds |-> w.p[j]]
        /\ \A j \in PipeIds : PipeShape(w.p[j])
    BY <2>c DEF PipesShape
  <2>2. PipeShape(d) /\ CountsOnly(c, d)
    BY <2>1, <2>d DEF PipeShape, CountsOnly, SameRing
  <2>3. v = [w EXCEPT !.p[i].ref_count = a, !.p[i].read_open_count = b,
                      !.p[i].write_open_count = e]
    <3>1. v = [w EXCEPT
                 !.p[i].ref_count = c.ref_count + 1,
                 !.p[i].read_open_count = IF mode = "PIPE_READ_END"
                                          THEN c.read_open_count + 1 ELSE c.read_open_count,
                 !.p[i].write_open_count = IF mode = "PIPE_WRITE_END"
                                           THEN c.write_open_count + 1
                                           ELSE c.write_open_count]
      BY <1>2, <2>1, <2>c DEF PipeRegister
    <3> QED BY <3>1, <2>a, <2>b, <2>e
  <2>4. /\ v = [k |-> w.k, s |-> w.s, p |-> v.p] /\ v.p = [w.p EXCEPT ![i] = d]
    <3>1. v = [k |-> w.k, s |-> w.s, p |-> v.p]
      BY <2>3
    <3>2. v.p = [w.p EXCEPT ![i].ref_count = a, ![i].read_open_count = b,
                            ![i].write_open_count = e]
      BY <2>3
    <3>3. v.p = [w.p EXCEPT ![i] = d]
      BY <3>2, <2>1, <2>c, <2>d
    <3> QED BY <3>1, <3>3
  <2>5. v.p[i] = d /\ \A j \in PipeIds \ {i} : v.p[j] = w.p[j]
    BY <2>1, <2>4
  <2>6. PipesShape(v.p)
    BY <2>1, <2>2, <2>4, <2>5 DEF PipesShape
  <2> QED BY <2>2, <2>4, <2>5, <2>6, <2>c DEF CountsOnly, SameRing
<1> QED BY <1>1, <1>2

LEMMA FdsCount ==
  ASSUME NEW w, Sound(w), NEW fd \in Fds, NEW v, v = RegisterFds(w, fd)
  PROVE  \A j \in PipeIds : CountsOnly(w.p[j], v.p[j])
<1>m. PICK m : m = IF fd.in > STDERR THEN PipeRegister(w, fd.in, "PIPE_READ_END") ELSE w
  OBVIOUS
<1>1. v = IF fd.out > STDERR THEN PipeRegister(m, fd.out, "PIPE_WRITE_END") ELSE m
  BY <1>m DEF RegisterFds
<1>2. /\ fd.in > STDERR => fd.in \in PipeIds
      /\ fd.out > STDERR => fd.out \in PipeIds
  BY AnonOrStandard DEF Anon
<1>3. w = [k |-> w.k, s |-> w.s, p |-> w.p] /\ PipesShape(w.p)
  BY DEF Sound
<1>4. /\ m = [k |-> m.k, s |-> m.s, p |-> m.p] /\ PipesShape(m.p)
      /\ \A j \in PipeIds : CountsOnly(w.p[j], m.p[j])
  <2>1. CASE fd.in > STDERR
    BY <1>2, <1>3, <1>m, <2>1, RegisterCounts
  <2>2. CASE ~(fd.in > STDERR)
    BY <1>3, <1>m, <2>2 DEF CountsOnly, SameRing
  <2> QED BY <2>1, <2>2
<1>5. \A j \in PipeIds : CountsOnly(m.p[j], v.p[j])
  <2>1. CASE fd.out > STDERR
    BY <1>1, <1>2, <1>4, <2>1, RegisterCounts
  <2>2. CASE ~(fd.out > STDERR)
    BY <1>1, <2>2 DEF CountsOnly, SameRing
  <2> QED BY <2>1, <2>2
<1> QED BY <1>4, <1>5 DEF CountsOnly, SameRing

\* An end that goes from a process to another one, or stays.
LEMMA ServedOn ==
  ASSUME NEW w, NEW v, NEW i, SameRing(w.p[i], v.p[i]),
         v.p[i].eof_signaled = w.p[i].eof_signaled, v.s = w.s,
         NEW s, NEW g, NEW l, NEW m, NEW tok, NEW p, NEW q,
         m \in ReadAt => l \in ReadAt, m \in WriteAt => l \in WriteAt,
         tok => p = q /\ SleepsAlike(w.k, v.k, q), Served(w, s, g, i, l, tok, p)
  PROVE  Served(v, s, g, i, m, tok, q)
<1>1. ASSUME NEW x, NEW c, Seat(w.k, x, tok, p, c)
      PROVE  Seat(v.k, x, tok, q, c)
  <2>1. CASE tok
    <3>1. p = q /\ SleepsAlike(w.k, v.k, q)
      BY <2>1
    <3>2. Seat(w.k, x, tok, q, c)
      BY <1>1, <3>1
    <3> QED BY ONLY <3>1, <3>2, SeatKept
  <2>2. CASE ~tok
    BY <1>1, <2>2 DEF Seat
  <2> QED BY <2>1, <2>2
<1>2. /\ Tokens(v.p[i], s, g) = Tokens(w.p[i], s, g)
      /\ Ring(w.p[i], s, g) => Ring(v.p[i], s, g)
  BY DEF Tokens, Ring, SameRing
<1> QED BY <1>1, <1>2 DEF Served

\* The slot that a new process takes.
LEMMA SlotFilledAlike ==
  ASSUME SchedInv, NEW q \in Slots, q # Caller, KernelBecomes(NewKernel(Kernel, q))
  PROVE  \A p \in Slots \ {q} : SleepsAlike(Kernel, Kernel', p)
<1>1. Settled(Kernel) /\ Kernel.current_index = Caller
  BY RunnerFacts
<1>r. PICK r : r = NewKernel(Kernel, q)
  OBVIOUS
<1>2. /\ Settled(r)
      /\ \A p \in Slots \ {q} : /\ r.state[p] = Kernel.state[p]
                                /\ r.blocks_amount[p] = Kernel.blocks_amount[p]
  BY <1>1, <1>r, NewKernelFacts
<1>3. Kernel' = r
  BY <1>2, <1>r, KernelAfter
<1> QED BY <1>2, <1>3 DEF SleepsAlike

\* create_process() of a program of the command line, with its end of the pipe.
LEMMA CreatesFlow ==
  ASSUME PipeInv, PipeInv', FlowInv, ~TakesQueuedSlot,
         NEW here, NEW l, NEW fd, NEW start, NEW who,
         \/ here = "create_A" /\ l = "create_B" /\ start = "write"
         \/ here = "create_B" /\ l = "close_read" /\ start \in {"read", "exit"},
         fd = IF here = "create_A" THEN [in |-> STDIN, out |-> pipe_id]
                                   ELSE [in |-> pipe_id, out |-> STDOUT],
         ShellCreates(here, l, fd, who, start)
  PROVE  FlowInv'
<1>1. Caller = Shell /\ pc[Shell] = here /\ here \in OnAt
  <2>1. At(here) /\ here \notin ProgramLabels
    BY DEF ShellCreates, ProgramLabels
  <2> QED BY <2>1, ShellAt, LabelsOnAt DEF ReadAt, WriteAt, OnAt
<1>2. /\ Shell \in Slots /\ Shell \notin Programs /\ Fits /\ Lines /\ SchedInv
      /\ DOMAIN pc = Slots /\ DOMAIN round = Slots /\ DOMAIN file_descriptors = Slots
      /\ UNCHANGED <<sems, call, pipe_id, sent, got>>
      /\ ~call[Shell].token
  BY ShellIsAProcess DEF FlowInv, LineInv, Fits, PipeInv, WaitInv, ProcInv, ProgramsOK,
     ShellCreates, CreatePiped, pipeVars
<1>i. PICK i : i = pipe_id
  OBVIOUS
<1>3. /\ PipeOf(Shell) = i /\ PipeOf(Shell)' = i /\ i \in Anon /\ pipes[i].is_in_use
      /\ round[Shell] \in Nat /\ round[Shell] \in 1 .. round[Shell]
  BY <1>1, <1>2, <1>i, AtThePipe DEF PipeOf
<1>4. /\ l \in OnAt
      /\ l \in ReadAt => here \in ReadAt
      /\ l \in WriteAt => here \in WriteAt
      /\ start \in ReadAt => here \in ReadAt /\ l \notin ReadAt
      /\ start \in WriteAt => here \in WriteAt /\ l \notin WriteAt
      /\ start \in OnAt /\ "gone" \notin OnAt
  BY DEF ReadAt, WriteAt, OnAt
<1>5. CASE FreeSlots(Kernel) = {}
  <2>1. /\ UNCHANGED <<procVars, pipes, file_descriptors, round>>
        /\ pc' = [pc EXCEPT ![Shell] = l]
    BY <1>5 DEF ShellCreates, pipeVars, Goto
  <2>2. Kernel' = Kernel /\ \A p \in Slots : Live(p)' <=> Live(p)
    BY <2>1 DEF procVars, schedVars, Kernel, Live
  <2>3. pc'[Shell] = l /\ \A p \in Slots \ {Shell} : pc'[p] = pc[p]
    BY <1>2, <2>1
  <2>4. \A p \in Slots : Stays(p)
    BY <1>1, <1>2, <1>4, <2>1, <2>3, PipeOfKept DEF Stays
  <2>5. Fits'
    <3>1. \A p \in Programs \ {Shell} : Live(p)' =>
            /\ Live(p) /\ pc'[p] = pc[p] /\ round'[p] = round[p]
            /\ file_descriptors'[p] = file_descriptors[p]
      BY <1>2, <2>1, <2>2, <2>3 DEF Programs
    <3>2. call'[Shell].token \in BOOLEAN /\ ~call'[Shell].token
      BY <1>2 DEF Fits
    <3>3. round'[Shell] = round[Shell] /\ \A p \in Slots \ {Shell} : call'[p] = call[p]
      BY <1>2, <2>1
    <3> QED BY <1>2, <3>1, <3>2, <3>3, FitsKept
  <2>6. \A p \in Slots : SleepsAlike(Kernel, Kernel', p)
    BY <2>2, SleepsSame
  <2>7. \A p \in Slots : call'[p].token = call[p].token /\ (pc'[p] # pc[p] => p = Shell)
    BY <1>2, <2>3
  <2> QED BY <1>2, <2>1, <2>2, <2>4, <2>5, <2>6, <2>7, QuietFlow
<1>6. CASE FreeSlots(Kernel) # {}
  <2>q. PICK q : q = Least(FreeSlots(Kernel))
    OBVIOUS
  <2>1. /\ SysCreate
        /\ IF state'[q] = "READY"
           THEN /\ pipes' = RegisterFds(World, fd).p
                /\ file_descriptors' = [file_descriptors EXCEPT ![q] = fd]
           ELSE UNCHANGED <<pipes, file_descriptors>>
        /\ pc' = [pc EXCEPT ![Shell] = l, ![q] = IF state'[q] = "READY" THEN start ELSE "gone"]
        /\ round' = [round EXCEPT ![q] = IF state'[q] = "READY" THEN round[Shell] ELSE 0]
    BY <1>1, <1>6, <2>q DEF ShellCreates, CreatePiped, R
  <2>2. q \in Programs /\ q \in Slots /\ q # Caller /\ q # Shell /\ ~Live(q)
    <3>1. FreeSlots(Kernel) \in SUBSET Nat
      BY DEF FreeSlots, Slots
    <3>2. q \in FreeSlots(Kernel)
      BY <1>6, <2>q, <3>1, LeastIsLeast
    <3>3. q \in Slots /\ ~Live(q)
      BY <3>2 DEF FreeSlots, Kernel, Live
    <3>4. IdleLives(Kernel) /\ Live(Shell)
      BY DEF PipeInv, WaitInv, ProgramsOK, ShellOK
    <3>5. q # IDLE_PID /\ q # Shell
      BY <3>2, <3>3, <3>4 DEF FreeSlots, IdleLives
    <3> QED BY <1>1, <3>3, <3>5 DEF Programs, Shell
  <2>3. ~call[q].token /\ call[q].token \in BOOLEAN /\ call[q].op = "none" /\ pc[q] = "gone"
    BY <1>2, <2>2, TokensLive DEF Fits, PipeInv, ProgramsOK, ProgramOK
  <2>4. KernelBecomes(NewKernel(Kernel, q)) \/ KernelBecomes(FreeKernel(Kernel, q))
    BY <2>1, <2>q DEF SysCreate
  <2>5. CASE KernelBecomes(FreeKernel(Kernel, q))
    <3>1. /\ state'[q] # "READY" /\ \A p \in Slots : Live(p)' <=> Live(p)
          /\ \A p \in Programs : Live(p) => SleepsAlike(Kernel, Kernel', p)
      BY <1>2, <2>2, <2>5, SlotEmptied, SlotAlike
    <3>2. /\ UNCHANGED <<pipes, file_descriptors>>
          /\ pc'[Shell] = l /\ pc'[q] = "gone"
          /\ \A p \in Slots \ {Shell, q} : pc'[p] = pc[p]
          /\ \A p \in Slots \ {q} : round'[p] = round[p]
      BY <1>2, <2>1, <2>2, <3>1
    <3>3. \A p \in Slots : Stays(p)
      BY <1>1, <1>2, <1>4, <2>2, <3>2, PipeOfKept DEF Stays
    <3>4. Fits'
      <4>1. \A p \in Programs \ {q} : Live(p)' =>
              /\ Live(p) /\ pc'[p] = pc[p] /\ round'[p] = round[p]
              /\ file_descriptors'[p] = file_descriptors[p]
        BY <1>2, <3>1, <3>2 DEF Programs
      <4>2. call'[q].token \in BOOLEAN /\ ~call'[q].token
        BY <1>2, <2>3
      <4>3. round'[Shell] = round[Shell] /\ \A p \in Slots \ {q} : call'[p] = call[p]
        BY <1>2, <2>2, <3>2
      <4>4. ~Live(q)'
        BY <2>2, <3>1
      <4> QED BY <1>2, <2>2, <4>1, <4>2, <4>3, <4>4, FitsKept
    <3>5. \A p \in Slots : call[p].token => SleepsAlike(Kernel, Kernel', p)
      BY <1>2, <3>1, TokensLive
    <3>6. \A p \in Slots : /\ call'[p].token = call[p].token
                           /\ pc'[p] # pc[p] => p = Shell
      BY <1>2, <2>3, <3>2
    <3>7. round'[Shell] = round[Shell]
      BY <1>2, <2>2, <3>2
    <3> QED BY <1>2, <3>1, <3>2, <3>3, <3>4, <3>5, <3>6, <3>7, QuietFlow
  <2>6. CASE KernelBecomes(NewKernel(Kernel, q))
    <3>1. /\ state'[q] = "READY" /\ Live(q)'
          /\ \A p \in Slots \ {q} : Live(p)' <=> Live(p)
      BY <1>2, <2>2, <2>6, SlotFilled
    <3>2. \A p \in Slots \ {q} : SleepsAlike(Kernel, Kernel', p)
      BY <1>2, <2>2, <2>6, SlotFilledAlike
    <3>v. PICK v : v = World'
      OBVIOUS
    <3>3. /\ pipes' = RegisterFds(World, fd).p
          /\ file_descriptors'[q] = fd
          /\ \A p \in Slots \ {q} : file_descriptors'[p] = file_descriptors[p]
          /\ pc'[Shell] = l /\ pc'[q] = start
          /\ \A p \in Slots \ {Shell, q} : pc'[p] = pc[p]
          /\ round'[q] = round[Shell]
          /\ \A p \in Slots \ {q} : round'[p] = round[p]
      BY <1>2, <2>1, <2>2, <3>1
    <3>4. /\ v.k = Kernel' /\ v.s = sems /\ v.p = pipes'
          /\ World.k = Kernel /\ World.s = sems /\ World.p = pipes
      BY <1>2, <3>v DEF World
    <3>5. /\ \/ fd.in = STDIN /\ fd.out = i /\ start = "write"
             \/ fd.in = i /\ fd.out = STDOUT /\ start \in {"read", "exit"}
          /\ i # STDIN /\ fd \in Fds
      BY <1>3, <1>i DEF Fds, Anon, STDIN, STDOUT, STDERR
    <3>6. \A j \in Anon : CountsOnly(pipes[j], pipes'[j])
      <4>y. PICK y : y = RegisterFds(World, fd)
        OBVIOUS
      <4>1. \A j \in PipeIds : CountsOnly(World.p[j], y.p[j])
        BY <3>5, <4>y, WorldNow, FdsCount
      <4> QED BY <3>3, <3>4, <4>1, <4>y DEF Anon
    <3> DEFINE o(x) == IF x = q THEN Shell ELSE x
    <3>7. PipeOf(q)' = i /\ \A p \in Slots \ {q} : PipeOf(p)' = PipeOf(p)
      BY <1>2, <2>2, <3>3, <3>5 DEF PipeOf
    <3>8. ASSUME NEW x \in Slots, pc'[x] \in OnAt
          PROVE  /\ o(x) \in Slots /\ pc[o(x)] \in OnAt /\ round'[x] = round[o(x)]
                 /\ PipeOf(x)' = PipeOf(o(x))
                 /\ pc'[x] \in ReadAt => pc[o(x)] \in ReadAt
                 /\ pc'[x] \in WriteAt => pc[o(x)] \in WriteAt
      <4>1. CASE x = q
        BY <1>1, <1>2, <1>3, <1>4, <3>3, <3>7, <4>1
      <4>2. CASE x = Shell
        BY <1>1, <1>2, <1>3, <1>4, <2>2, <3>3, <3>7, <4>2
      <4>3. CASE x \notin {q, Shell}
        BY <3>3, <3>7, <3>8, <4>3
      <4> QED BY <4>1, <4>2, <4>3
    <3>9. ASSUME NEW x \in Slots, NEW y \in Slots, o(x) = o(y), x # y
          PROVE  /\ ~(pc'[x] \in ReadAt /\ pc'[y] \in ReadAt)
                 /\ ~(pc'[x] \in WriteAt /\ pc'[y] \in WriteAt)
      <4>1. (x = q /\ y = Shell) \/ (x = Shell /\ y = q)
        BY <3>9
      <4> QED BY <1>4, <3>3, <4>1
    <3>10. Lines'
      <4> SUFFICES ASSUME NEW x \in Slots, NEW y \in Slots, pc'[x] \in OnAt, pc'[y] \in OnAt
                   PROVE  /\ PipeOf(x)' = PipeOf(y)' <=> round'[x] = round'[y]
                          /\ PipeOf(x)' = PipeOf(y)' /\ pc'[x] \in ReadAt /\ pc'[y] \in ReadAt
                               => x = y
                          /\ PipeOf(x)' = PipeOf(y)' /\ pc'[x] \in WriteAt /\ pc'[y] \in WriteAt
                               => x = y
        BY DEF Lines
      <4>a. PICK a : a = o(x)
        OBVIOUS
      <4>b. PICK b : b = o(y)
        OBVIOUS
      <4>1. /\ a \in Slots /\ pc[a] \in OnAt /\ round'[x] = round[a]
            /\ PipeOf(x)' = PipeOf(a)
            /\ pc'[x] \in ReadAt => pc[a] \in ReadAt
            /\ pc'[x] \in WriteAt => pc[a] \in WriteAt
        BY <3>8, <4>a
      <4>2. /\ b \in Slots /\ pc[b] \in OnAt /\ round'[y] = round[b]
            /\ PipeOf(y)' = PipeOf(b)
            /\ pc'[y] \in ReadAt => pc[b] \in ReadAt
            /\ pc'[y] \in WriteAt => pc[b] \in WriteAt
        BY <3>8, <4>b
      <4>3. a = b /\ x # y => /\ ~(pc'[x] \in ReadAt /\ pc'[y] \in ReadAt)
                              /\ ~(pc'[x] \in WriteAt /\ pc'[y] \in WriteAt)
        BY <3>9, <4>a, <4>b
      <4>4. /\ PipeOf(a) = PipeOf(b) <=> round[a] = round[b]
            /\ PipeOf(a) = PipeOf(b) /\ pc[a] \in ReadAt /\ pc[b] \in ReadAt => a = b
            /\ PipeOf(a) = PipeOf(b) /\ pc[a] \in WriteAt /\ pc[b] \in WriteAt => a = b
        BY <1>2, <4>1, <4>2 DEF Lines
      <4> QED BY <4>1, <4>2, <4>3, <4>4
    <3>11. Fits'
      <4>1. \A p \in Programs \ {q} : Live(p)' =>
              /\ Live(p) /\ pc'[p] = pc[p] /\ round'[p] = round[p]
              /\ file_descriptors'[p] = file_descriptors[p]
        BY <1>2, <3>1, <3>3 DEF Programs
      <4>2. call'[q].token \in BOOLEAN /\ ~call'[q].token
        BY <1>2, <2>3
      <4>3. round'[Shell] = round[Shell] /\ \A p \in Slots \ {q} : call'[p] = call[p]
        BY <1>2, <2>2, <3>3
      <4>4. Fit(pc'[q], file_descriptors'[q], round'[q], round[Shell], call'[q])
        BY <1>2, <1>3, <2>3, <3>3, <3>5 DEF Fit
      <4> QED BY <1>2, <2>2, <4>1, <4>2, <4>3, <4>4, FitsKept
    <3>12. Later' /\ Histories' /\ Buffers'
      <4>1. Buffers'
        BY <3>6 DEF FlowInv, Buffers, CountsOnly, SameRing
      <4>2. Histories'
        BY <1>2 DEF FlowInv, Histories
      <4>3. round'[Shell] = round[Shell]
        BY <1>2, <2>2, <3>3
      <4>4. Later'
        BY <1>2, <4>3 DEF FlowInv, LineInv, Later
      <4> QED BY <4>1, <4>2, <4>4
    <3>13. ASSUME NEW x \in Slots, pc'[x] \in ReadAt \cup WriteAt
           PROVE  ServedNow(x)'
      <4>a. PICK a : a = o(x)
        OBVIOUS
      <4>j. PICK j : j = PipeOf(a)
        OBVIOUS
      <4>r. PICK r : r = round[a]
        OBVIOUS
      <4>k. PICK tok : tok = call[a].token
        OBVIOUS
      <4>m. PICK m : m = pc'[x]
        OBVIOUS
      <4>1. /\ a \in Slots /\ pc[a] \in OnAt /\ round'[x] = r
            /\ PipeOf(x)' = j
            /\ m \in ReadAt => pc[a] \in ReadAt
            /\ m \in WriteAt => pc[a] \in WriteAt
        BY <3>8, <3>13, <4>a, <4>j, <4>r, <4>m, LabelsOnAt
      <4>2. j \in Anon
        BY <1>2, <4>1, <4>j, AtThePipe
      <4>3. Served(World, sent[r], got[r], j, pc[a], tok, a)
        BY <3>13, <4>1, <4>j, <4>r, <4>k, <4>m DEF FlowInv, ServedAll, ServedNow
      <4>4. call[x].token = tok /\ (tok => a = x /\ SleepsAlike(World.k, v.k, x))
        <5>1. CASE x = q
          BY <1>2, <2>2, <2>3, <4>a, <4>k, <5>1 DEF Fits
        <5>2. CASE x # q
          BY <3>2, <3>4, <4>a, <4>k, <5>2
        <5> QED BY <5>1, <5>2
      <4>5. /\ SameRing(World.p[j], v.p[j]) /\ v.p[j].eof_signaled = World.p[j].eof_signaled
            /\ v.s = World.s
        BY <3>4, <3>6, <4>2 DEF CountsOnly
      <4>6. Served(v, sent[r], got[r], j, m, tok, x)
        BY <4>1, <4>3, <4>4, <4>5, ServedOn
      <4>7. Served(World', sent'[r], got'[r], j, m, tok, x)
        BY <1>2, <3>v, <4>6
      <4> QED BY <1>2, <4>1, <4>4, <4>7, <4>m DEF ServedNow
    <3>14. ASSUME NEW j \in Anon, NEW x \in Slots, pipes'[j].is_in_use, Live(x)'
           PROVE  InPlace(j, x)'
      <4>1. pipes[j].is_in_use /\ sems' = sems
        BY <1>2, <3>6, <3>14 DEF CountsOnly
      <4>2. CASE x = q
        <5>1. Items(j) \in SemNames /\ Space(j) \in SemNames
          BY NamesOfPipe DEF SemsOf
        <5>2. sems[Items(j)].initialized /\ sems[Space(j)].initialized
          BY <4>1, WorldNow DEF Sound, AllMatched, Matched, SemsOf
        <5>3. ~Queued(q)
          BY <2>2, <3>1 DEF TakesQueuedSlot
        <5>4. ~InQueue(sems[Items(j)], q) /\ ~InQueue(sems[Space(j)], q)
          BY <5>1, <5>2, <5>3 DEF Queued, InQueue
        <5> QED BY <4>1, <4>2, <5>4 DEF InPlace
      <4>3. CASE x # q
        <5>1. Live(x) /\ PipeOf(x)' = PipeOf(x) /\ (pc'[x] # pc[x] => x = Shell)
          BY <3>1, <3>3, <3>7, <3>14, <4>3
        <5> QED BY <3>14, <4>1, <5>1, StraysKept
      <4> QED BY <4>2, <4>3
    <3>15. ServedAll' /\ Strays'
      BY <3>13, <3>14 DEF ServedAll, Strays
    <3> QED BY <3>10, <3>11, <3>12, <3>15 DEF FlowInv, LineInv
  <2> QED BY <2>4, <2>5, <2>6
<1> QED BY <1>5, <1>6

LEMMA CreatesProgramsFlow ==
  ASSUME PipeInv, PipeInv', FlowInv, ~TakesQueuedSlot, ShellCreatesA \/ ShellCreatesB
  PROVE  FlowInv'
<1>1. CASE ShellCreatesA
  <2>f. PICK fd : fd = [in |-> STDIN, out |-> pipe_id]
    OBVIOUS
  <2>1. ShellCreates("create_A", "create_B", fd, "A", "write")
    BY <1>1, <2>f DEF ShellCreatesA
  <2> QED BY <2>1, <2>f, CreatesFlow
<1>2. CASE ShellCreatesB
  <2>f. PICK fd : fd = [in |-> pipe_id, out |-> STDOUT]
    OBVIOUS
  <2>s. PICK start : start = IF plan.drains THEN "read" ELSE "exit"
    OBVIOUS
  <2>1. ShellCreates("create_B", "close_read", fd, "B", start)
    BY <1>2, <2>f, <2>s DEF ShellCreatesB
  <2>2. start \in {"read", "exit"}
    BY <2>s
  <2> QED BY <2>1, <2>2, <2>f, CreatesFlow
<1> QED BY <1>1, <1>2

-----------------------------------------------------------------------------
(* The invariant holds in every behaviour that gives no slot to two.       *)

LEMMA FlowInit ==
  ASSUME PipelineInit
  PROVE  FlowInv
<1>1. /\ pipes = [i \in PipeIds |-> [NoPipe EXCEPT !.is_in_use = i <= STDERR]]
      /\ call = [p \in Slots |-> NoCall]
      /\ pc = [p \in Slots |-> IF p = Shell THEN "prompt" ELSE "gone"]
      /\ round = [p \in Slots |-> 0]
      /\ sent = [r \in Rounds |-> <<>>] /\ got = [r \in Rounds |-> <<>>]
  BY DEF PipelineInit, PipelineStart, PipeInit
<1>2. PipeInv
  BY PipeInitInv
<1>n. PICK n : n = NoCall
  OBVIOUS
<1>3. n.op = "none" /\ n.token = FALSE
  BY <1>n DEF NoCall
<1>4. \A p \in Slots : pc[p] \notin OnAt /\ round[p] = 0 /\ call[p] = n
  BY <1>1, <1>n, LabelsOnAt
<1>5. \A p \in Programs : ~Live(p)
  BY <1>2, <1>4, ShellIsAProcess DEF PipeInv, ProgramsOK, ProgramOK, Programs
<1>6. Fits
  BY <1>3, <1>4, <1>5 DEF Fits
<1>7. Lines /\ ServedAll
  BY <1>4, LabelsOnAt DEF Lines, ServedAll
<1>8. Later
  BY <1>1, <1>4, ShellIsAProcess, PipelineAssumption DEF Later
<1>9. Histories
  <2>1. Kept(<<>>, <<>>)
    <3>x. PICK x : x = NoPipe
      OBVIOUS
    <3>1. DOMAIN x.buffer = Places /\ x.read_index = 0 /\ x.write_index = 0
      BY <3>x DEF NoPipe
    <3> QED BY <3>1, RingNew
  <2> QED BY <1>1, <2>1 DEF Histories
<1>10. ASSUME NEW i \in Anon
       PROVE  DOMAIN pipes[i].buffer = Places /\ ~pipes[i].is_in_use
  <2>b. PICK b : b = (i <= STDERR)
    OBVIOUS
  <2>x. PICK x : x = NoPipe
    OBVIOUS
  <2>1. DOMAIN x.buffer = Places /\ x = [x EXCEPT !.ref_count = x.ref_count]
    BY <2>x DEF NoPipe
  <2>0. i \in PipeIds /\ ~(i <= STDERR)
    BY DEF Anon, PipeIds, STDERR
  <2>2. i \in PipeIds /\ ~b
    BY <2>0, <2>b
  <2>3. pipes[i] = [x EXCEPT !.is_in_use = b]
    BY <1>1, <2>2, <2>b, <2>x
  <2>4. pipes[i].buffer = x.buffer /\ pipes[i].is_in_use = b
    BY <2>3, <2>x DEF NoPipe
  <2> QED BY <2>1, <2>2, <2>4
<1>11. Buffers /\ Strays
  BY <1>10 DEF Buffers, Strays
<1> QED BY <1>6, <1>7, <1>8, <1>9, <1>11 DEF FlowInv, LineInv

LEMMA FlowNext ==
  PipeInv /\ PipeInv' /\ FlowInv /\ [PipelineNext /\ ~TakesQueuedSlot]_pipelineVars
    => FlowInv'
<1> SUFFICES ASSUME PipeInv, PipeInv', FlowInv,
                    [PipelineNext /\ ~TakesQueuedSlot]_pipelineVars
             PROVE  FlowInv'
  OBVIOUS
<1>1. CASE ShellCreatesPipe
  BY <1>1, CreatesPipeFlow
<1>2. CASE (ShellCreatesA \/ ShellCreatesB) /\ ~TakesQueuedSlot
  BY <1>2, CreatesProgramsFlow
<1>3. CASE ShellClosesRead \/ ShellClosesWrite
  BY <1>3, ClosesFlow
<1>4. CASE ShellWaitsA \/ ShellWaitsB
  BY <1>4, WaitsFlow
<1>5. CASE Returns
  BY <1>5, ReturnsFlow
<1>6. CASE ShellYields
  BY <1>6, YieldFlow
<1>7. CASE ShellSleeps
  BY <1>7, SleepFlow
<1>8. CASE WriterWrites \/ WriterEnds \/ ReaderReads
  BY <1>8, OwnFlow
<1>9. CASE WriteSleeps \/ ReadSleeps
  BY <1>9, SleepsFlow
<1>10. CASE WriteGoesOn
  BY <1>10, WriteFlow
<1>11. CASE ReadGoesOn
  BY <1>11, ReadFlow
<1>12. CASE ProgramExits \/ \E p \in Slots \ {Shell} : UserKills(p)
  BY <1>12, DeathFlow
<1>13. CASE PipelineTick
  BY <1>13, TickFlow
<1>14. CASE UNCHANGED pipelineVars
  BY <1>14, StutterFlow
<1> QED BY <1>1, <1>2, <1>3, <1>4, <1>5, <1>6, <1>7, <1>8, <1>9, <1>10, <1>11, <1>12,
           <1>13, <1>14 DEF PipelineNext, UserStep

LEMMA FlowInvHolds == UnqueuedSpec => [](PipeInv /\ FlowInv)
<1>1. PipelineInit => PipeInv /\ FlowInv
  BY PipeInitInv, FlowInit
<1>2. PipeInv /\ FlowInv /\ [PipelineNext /\ ~TakesQueuedSlot]_pipelineVars
        => PipeInv' /\ FlowInv'
  <2>1. [PipelineNext /\ ~TakesQueuedSlot]_pipelineVars => [PipelineNext]_pipelineVars
    OBVIOUS
  <2> QED BY <2>1, PipeNextInv, FlowNext
<1> QED BY <1>1, <1>2, PTL DEF UnqueuedSpec

\* A ring that nothing is on its way through has given all that it took.
LEMMA NothingOnWay ==
  ASSUME NEW s, NEW g, Kept(s, g), OnWay(s, g) = 0
  PROVE  s = g
<1>m. PICK m : m = Len(s)
  OBVIOUS
<1>n. PICK n : n = Len(g)
  OBVIOUS
<1>1. m \in Nat /\ DOMAIN s = 1 .. m /\ n \in Nat /\ DOMAIN g = 1 .. n
  BY <1>m, <1>n, ShapedFacts DEF Kept
<1>2. m - n = 0
  BY <1>m, <1>n, OnWayIs
<1>3. m = n
  BY <1>1, <1>2
<1>4. s = [j \in 1 .. m |-> s[j]] /\ g = [j \in 1 .. n |-> g[j]]
  BY <1>m, <1>n, LenProperties DEF Kept, Shaped
<1>5. \A j \in 1 .. n : g[j] = s[j]
  BY <1>1 DEF Kept
<1> QED BY <1>3, <1>4, <1>5

\* Nobody sleeps in pipe_read() for a byte that is there, or after EOF, and nobody
\* in pipe_write() for space that is there: a byte that pipe_read() takes, one
\* that pipe_write() leaves and the posts of close_write_end() wake up whom they
\* must, as long as create_process() gives nobody a slot that is still in the
\* queue of a semaphore.
THEOREM SleepersWaitForSomething == UnqueuedSpec => []NoLostWakeup
<1>1. PipeInv /\ FlowInv => NoLostWakeup
  <2> SUFFICES ASSUME PipeInv, FlowInv, NEW p \in Slots, call[p].token,
                      state[p] = "BLOCKED"
               PROVE  IF call[p].op = "read"
                      THEN /\ ~pipes[call[p].id].eof_signaled
                           /\ sent[round[p]] = got[round[p]]
                      ELSE Len(sent[round[p]]) - Len(got[round[p]]) = PIPE_BUFFER_SIZE
    BY DEF NoLostWakeup
  <2>1. p \in Programs /\ Live(p) /\ call[p].op # "none" /\ p # Shell
    BY TokensLive, ShellIsAProcess DEF FlowInv, LineInv, Fits
  <2>f. PICK fd : fd = file_descriptors[p]
    OBVIOUS
  <2>i. PICK i : i = call[p].id
    OBVIOUS
  <2>r. PICK r : r = round[p]
    OBVIOUS
  <2>s. PICK s : s = sent[r]
    OBVIOUS
  <2>g. PICK g : g = got[r]
    OBVIOUS
  <2>2. Fit(pc[p], fd, r, round[Shell], call[p]) /\ CallOK(call[p], fd)
    BY <2>1, <2>f, <2>r DEF FlowInv, LineInv, Fits, PipeInv, ProgramsOK
  <2>3. /\ pc[p] = call[p].op
        /\ \/ fd.in = STDIN /\ fd.out \in Anon /\ pc[p] = "write" /\ i = fd.out
           \/ fd.in \in Anon /\ fd.out = STDOUT /\ pc[p] = "read" /\ i = fd.in
    BY <2>1, <2>2, <2>i DEF Fit, CallOK
  <2>4. PipeOf(p) = i /\ i \in Anon
    <3>1. \A x \in Anon : x # STDIN
      BY DEF Anon, STDIN, STDERR
    <3> QED BY <2>1, <2>3, <2>f, <3>1 DEF PipeOf
  <2>5. pc[p] \in ReadAt \cup WriteAt /\ pc[p] \in OnAt
    BY <2>3 DEF ReadAt, WriteAt, OnAt
  <2>6. Kept(s, g)
    BY <2>5, <2>r, <2>s, <2>g, RoundOfLine
  <2>7. Served(World, s, g, i, pc[p], TRUE, p)
    <3>1. call[p].token = TRUE
      BY DEF FlowInv, LineInv, Fits
    <3> QED BY <2>4, <2>5, <2>r, <2>s, <2>g, <3>1 DEF FlowInv, ServedAll, ServedNow
  <2>d. PICK d : d = OnWay(s, g)
    OBVIOUS
  <2>8. /\ PIPE_BUFFER_SIZE \in Nat /\ EOF_POSTS \in Nat /\ EOF_POSTS > 0
        /\ d \in 0 .. PIPE_BUFFER_SIZE
    BY <2>6, <2>d, PipeAssumption DEF Kept
  <2>9. \A x, v : Seat(Kernel, x, TRUE, p, v) => v = 0
    BY WorldNow DEF Seat
  <2>10. CASE pc[p] = "read"
    <3>1. Tokens(pipes[i], s, g) = 0
      BY <2>7, <2>9, <2>10, WorldNow DEF Served, ReadAt
    <3>2. ~pipes[i].eof_signaled /\ d = 0
      BY <2>8, <2>d, <3>1 DEF Tokens
    <3>3. s = g
      BY <2>6, <2>d, <3>2, NothingOnWay
    <3> QED BY <2>3, <2>10, <2>i, <2>r, <2>s, <2>g, <3>2, <3>3
  <2>11. CASE pc[p] = "write"
    <3>1. Room(s, g) = 0
      BY <2>7, <2>9, <2>11, WorldNow DEF Served, WriteAt
    <3>2. d = PIPE_BUFFER_SIZE
      BY <2>8, <2>d, <3>1 DEF Room
    <3>3. Len(s) - Len(g) = PIPE_BUFFER_SIZE
      BY <2>d, <3>2 DEF OnWay
    <3> QED BY <2>3, <2>11, <2>r, <2>s, <2>g, <3>3
  <2> QED BY <2>3, <2>10, <2>11
<1> QED BY <1>1, FlowInvHolds, PTL

\* pipe_write() puts a byte only where pipe_read() has taken the one before: the
\* bytes on their way are never more than the ring has places, and those that
\* were read are the first ones that were written, in their order.
THEOREM RingsHoldTheirBytes == UnqueuedSpec => []RingHolds
<1>1. PipeInv /\ FlowInv => RingHolds
  <2> SUFFICES ASSUME PipeInv, FlowInv, NEW r \in Rounds
               PROVE  /\ Len(sent[r]) - Len(got[r]) <= PIPE_BUFFER_SIZE
                      /\ \A j \in DOMAIN got[r] : got[r][j] = sent[r][j]
    BY DEF RingHolds
  <2>1. Kept(sent[r], got[r])
    BY DEF FlowInv, Histories
  <2>d. PICK d : d = OnWay(sent[r], got[r])
    OBVIOUS
  <2>2. PIPE_BUFFER_SIZE \in Nat /\ d \in 0 .. PIPE_BUFFER_SIZE
    BY <2>1, <2>d, PipeAssumption DEF Kept
  <2>3. d <= PIPE_BUFFER_SIZE
    BY <2>2
  <2> QED BY <2>1, <2>3, <2>d DEF Kept, OnWay
<1> QED BY <1>1, FlowInvHolds, PTL
=============================================================================
