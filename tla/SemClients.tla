----------------------------- MODULE SemClients ------------------------------
(***************************************************************************)
(* Any number of processes over the semaphores of Semaphore, in any order  *)
(* of calls that userland keeps to: a process uses a semaphore between an  *)
(* open and a close of its own, and nobody blocks or unblocks a process    *)
(* from outside.                                                           *)
(***************************************************************************)
EXTENDS Semaphore

CONSTANTS Values,   \* the values semaphores are opened with
          MaxValue  \* bound: posts ahead of waits

ASSUME ValuesAssumption == Values \subseteq Nat /\ MaxValue \in Nat

VARIABLES opened,  \* opened[p][n]: p is between its open and its close of n
          balance  \* the calls made of each semaphore: what it was opened with,
                   \* and sem_post() less sem_wait()

clientVars == <<schedVars, sems, opened, balance>>

Users(n) == {p \in Procs : opened[p][n]}

ClientInit == /\ SchedInit
              /\ SemInit
              /\ opened = [p \in Procs |-> [n \in SemNames |-> FALSE]]
              /\ balance = [n \in SemNames |-> 0]

Tick == TimerTick /\ UNCHANGED <<sems, opened, balance>>

Open(n, v) ==
  /\ Caller \in Procs /\ ~opened[Caller][n]
  /\ SysSemOpen(n, v)
  /\ opened' = [opened EXCEPT ![Caller][n] = SemOpenResult(sems, n) # -2]
  /\ balance' = IF Users(n) = {} /\ SemOpenResult(sems, n) # -2
                THEN [balance EXCEPT ![n] = v] ELSE balance

Wait(n) ==
  /\ Caller \in Procs /\ opened[Caller][n]
  /\ SysSemWait(n)
  /\ balance' = [balance EXCEPT ![n] = @ - 1]
  /\ UNCHANGED opened

Post(n) ==
  /\ Caller \in Procs /\ opened[Caller][n]
  /\ sems[n].value < MaxValue
  /\ SysSemPost(n)
  /\ balance' = [balance EXCEPT ![n] = @ + 1]
  /\ UNCHANGED opened

Close(n) ==
  /\ Caller \in Procs /\ opened[Caller][n]
  /\ SysSemClose(n)
  /\ opened' = [opened EXCEPT ![Caller][n] = FALSE]
  /\ balance' = IF Users(n) = {Caller} THEN [balance EXCEPT ![n] = 0] ELSE balance

ClientNext ==
  \/ Tick
  \/ \E n \in SemNames : Wait(n) \/ Post(n) \/ Close(n) \/ \E v \in Values : Open(n, v)

ClientSpec == ClientInit /\ [][ClientNext]_clientVars

-----------------------------------------------------------------------------

QueuePlaces == {q \in SemNames \X (1 .. PROCESSES_BLOCKED) :
                  /\ sems[q[1]].initialized
                  /\ q[2] <= Len(sems[q[1]].blocked)}

\* Who sleeps is in exactly one queue, once, and of a semaphore that is still
\* open: sem_post() can wake it up, and never wakes up anybody else.
SleepersQueue ==
  /\ \A p \in Procs :
       state[p] = "BLOCKED" <=>
         \E q \in QueuePlaces : sems[q[1]].blocked[q[2]] = p
  /\ \A q, r \in QueuePlaces :
       sems[q[1]].blocked[q[2]] = sems[r[1]].blocked[r[2]] => q = r

\* The openings are those of the processes that have not closed it yet, so no
\* semaphore disappears under a process that uses it.
OpeningsAgree ==
  \A n \in SemNames :
    /\ sems[n].initialized <=> Users(n) # {}
    /\ sems[n].initialized => sems[n].openings = Cardinality(Users(n))

\* The semaphores implement those of CountingSemaphore: between the first open
\* and the last close no call loses a token or makes one, whether anybody sleeps
\* or not, and sleepers are served in order.
SleepingOn(n) ==
  LET queue     == IF sems[n].initialized THEN sems[n].blocked ELSE <<>>
      sleeps(p) == state[p] = "BLOCKED"
  IN IF \A i \in 1 .. Len(queue) : sleeps(queue[i]) THEN queue
     ELSE SelectSeq(queue, sleeps)

TokensOf(r) == IF r.initialized /\ r.value > 0 THEN r.value ELSE 0

Openers == [n \in SemNames |-> Users(n)]
Tokens == [n \in SemNames |-> TokensOf(sems[n])]
Asleep == [n \in SemNames |-> SleepingOn(n)]

Counting == INSTANCE CountingSemaphore WITH
  Names <- SemNames, People <- Procs, Amounts <- Values,
  users <- Openers, tokens <- Tokens, asleep <- Asleep
ImplementsCounting == Counting!Spec

=============================================================================
