-------------------------------- MODULE Pipe ---------------------------------
(***************************************************************************)
(* The pipes of Kernel/pipes.c, over the processes and the semaphores.     *)
(*                                                                         *)
(* A pipe keeps its bytes in a ring and counts them with two semaphores of *)
(* its own, so a read or a write may fall asleep inside the kernel: call   *)
(* is the rest of the call a process is in the middle of.  It goes on with *)
(* interrupts off, before anything else, when the process has the CPU.     *)
(*                                                                         *)
(* World is the record [k, s, p] of the kernel, the semaphores and the     *)
(* pipes; an operator that takes and returns one is a C function.          *)
(*                                                                         *)
(* GLOBAL_PIPE_TABLE_LOCK is taken and released with interrupts off and no *)
(* switch in between: no process ever sleeps on it and it is left out.     *)
(* The arrays beyond descriptors 0 and 1 hold what no program sets.        *)
(***************************************************************************)
EXTENDS Process, Semaphore, TLC

CONSTANTS MAX_PIPES,         \* entries of global_pipe_table[]
          PIPE_BUFFER_SIZE,  \* bytes of a pipe's ring
          EOF_POSTS          \* posts that wake up readers at end of file

VARIABLES pipes,             \* global_pipe_table[]
          file_descriptors,  \* PCB.file_descriptors, of 0 (in) and 1 (out)
          call               \* what is left of a read or a write

pipeVars == <<pipes, file_descriptors, call>>

STDIN  == 0
STDOUT == 1
STDERR == 2

\* The table has the three entries of the standard descriptors.
ASSUME PipeAssumption == /\ MAX_PIPES \in Nat /\ MAX_PIPES > STDERR
                         /\ PIPE_BUFFER_SIZE \in Nat \ {0}
                         /\ EOF_POSTS \in Nat \ {0}

PipeIds == 0 .. MAX_PIPES - 1
Places == 0 .. PIPE_BUFFER_SIZE - 1
Modes == {"PIPE_READ_END", "PIPE_WRITE_END"}

\* The first three entries are taken for the standard descriptors.
NoPipe == [is_in_use |-> FALSE, is_named |-> FALSE, name |-> "",
           ref_count |-> 0, write_open_count |-> 0, read_open_count |-> 0,
           eof_signaled |-> FALSE, buffer |-> [j \in Places |-> 0],
           read_index |-> 0, write_index |-> 0]

PipeInit ==
  /\ pipes = [i \in PipeIds |-> [NoPipe EXCEPT !.is_in_use = i <= STDERR]]
  /\ file_descriptors = [p \in Slots |-> [in |-> STDIN, out |-> STDOUT]]

NoCall == [op |-> "none", id |-> 0, bytes |-> <<>>, token |-> FALSE]

World == [k |-> Kernel, s |-> sems, p |-> pipes]

WorldBecomes(w) == \E r \in {w} : /\ KernelBecomes(r.k)
                                  /\ sems' = r.s
                                  /\ pipes' = r.p

-----------------------------------------------------------------------------
(* sem.c, on a world.                                                      *)

Opens(w, n) == SemOpenResult(w.s, n) = 0
SemOpenIn(w, n, v) == [w EXCEPT !.s = SemOpen(w.s, n, v)]
SemCloseIn(w, n) == [w EXCEPT !.s = SemClose(w.s, n)]
SemWaitIn(w, n) == [w EXCEPT !.k = SemWaitKernel(w.k, w.s, n),
                             !.s = SemWaitTable(w.k, w.s, n)]
SemPostIn(w, n) == [w EXCEPT !.k = SemPostKernel(w.k, w.s, n),
                             !.s = SemPostTable(w.s, n)]

\* build_sem_names()
LockOf(pipe)  == "p_lock_" \o pipe.name
ItemsOf(pipe) == "p_items_" \o pipe.name
SpaceOf(pipe) == "p_space_" \o pipe.name

\* The name of an anonymous pipe.
AnonName(i) == "anon_" \o ToString(i)

\* Pipes of different names share no semaphore.
NamesDiffer(names) ==
  \A m, n \in names :
    LET a == [name |-> m]
        b == [name |-> n]
    IN /\ LockOf(a) # ItemsOf(b) /\ LockOf(a) # SpaceOf(b) /\ ItemsOf(a) # SpaceOf(b)
       /\ m # n => /\ LockOf(a) # LockOf(b)
                   /\ ItemsOf(a) # ItemsOf(b)
                   /\ SpaceOf(a) # SpaceOf(b)

\* What StringsProofs proves of the C code, of the texts of this module.
ASSUME NamesAssumption ==
  /\ \A i, j \in PipeIds : AnonName(i) = AnonName(j) => i = j
  /\ NamesDiffer({AnonName(i) : i \in PipeIds})
  /\ \A i \in PipeIds : i > STDERR =>
       LET a == [name |-> AnonName(i)]
       IN {LockOf(a), ItemsOf(a), SpaceOf(a)} \subseteq SemNames

\* sem_post() some times in a row.  (Bound again, so that TLC computes every
\* world once.)
PostTimes(w, n, times) ==
  LET after[j \in 0 .. times] ==
        IF j = 0 THEN {w} ELSE {SemPostIn(x, n) : x \in after[j - 1]}
  IN CHOOSE x \in after[times] : TRUE

-----------------------------------------------------------------------------
(* pipe_create_anonymous() and pipe_create_named()                         *)

TakeEntry(w, i, name, named) ==
  [w EXCEPT !.p[i].is_in_use = TRUE, !.p[i].name = name, !.p[i].is_named = named,
            !.p[i].read_index = 0, !.p[i].write_index = 0]

GiveUp(w, i) == [w |-> [w EXCEPT !.p[i].is_in_use = FALSE], id |-> -1]

\* A semaphore that exists already is a failure too, one opening later.
OpenSems(w, i) ==
  LET pp == w.p[i]
      b  == SemOpenIn(w, LockOf(pp), 1)
      c  == SemOpenIn(b, ItemsOf(pp), 0)
      d  == SemOpenIn(c, SpaceOf(pp), PIPE_BUFFER_SIZE)
  IN IF ~Opens(w, LockOf(pp)) THEN GiveUp(b, i)
     ELSE IF ~Opens(b, ItemsOf(pp)) THEN GiveUp(SemCloseIn(c, LockOf(pp)), i)
     ELSE IF ~Opens(c, SpaceOf(pp))
     THEN GiveUp(SemCloseIn(SemCloseIn(d, LockOf(pp)), ItemsOf(pp)), i)
     ELSE [w |-> d, id |-> i]

CreatePipeObject(w, i, name, named) == OpenSems(TakeEntry(w, i, name, named), i)

FreePipes(w) == {i \in PipeIds : ~w.p[i].is_in_use}

\* The creator holds both ends.
BothEnds(w, i) ==
  [w EXCEPT !.p[i].ref_count = 2, !.p[i].write_open_count = 1,
            !.p[i].read_open_count = 1, !.p[i].eof_signaled = FALSE]

PipeCreateAnonymous(w) ==
  IF FreePipes(w) = {} THEN [w |-> w, id |-> -1]
  ELSE LET i == Least(FreePipes(w))
           r == CreatePipeObject(w, i, AnonName(i), FALSE)
       IN IF r.id < 0 THEN r
          ELSE [r EXCEPT !.w = BothEnds(@, i)]

NamedPipes(w, name) ==
  {i \in PipeIds : w.p[i].is_in_use /\ w.p[i].is_named /\ w.p[i].name = name}

\* A new named pipe keeps the open counts and the EOF flag of its slot.
PipeCreateNamed(w, name) ==
  IF NamedPipes(w, name) # {}
  THEN [w |-> [w EXCEPT !.p[Least(NamedPipes(w, name))].ref_count = @ + 1],
        id |-> Least(NamedPipes(w, name))]
  ELSE IF FreePipes(w) = {} THEN [w |-> w, id |-> -1]
  ELSE LET i == Least(FreePipes(w))
           r == CreatePipeObject(w, i, name, TRUE)
       IN IF r.id < 0 THEN r ELSE [r EXCEPT !.w.p[i].ref_count = 1]

\* pipe_register()
PipeRegister(w, i, mode) ==
  IF ~w.p[i].is_in_use THEN w
  ELSE [w EXCEPT
          !.p[i].ref_count = @ + 1,
          !.p[i].read_open_count = IF mode = "PIPE_READ_END" THEN @ + 1 ELSE @,
          !.p[i].write_open_count = IF mode = "PIPE_WRITE_END" THEN @ + 1 ELSE @]

-----------------------------------------------------------------------------
(* pipe_close() and kill_pipes()                                           *)

\* Mutant: nobody is woken up at EOF.
CloseWriteEnd_Silent(w, i) ==
  LET a == [w EXCEPT !.p[i].write_open_count = IF @ > 0 THEN @ - 1 ELSE @]
  IN [a EXCEPT !.p[i].eof_signaled = @ \/ a.p[i].write_open_count = 0]

\* The write end that is the last one to go signals EOF.
CloseWriteEnd(w, i) ==
  LET a == [w EXCEPT !.p[i].write_open_count = IF @ > 0 THEN @ - 1 ELSE @]
  IN IF a.p[i].write_open_count = 0 /\ ~a.p[i].eof_signaled
     THEN PostTimes([a EXCEPT !.p[i].eof_signaled = TRUE], ItemsOf(a.p[i]), EOF_POSTS)
     ELSE a

CloseReadEnd(w, i) ==
  [w EXCEPT !.p[i].read_open_count = IF @ > 0 THEN @ - 1 ELSE @]

DropReference(w, i) ==
  LET a == [w EXCEPT !.p[i].ref_count = @ - 1]
      n == a.p[i]
  IN IF n.ref_count # 0 THEN a
     ELSE [SemCloseIn(SemCloseIn(SemCloseIn(a, LockOf(n)), ItemsOf(n)), SpaceOf(n))
             EXCEPT !.p[i].is_in_use = FALSE]

\* Mutant: closing an end gives back no reference.
PipeClose_KeepsReference(w, i, mode) ==
  IF ~w.p[i].is_in_use THEN w
  ELSE IF mode = "PIPE_WRITE_END" THEN CloseWriteEnd(w, i) ELSE CloseReadEnd(w, i)

PipeClose(w, i, mode) ==
  IF ~w.p[i].is_in_use THEN w
  ELSE DropReference(IF mode = "PIPE_WRITE_END"
                     THEN CloseWriteEnd(w, i) ELSE CloseReadEnd(w, i), i)

\* Mutant: only descriptor 0 is looked at.
KillPipes_InOnly(w, fd) ==
  IF fd.in > STDERR THEN PipeClose(w, fd.in, "PIPE_READ_END") ELSE w

\* kill_pipes() closes what the descriptors of a dying process stand for.
KillPipes(w, fd) ==
  LET a == IF fd.in > STDERR THEN PipeClose(w, fd.in, "PIPE_READ_END") ELSE w
  IN IF fd.out > STDERR THEN PipeClose(a, fd.out, "PIPE_WRITE_END") ELSE a

-----------------------------------------------------------------------------
(* One turn of the loops of pipe_read() and pipe_write(), on one byte.     *)
(* What comes before the first sem_wait() returns is left to the callers.  *)

LooksEmpty(pipe) == pipe.read_index = pipe.write_index

\* Mutants: EOF is told before the bytes that are left; the lock is not given
\* back at EOF.
ReadByte_EOFFirst(w, i) ==
  LET pp    == w.p[i]
      taken == [w EXCEPT !.p[i].read_index = (@ + 1) % PIPE_BUFFER_SIZE]
  IN IF pp.eof_signaled THEN [w |-> w, bytes |-> <<>>]
     ELSE [w |-> SemPostIn(taken, SpaceOf(pp)), bytes |-> <<pp.buffer[pp.read_index]>>]

\* After sem_wait(items): the byte that is read, or none at EOF.  A ring that
\* looks empty gives its lock back, and goes on to read when it is not EOF.
ReadByte(w, i) ==
  LET pp    == w.p[i]
      held  == SemWaitIn(w, LockOf(pp))
      a     == IF LooksEmpty(pp) THEN SemPostIn(held, LockOf(pp)) ELSE held
      taken == [a EXCEPT !.p[i].read_index = (@ + 1) % PIPE_BUFFER_SIZE]
  IN IF LooksEmpty(pp) /\ pp.eof_signaled
     THEN [w |-> a, bytes |-> <<>>]
     ELSE [w |-> SemPostIn(SemPostIn(taken, LockOf(pp)), SpaceOf(pp)),
           bytes |-> <<pp.buffer[pp.read_index]>>]

\* After sem_wait(space).
WriteByte(w, i, b) ==
  LET pp   == w.p[i]
      held == SemWaitIn(w, LockOf(pp))
      put  == [held EXCEPT !.p[i].buffer[pp.write_index] = b,
                           !.p[i].write_index = (@ + 1) % PIPE_BUFFER_SIZE]
  IN SemPostIn(SemPostIn(put, LockOf(pp)), ItemsOf(pp))

-----------------------------------------------------------------------------
(* The calls.                                                              *)

\* The process on the CPU is inside of one, and nothing else happens.
InCall == CurrentRuns(Kernel) /\ call[Caller] # NoCall

\* The process on the CPU runs its program.
InUser == UserRuns /\ ~InWait /\ ~InCall

\* read() of one byte and write() of some, by descriptor 0 and 1, on a pipe.
StartsRead(p) ==
  call' = [call EXCEPT ![p] = [NoCall EXCEPT !.op = "read",
                                             !.id = file_descriptors[p].in]]

StartsWrite(p, b) ==
  call' = [call EXCEPT ![p] = [NoCall EXCEPT !.op = "write",
                                             !.id = file_descriptors[p].out,
                                             !.bytes = b]]

\* sem_wait() of a semaphore with no token left: the process sleeps, and has
\* its token when it wakes up.
FallsAsleep(n) ==
  /\ ~call[Caller].token /\ MustSleep(sems, n)
  /\ WorldBecomes(SemWaitIn(World, n))
  /\ call' = [call EXCEPT ![Caller].token = TRUE]

\* Mutant: whoever does not sleep takes no token.
WithToken_NotTaken(n) == World

\* The world with the token of n taken, now or in the sleep.
WithToken(n) == IF call[Caller].token THEN World ELSE SemWaitIn(World, n)

AwaitsToken(n) == ~call[Caller].token /\ MustSleep(sems, n)

-----------------------------------------------------------------------------
(* create_process() with descriptors and kill_process() with kill_pipes()  *)

\* What create_process() does to the pipes after all its allocations.
RegisterFds(w, fd) ==
  LET a == IF fd.in > STDERR THEN PipeRegister(w, fd.in, "PIPE_READ_END") ELSE w
  IN IF fd.out > STDERR THEN PipeRegister(a, fd.out, "PIPE_WRITE_END") ELSE a

CreatePiped(fd) ==
  /\ SysCreate
  /\ LET q == Least(FreeSlots(Kernel))
     IN IF state'[q] = "READY"
        THEN /\ pipes' = RegisterFds(World, fd).p
             /\ file_descriptors' = [file_descriptors EXCEPT ![q] = fd]
        ELSE UNCHANGED <<pipes, file_descriptors>>
  /\ UNCHANGED <<sems, call>>

\* Mutant: the pipes of a process that is killed stay open.
KilledWorld_NoPipes(p) == [World EXCEPT !.k.state[p] = "ZOMBIE"]

KilledWorld(p) ==
  KillPipes([World EXCEPT !.k.state[p] = "ZOMBIE"], file_descriptors[p])

\* kill_process() of a process that is not the shell.
KillPiped(p) ==
  /\ ~InWait /\ ~InCall
  /\ p # SHELL_PID /\ IsPidValid(Kernel, p) /\ state[p] # "ZOMBIE"
  /\ \E w \in {KilledWorld(p)} :
       /\ WorldBecomes([w EXCEPT !.k = KillKernel(w.k, Family, p)])
       /\ FamilyBecomes(KillFamily(w.k, Family, p))
  /\ waiting' = [waiting EXCEPT ![p] = NoPid]
  /\ dangling' = [dangling EXCEPT ![p] = FALSE]
  /\ call' = [call EXCEPT ![p] = NoCall]
  /\ file_descriptors' = [file_descriptors EXCEPT ![p] = [in |-> STDIN, out |-> STDOUT]]

-----------------------------------------------------------------------------

PipesInUse == {i \in PipeIds : i > STDERR /\ pipes[i].is_in_use}

\* Nobody sleeps holding the lock of a pipe, so nobody ever sleeps on it.
LockIsFree == \A i \in PipesInUse : /\ sems[LockOf(pipes[i])].initialized
                                    /\ sems[LockOf(pipes[i])].value > 0
=============================================================================
