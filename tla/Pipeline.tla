------------------------------ MODULE Pipeline -------------------------------
(***************************************************************************)
(* The command line  A | B  of the shell, over the scheduler, the process  *)
(* calls, the semaphores and the pipes.                                    *)
(*                                                                         *)
(* A stands for the programs that print (ps, msg, loop, cat ...), B for    *)
(* those that read their input to its end (wc, cat, filter) and for those  *)
(* that do not: a program of the three that first runs when the last       *)
(* command was a background one exits at once.  What they print and read   *)
(* are numbers: those of a later command line are the greater ones.        *)
(***************************************************************************)
EXTENDS Pipe

CONSTANTS ROUNDS,    \* command lines that are typed
          MESSAGES,  \* at most how many times A calls write()
          LENGTH,    \* bytes of each of these calls
          MaxKills   \* bound: processes the user kills

ASSUME PipelineAssumption == ROUNDS \in Nat \ {0} /\ LENGTH \in Nat \ {0}

Shell == SHELL_PID
Rounds == 1 .. ROUNDS
Nobody == 0

VARIABLES pc,      \* what each process does next
          round,   \* the command line each process belongs to
          plan,    \* how the current command line was typed
          pid,     \* its pid_A and pid_B
          pipe_id, \* its pipe_ids[]
          held,    \* the ends of it that the shell has not closed
          left,    \* how many write() calls each process has still to make
          sent, got, eof,   \* history of every command line's pipe
          kills

progVars == <<pc, round, plan, pid, pipe_id, held, left, sent, got, eof, kills>>
pipelineVars == <<procVars, sems, pipeVars, progVars>>

Goto(p, l) == pc' = [pc EXCEPT ![p] = l]
At(l) == InUser /\ pc[Caller] = l
R == round[Caller]

KernelStays == UNCHANGED <<procVars, sems, pipes, file_descriptors>>
TableStays == UNCHANGED <<familyVars, waiting, dangling>>

-----------------------------------------------------------------------------
(* handle_pipe_command()                                                   *)

Plans == [foreground : BOOLEAN, messages : 0 .. MESSAGES, drains : BOOLEAN]

ShellCreatesPipe ==
  /\ At("prompt") /\ R < ROUNDS
  /\ \E r \in {PipeCreateAnonymous(World)}, how \in Plans :
       /\ WorldBecomes(r.w)
       /\ pipe_id' = r.id
       /\ plan' = how
       /\ pid' = [A |-> Nobody, B |-> Nobody]
       /\ held' = IF r.id < 0 THEN {} ELSE Modes
       /\ Goto(Shell, IF r.id < 0 THEN "prompt" ELSE "create_A")
  /\ round' = [round EXCEPT ![Shell] = @ + 1]
  /\ TableStays
  /\ UNCHANGED <<file_descriptors, call, left, sent, got, eof, kills>>

\* The new process, or the failure of create_process(), which goes unnoticed.
ShellCreates(here, next, fd, who, start) ==
  /\ At(here)
  /\ IF FreeSlots(Kernel) = {}
     THEN /\ UNCHANGED <<procVars, sems, pipeVars, pid, round, left>>
          /\ Goto(Shell, next)
     ELSE /\ CreatePiped(fd)
          /\ LET q == Least(FreeSlots(Kernel))
                 made == state'[q] = "READY"
             IN /\ pid' = [pid EXCEPT ![who] = IF made THEN q ELSE Nobody]
                /\ pc' = [pc EXCEPT ![Shell] = next,
                                   ![q] = IF made THEN start ELSE "gone"]
                /\ round' = [round EXCEPT ![q] = IF made THEN R ELSE 0]
                /\ left' = [left EXCEPT ![q] = IF made /\ who = "A"
                                              THEN plan.messages ELSE 0]
  /\ UNCHANGED <<plan, pipe_id, held, sent, got, eof, kills>>

ShellCreatesA ==
  ShellCreates("create_A", "create_B", [in |-> STDIN, out |-> pipe_id], "A", "write")

ShellCreatesB ==
  ShellCreates("create_B", "close_read", [in |-> pipe_id, out |-> STDOUT], "B",
               IF plan.drains THEN "read" ELSE "exit")

ShellCloses(here, next, mode) ==
  /\ At(here)
  /\ WorldBecomes(PipeClose(World, pipe_id, mode))
  /\ held' = held \ {mode}
  /\ Goto(Shell, next)
  /\ TableStays
  /\ UNCHANGED <<file_descriptors, call, round, plan, pid, pipe_id, left, sent, got,
                 eof, kills>>

ShellClosesRead == ShellCloses("close_read", "close_write", "PIPE_READ_END")
ShellClosesWrite ==
  ShellCloses("close_write", IF plan.foreground THEN "wait_A" ELSE "yield",
              "PIPE_WRITE_END")

\* process_key() yields after a background command.
ShellYields ==
  /\ At("yield")
  /\ SysYield
  /\ Goto(Shell, "prompt")
  /\ TableStays
  /\ UNCHANGED <<sems, pipeVars, round, plan, pid, pipe_id, held, left, sent, got, eof,
                 kills>>

\* When nothing more is typed the shell sleeps in read(), on sem_stdin.
ShellSleeps ==
  /\ At("prompt") /\ R = ROUNDS
  /\ KernelBecomes(BlockProcess(Kernel, Shell))
  /\ Goto(Shell, "asleep")
  /\ TableStays
  /\ UNCHANGED <<sems, pipeVars, round, plan, pid, pipe_id, held, left, sent, got, eof,
                 kills>>

\* wait() of a pid that is none of a process returns at once.
ShellWaits(here, next, who) ==
  /\ At(here)
  /\ \/ pid[who] # Nobody /\ SysWait(pid[who])
     \/ /\ pid[who] = Nobody \/ ~IsPidValid(Kernel, pid[who])
        /\ UNCHANGED procVars
  /\ Goto(Shell, next)
  /\ UNCHANGED <<sems, pipeVars, round, plan, pid, pipe_id, held, left, sent, got,
                 eof, kills>>

ShellWaitsA == ShellWaits("wait_A", "wait_B", "A")
ShellWaitsB == ShellWaits("wait_B", "prompt", "B")

Returns == WaitReturns /\ UNCHANGED <<sems, pipeVars, progVars>>

-----------------------------------------------------------------------------
(* A, and the rest of the pipe_write() that it is inside of.               *)

\* The bytes of its next write().
Message(p) ==
  LET first == (round[p] - 1) * MESSAGES * LENGTH + Len(sent[round[p]])
  IN [j \in 1 .. LENGTH |-> first + j]

WriterWrites ==
  /\ At("write") /\ left[Caller] > 0
  /\ StartsWrite(Caller, Message(Caller))
  /\ left' = [left EXCEPT ![Caller] = @ - 1]
  /\ KernelStays
  /\ UNCHANGED <<pc, round, plan, pid, pipe_id, held, sent, got, eof, kills>>

WriteSleeps ==
  /\ InCall /\ call[Caller].op = "write"
  /\ FallsAsleep(SpaceOf(pipes[call[Caller].id]))
  /\ TableStays /\ UNCHANGED <<file_descriptors, progVars>>

WriteGoesOn ==
  /\ InCall /\ call[Caller].op = "write"
  /\ LET c == call[Caller]
         n == SpaceOf(pipes[c.id])
     IN /\ ~AwaitsToken(n)
        /\ WorldBecomes(WriteByte(WithToken(n), c.id, Head(c.bytes)))
        /\ sent' = [sent EXCEPT ![R] = Append(@, Head(c.bytes))]
        /\ call' = [call EXCEPT ![Caller] =
                      IF Tail(c.bytes) = <<>> THEN NoCall
                      ELSE [c EXCEPT !.bytes = Tail(@), !.token = FALSE]]
  /\ TableStays
  /\ UNCHANGED <<file_descriptors, pc, round, plan, pid, pipe_id, held, left, got, eof,
                 kills>>

WriterEnds ==
  /\ At("write") /\ left[Caller] = 0
  /\ Goto(Caller, "exit")
  /\ KernelStays
  /\ UNCHANGED <<call, round, plan, pid, pipe_id, held, left, sent, got, eof, kills>>

-----------------------------------------------------------------------------
(* B, which reads one byte at a time until read() returns 0.               *)

ReaderReads ==
  /\ At("read")
  /\ StartsRead(Caller)
  /\ KernelStays
  /\ UNCHANGED progVars

ReadSleeps ==
  /\ InCall /\ call[Caller].op = "read"
  /\ FallsAsleep(ItemsOf(pipes[call[Caller].id]))
  /\ TableStays /\ UNCHANGED <<file_descriptors, progVars>>

ReadGoesOn ==
  /\ InCall /\ call[Caller].op = "read"
  /\ LET i == call[Caller].id
         n == ItemsOf(pipes[i])
     IN /\ ~AwaitsToken(n)
        /\ \E r \in {ReadByte(WithToken(n), i)} :
             /\ WorldBecomes(r.w)
             /\ got' = [got EXCEPT ![R] = @ \o r.bytes]
             /\ eof' = [eof EXCEPT ![R] = r.bytes = <<>>]
             /\ Goto(Caller, IF r.bytes = <<>> THEN "exit" ELSE "read")
        /\ call' = [call EXCEPT ![Caller] = NoCall]
  /\ TableStays
  /\ UNCHANGED <<file_descriptors, round, plan, pid, pipe_id, held, left, sent, kills>>

-----------------------------------------------------------------------------

\* What is left of a program when its process is gone.
Leaves(p) ==
  /\ Goto(p, "gone")
  /\ round' = [round EXCEPT ![p] = 0]
  /\ left' = [left EXCEPT ![p] = 0]
  /\ UNCHANGED <<plan, pid, pipe_id, held, sent, got, eof>>

ProgramExits ==
  /\ At("exit") /\ Caller # Shell
  /\ KillPiped(Caller)
  /\ Leaves(Caller)
  /\ UNCHANGED kills

\* The command kill, run by a process of its own, or Ctrl-C.
UserKills(p) ==
  /\ kills < MaxKills
  /\ round[p] > 0
  /\ KillPiped(p)
  /\ Leaves(p)
  /\ kills' = kills + 1

PipelineTick == /\ ~InWait /\ ~InCall /\ TimerTick
                /\ TableStays /\ UNCHANGED <<sems, pipeVars, progVars>>

UserStep ==
  \/ ShellCreatesPipe \/ ShellCreatesA \/ ShellCreatesB
  \/ ShellClosesRead \/ ShellClosesWrite \/ ShellWaitsA \/ ShellWaitsB \/ Returns
  \/ ShellYields \/ ShellSleeps
  \/ WriterWrites \/ WriteSleeps \/ WriteGoesOn \/ WriterEnds
  \/ ReaderReads \/ ReadSleeps \/ ReadGoesOn
  \/ ProgramExits

PipelineNext ==
  \/ UserStep
  \/ PipelineTick
  \/ \E p \in Slots \ {Shell} : UserKills(p)

\* The shell, about to type.
PipelineStart(start) ==
  /\ ProcInit /\ SemInit /\ PipeInit
  /\ call = [p \in Slots |-> NoCall]
  /\ pc = [p \in Slots |-> IF p = Shell THEN start ELSE "gone"]
  /\ round = [p \in Slots |-> 0]
  /\ plan = [foreground |-> FALSE, messages |-> 0, drains |-> FALSE]
  /\ pid = [A |-> Nobody, B |-> Nobody]
  /\ pipe_id = -1
  /\ held = {}
  /\ left = [p \in Slots |-> 0]
  /\ sent = [r \in Rounds |-> <<>>]
  /\ got = [r \in Rounds |-> <<>>]
  /\ eof = [r \in Rounds |-> FALSE]
  /\ kills = 0

PipelineInit == PipelineStart("prompt")

PipelineSpec == PipelineInit /\ [][PipelineNext]_pipelineVars

\* A process that is killed in its sleep stays in the queue of its semaphore.
\* The behaviours in which nobody is given a slot that is still in a queue.
Queued(p) == \E n \in SemNames : /\ sems[n].initialized
                                 /\ \E j \in DOMAIN sems[n].blocked : sems[n].blocked[j] = p
TakesQueuedSlot == \E p \in Slots : ~Live(p) /\ Live(p)' /\ Queued(p)
UnqueuedSpec == PipelineInit /\ [][PipelineNext /\ ~TakesQueuedSlot]_pipelineVars

-----------------------------------------------------------------------------

\* The holders of an end of pipe i: the live processes whose descriptor it is,
\* and the shell until it closes its own.
Holders(i, mode) ==
  {p \in Slots : /\ Live(p)
                 /\ i = IF mode = "PIPE_READ_END" THEN file_descriptors[p].in
                                                  ELSE file_descriptors[p].out}
    \cup IF mode \in held /\ i = pipe_id THEN {Shell} ELSE {}

\* The counts of an anonymous pipe are those of its holders, so it is freed with the last
\* of them, whatever the order in which they exit or are killed, and EOF is
\* signalled when nobody is left to write.
CountsAgree ==
  \A i \in PipesInUse : ~pipes[i].is_named =>
    LET r == Cardinality(Holders(i, "PIPE_READ_END"))
        w == Cardinality(Holders(i, "PIPE_WRITE_END"))
    IN /\ pipes[i].read_open_count = r
       /\ pipes[i].write_open_count = w
       /\ pipes[i].ref_count = r + w /\ r + w > 0
       /\ pipes[i].eof_signaled <=> w = 0

\* A sleeper in a call is woken up by what it waits for: nobody sleeps for a
\* byte that is there or for space that is there, or after EOF.
NoLostWakeup ==
  \A p \in Slots : call[p].token /\ state[p] = "BLOCKED" =>
    LET pipe == pipes[call[p].id]
    IN IF call[p].op = "read"
       THEN /\ ~pipe.eof_signaled
            /\ sent[round[p]] = got[round[p]]
       ELSE Len(sent[round[p]]) - Len(got[round[p]]) = PIPE_BUFFER_SIZE

\* A byte is written only when the ring has room for it, and what was read is what
\* was written first.
RingHolds == \A r \in Rounds :
  /\ Len(sent[r]) - Len(got[r]) <= PIPE_BUFFER_SIZE
  /\ \A j \in DOMAIN got[r] : got[r][j] = sent[r][j]

\* No anonymous pipe outlives the processes that use it, and none of its
\* semaphores does.
Idle == held = {} /\ \A p \in Slots : round[p] > 0 /\ p # Shell => ~Live(p)
NothingKept ==
  Idle => \A i \in PipeIds :
    LET anon == [name |-> AnonName(i)]
        used == {LockOf(anon), ItemsOf(anon), SpaceOf(anon)} \cap SemNames
    IN /\ i > STDERR => ~pipes[i].is_in_use \/ pipes[i].is_named
       /\ \A n \in used : ~sems[n].initialized

\* The pipe of every command line is a channel, but for the EOF that comes with
\* a ring that is exactly full.
Chan == INSTANCE Channel WITH
  Channels <- Rounds, Capacity <- PIPE_BUFFER_SIZE, FullLooksEmpty <- TRUE,
  writers <- [r \in Rounds |->
                Cardinality({p \in Slots : /\ Live(p) /\ round[p] = r
                                           /\ file_descriptors[p].out > STDERR})
                + IF round[Shell] = r /\ "PIPE_WRITE_END" \in held THEN 1 ELSE 0]
ImplementsChannel == Chan!Spec

\* pipe_read() returns 0 at the end of what was written: "Si no hay datos".
EOFMeansDrained == \A r \in Rounds : eof[r] => got[r] = sent[r]

\* The writer of a pipe that nobody reads any more sleeps when it is full.
Abandoned(p) == /\ state[p] = "BLOCKED" /\ call[p].op = "write"
                /\ pipes[call[p].id].read_open_count = 0

\* A command line comes to its end, but for a writer that nobody reads.
PipelinesEnd ==
  <>(\/ pc[Shell] = "asleep" /\ Idle
     \/ \E p \in Slots : Abandoned(p))
=============================================================================
