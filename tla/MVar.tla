-------------------------------- MODULE MVar ---------------------------------
(***************************************************************************)
(* The command mvar, beside the pipelines: its process opens two semaphores*)
(* and a named pipe, creates writers and readers, and exits.  They share   *)
(* the pipe as a variable that holds one letter, until kill_mvar() in      *)
(* proc.c ends them: the last writer that is killed takes the readers with *)
(* it, and the last reader the writers.                                    *)
(*                                                                         *)
(* kill_mvar() kills by calling kill_process() again, which yields at its  *)
(* end: the command kill may lose the CPU between two of these calls, and  *)
(* goes on with the loop when it has it back (the label "killing").        *)
(*                                                                         *)
(* The shell types either command lines of the module Pipeline or mvar.    *)
(* The delays of the loops are the ticks that may come before any step.    *)
(* Memory suffices for the processes.  A letter is the pid of its writer.  *)
(***************************************************************************)
EXTENDS Pipeline

CONSTANT MaxCrew  \* bound: writers and readers of the command line

\* The arguments of mvar.
Crews == {c \in [writers : 1 .. MaxCrew, readers : 1 .. MaxCrew] :
            c.writers + c.readers <= MaxCrew}

VARIABLES name,    \* PCB.name
          crew,    \* what mvar has still to create
          victim,  \* argv[0] of the command kill
          last     \* the letter that was printed last

mvarVars == <<name, crew, victim, last>>
allVars == <<pipelineVars, mvarVars>>

Empty == "MVAR_EMPTY"
Full  == "MVAR_FULL"
Names == {"mvar_writer", "mvar_reader"}

Others(n) == CHOOSE m \in Names : m # n

LiveNamed(k, n) ==
  {p \in Slots : name[p] = n /\ k.state[p] \notin {"INVALID", "ZOMBIE"}}

InKill == At("killing")

Standard == [in |-> STDIN, out |-> STDOUT]

\* A process of that name, that begins at start.
Creates(n, fd, start, next) ==
  /\ FreeSlots(Kernel) # {}
  /\ LET q == Least(FreeSlots(Kernel))
     IN /\ CreatePiped(fd)
        /\ state'[q] = "READY"
        /\ pc' = [pc EXCEPT ![Caller] = next, ![q] = start]
        /\ name' = [name EXCEPT ![q] = n]
        /\ pid' = IF Caller = Shell THEN [pid EXCEPT !.A = q] ELSE pid

-----------------------------------------------------------------------------
(* mvar_dummy()                                                            *)

ShellTypesMvar ==
  /\ At("type_mvar")
  /\ Creates("mvar", Standard, "open", "wait_mvar")
  /\ crew' \in Crews
  /\ UNCHANGED <<round, plan, pipe_id, held, left, sent, got, eof, kills, victim, last>>

MvarOpened(w, next) ==
  /\ WorldBecomes(w)
  /\ Goto(Caller, next)
  /\ TableStays
  /\ UNCHANGED <<file_descriptors, call, round, plan, pid, held, left, sent, got, eof,
                 kills, mvarVars>>

\* Mutant: one place for every writer.
MvarOpensEmpty_PerWriter ==
  At("open") /\ MvarOpened(SemOpenIn(World, Empty, crew.writers), "open_full")
             /\ UNCHANGED pipe_id

\* Three system calls, of which only the result of the last is looked at.
MvarOpensEmpty == At("open") /\ MvarOpened(SemOpenIn(World, Empty, 1), "open_full")
                             /\ UNCHANGED pipe_id

MvarOpensFull == At("open_full") /\ MvarOpened(SemOpenIn(World, Full, 0), "open_pipe")
                                 /\ UNCHANGED pipe_id

MvarOpensPipe ==
  /\ At("open_pipe")
  /\ \E r \in {PipeCreateNamed(World, "MVAR_PIPE")} :
       /\ MvarOpened(r.w, IF r.id < 0 THEN "exit" ELSE "create")
       /\ pipe_id' = r.id

MvarCreatesWriter ==
  /\ At("create") /\ crew.writers > 0
  /\ Creates("mvar_writer", [in |-> STDIN, out |-> pipe_id], "wait_empty", "create")
  /\ crew' = [crew EXCEPT !.writers = @ - 1]
  /\ UNCHANGED <<round, plan, pipe_id, held, left, sent, got, eof, kills, victim, last>>

MvarCreatesReader ==
  /\ At("create") /\ crew.writers = 0 /\ crew.readers > 0
  /\ Creates("mvar_reader", [in |-> pipe_id, out |-> STDOUT], "wait_full",
             IF crew.readers = 1 THEN "exit" ELSE "create")
  /\ crew' = [crew EXCEPT !.readers = @ - 1]
  /\ UNCHANGED <<round, plan, pipe_id, held, left, sent, got, eof, kills, victim, last>>

-----------------------------------------------------------------------------
(* writer_dummy() and reader_dummy().  The pipe has room for the byte and  *)
(* the byte for the reader, or the step would not be one of the module     *)
(* Cell: nobody sleeps inside of the pipe.                                 *)

Stays == /\ TableStays
         /\ UNCHANGED <<file_descriptors, call, round, plan, pid, pipe_id, held, left,
                        sent, got, eof, kills, name, crew, victim>>

WaitsFor(here, n, next) ==
  /\ At(here)
  /\ WorldBecomes(SemWaitIn(World, n))
  /\ Goto(Caller, next)
  /\ Stays /\ UNCHANGED last

Posts(here, n, next) ==
  /\ At(here)
  /\ WorldBecomes(SemPostIn(World, n))
  /\ Goto(Caller, next)
  /\ Stays /\ UNCHANGED last

WriterWaits == WaitsFor("wait_empty", Empty, "put")

WriterPuts ==
  /\ At("put")
  /\ LET w == SemWaitIn(World, SpaceOf(pipes[pipe_id]))
     IN WorldBecomes(WriteByte(w, pipe_id, Caller))
  /\ Goto(Caller, "post_full")
  /\ Stays /\ UNCHANGED last

WriterPosts == Posts("post_full", Full, "wait_empty")

\* Mutant: the reader goes on without waiting for a letter.
ReaderWaits_Not == Posts("wait_full", Full, "take")

ReaderWaits == WaitsFor("wait_full", Full, "take")

ReaderTakes ==
  /\ At("take")
  /\ LET w == SemWaitIn(World, ItemsOf(pipes[pipe_id]))
     IN \E r \in {ReadByte(w, pipe_id)} :
          /\ WorldBecomes(r.w)
          /\ last' = IF r.bytes = <<>> THEN last ELSE Head(r.bytes)
          /\ Goto(Caller, IF r.bytes = <<>> THEN "exit" ELSE "post_empty")
  /\ Stays

\* Mutant: the reader gives back the letter, not the place.
ReaderPosts_Full == Posts("post_empty", Full, "wait_full")

ReaderPosts == Posts("post_empty", Empty, "wait_full")

-----------------------------------------------------------------------------
(* The command kill, with kill_mvar().                                     *)

ShellWaitsMvar == ShellWaits("wait_mvar", "type_kill", "A") /\ UNCHANGED mvarVars

ShellTypesKill ==
  /\ At("type_kill") /\ kills < MaxKills
  /\ \E n \in Names, p \in Slots \ {Shell} :
       p \in LiveNamed(Kernel, n) /\ victim' = p
  /\ Creates("kill", Standard, "kill", "wait_mvar")
  /\ kills' = kills + 1
  /\ UNCHANGED <<round, plan, pipe_id, held, left, sent, got, eof, crew, last>>

ShellTypesNoMore ==
  /\ At("type_kill")
  /\ KernelBecomes(BlockProcess(Kernel, Shell))
  /\ Goto(Shell, "asleep")
  /\ TableStays
  /\ UNCHANGED <<sems, pipeVars, round, plan, pid, pipe_id, held, left, sent, got, eof,
                 kills, mvarVars>>

\* kill_process() after kill_mvar().
Ends(w, p) ==
  /\ WorldBecomes([w EXCEPT !.k = KillKernel(w.k, Family, p)])
  /\ FamilyBecomes(KillFamily(w.k, Family, p))

KillStays == UNCHANGED <<waiting, dangling, file_descriptors, call, round, plan, pid,
                         pipe_id, held, left, sent, got, eof, kills, mvarVars>>

\* The world with p a ZOMBIE, and its pipes closed when it is the last of its name.
Dead(p) ==
  LET z == [World EXCEPT !.k.state[p] = "ZOMBIE"]
  IN IF LiveNamed(z.k, name[p]) # {} THEN z ELSE KillPipes(z, file_descriptors[p])

\* Mutant: the last writer takes nobody with it.
KillEnds_Alone ==
  /\ At("kill")
  /\ Ends(Dead(victim), victim)
  /\ Goto(Caller, "exit")
  /\ KillStays

\* A process that is not the last of its name ends alone.
KillEnds ==
  /\ At("kill")
  /\ LiveNamed(Kernel, name[victim]) # {victim}
  /\ Ends(Dead(victim), victim)
  /\ Goto(Caller, "exit")
  /\ KillStays

KillBegins ==
  /\ At("kill")
  /\ LiveNamed(Kernel, name[victim]) = {victim}
  /\ WorldBecomes(Dead(victim))
  /\ UNCHANGED familyVars
  /\ Goto(Caller, "killing")
  /\ KillStays

\* kill_all_of_type(): the next of the other name, and a yield.
KillGoesOn ==
  /\ InKill
  /\ LET rest == LiveNamed(Kernel, Others(name[victim]))
     IN rest # {} /\ Ends(Dead(Least(rest)), Least(rest))
  /\ UNCHANGED pc
  /\ KillStays

KillFinishes ==
  /\ InKill
  /\ LiveNamed(Kernel, Others(name[victim])) = {}
  /\ Ends(World, victim)
  /\ Goto(Caller, "exit")
  /\ KillStays

-----------------------------------------------------------------------------

MvarStep ==
  \/ ShellTypesMvar \/ MvarOpensEmpty \/ MvarOpensFull \/ MvarOpensPipe
  \/ MvarCreatesWriter \/ MvarCreatesReader
  \/ WriterWaits \/ WriterPuts \/ WriterPosts
  \/ ReaderWaits \/ ReaderTakes \/ ReaderPosts
  \/ ShellWaitsMvar \/ ShellTypesKill \/ ShellTypesNoMore
  \/ KillEnds \/ KillBegins \/ KillGoesOn \/ KillFinishes

CommandNext ==
  \/ MvarStep
  \/ ~InKill /\ PipelineNext /\ UNCHANGED mvarVars

CommandInit ==
  /\ \E start \in {"prompt", "type_mvar"} : PipelineStart(start)
  /\ name = [p \in Slots |-> ""]
  /\ crew = [writers |-> 0, readers |-> 0]
  /\ victim = Nobody
  /\ last = Nobody

CommandSpec == CommandInit /\ [][CommandNext]_allVars

Runs(p) == UserRuns /\ Caller = p

\* What every step of a process changes, and no tick.
Progress == <<pc, call, waiting, active_processes>>

\* When a tick is possible and changes something.
TickDue == ~InKill /\ ~InWait /\ ~InCall /\ Scheduling(Kernel) # Kernel

\* The timer goes on (weak fairness of PipelineTick: TickDue and the second action
\* are what ENABLED and the tick come to, and quicker to evaluate), and a process
\* that is given the CPU again and again makes a step again and again: a tick is
\* long enough for one.
FairCommandSpec ==
  /\ CommandSpec
  /\ \A p \in Slots \ {IDLE_PID} : <>[]~Runs(p) \/ []<><<Runs(p)>>_Progress
  /\ []<>~TickDue \/ []<><<UNCHANGED Progress>>_Kernel

-----------------------------------------------------------------------------

\* The bytes of the named pipe that nobody has read.
Unread ==
  IF NamedPipes(World, "MVAR_PIPE") = {} THEN <<>>
  ELSE LET pipe == pipes[Least(NamedPipes(World, "MVAR_PIPE"))]
       IN [j \in 1 .. (pipe.write_index + PIPE_BUFFER_SIZE - pipe.read_index)
                        % PIPE_BUFFER_SIZE |->
             pipe.buffer[(pipe.read_index + j - 1) % PIPE_BUFFER_SIZE]]

\* The pipe of mvar behind its two semaphores holds one letter at most, and a
\* letter is printed once, whoever is killed wherever it is.
TheCell == INSTANCE Cell WITH Values <- Slots \ {IDLE_PID}, cell <- Unread
ImplementsCell == TheCell!Spec

\* When no command is at work, there are writers if and only if there are
\* readers: kill_mvar() has reached them all, the yields in its loop
\* notwithstanding.
GroupsEndTogether ==
  (\A p \in Slots : name[p] \in {"mvar", "kill"} => ~Live(p)) =>
    (LiveNamed(Kernel, "mvar_writer") = {}) <=> (LiveNamed(Kernel, "mvar_reader") = {})

\* Unless one of them is killed, letters come and go for ever.
LettersComeAndGo ==
  pc[Shell] = "type_mvar" =>
    <>(kills > 0) \/ ([]<>(Unread = <<>>) /\ []<>(Unread # <<>>))
=============================================================================
