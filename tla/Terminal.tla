------------------------------- MODULE Terminal -------------------------------
(***************************************************************************)
(* The keyboard (Kernel/keyboard.c), the reading of standard input         *)
(* (read_chars() of Kernel/syscall_handler.c) and those who read: the      *)
(* shell and the commands it runs, over the processes and sem_stdin.       *)
(*                                                                         *)
(* A key is one of the classes insert_key() tells apart.  The ring of      *)
(* characters holds their numbers, in the order typed: typed[n] says what  *)
(* the n-th is.  The scancode ring next to it has no reader but games of   *)
(* the first version and is left out.                                      *)
(*                                                                         *)
(* What a command line says is chosen when it is run.  Programs: "cat"     *)
(* reads until EOF unless it was started in the background (wc and filter  *)
(* do the same), "loop" never ends nor reads, "msg" prints and exits;      *)
(* "block" and "unblock" do so to the process they are told of.            *)
(***************************************************************************)
EXTENDS Process, Semaphore

CONSTANTS KEY_BUF_SIZE,  \* entries of ascii_buf[]
          MaxKeys,       \* bound: keys pressed and released, an order being one more
          MaxOrders      \* bound: commands block and unblock

ASSUME TerminalAssumption == /\ KEY_BUF_SIZE \in Nat \ {0}
                             /\ MaxKeys \in Nat /\ MaxOrders \in Nat

VARIABLES ascii_buf, ascii_insert_index, ascii_read_index, ascii_to_read,
          control,         \* the left control key is held
          foreground_pid,  \* of the kernel: whom Ctrl-C kills
          foreground,      \* of the shell, shared with the programs
          reading,         \* what a process in read() has: see Reading
          pc,              \* what each process does next
          child,           \* the pid create_process() gave the shell
          typed, got,      \* history: characters typed, numbers of those read
          keys,            \* how many keys so far
          overrun,         \* history: a character came with the ring full
          stale,           \* history: places in the queue of sem_stdin whose
                           \* process has been killed or unblocked
          held_back,       \* history: the processes the user has blocked
          orders           \* how many commands block and unblock

ringVars == <<ascii_buf, ascii_insert_index, ascii_read_index, ascii_to_read>>
userVars == <<foreground_pid, foreground, reading, pc, child>>
orderVars == <<held_back, orders>>
historyVars == <<typed, got, keys, overrun, stale, orderVars>>
termVars == <<procVars, sems, ringVars, control, userVars, historyVars>>

Stdin == "sem_stdin"
Shell == SHELL_PID
\* Where a program begins, and a command that is told of a process.
Starts == {"start_cat", "start_loop", "start_msg"}
Orders == {"start_block", "start_unblock"}

Goto(p, l) == pc' = [pc EXCEPT ![p] = l]

\* "no", in read(), or in read() and with a token of sem_stdin.
Reading == {"no", "yes", "token"}
InRead == CurrentRuns(Kernel) /\ reading[Caller] # "no"

\* Interrupts are off in a call, which goes on when its process has the CPU.
InUser == UserRuns /\ ~InWait /\ ~InRead
Interruptible == ~InWait /\ ~InRead
At(l) == InUser /\ pc[Caller] = l

TableStays == UNCHANGED <<familyVars, waiting, dangling>>

-----------------------------------------------------------------------------
(* insert_key()                                                            *)

Unread == Len(typed) - Len(got)

PutChar(n) ==
  /\ ascii_buf' = [ascii_buf EXCEPT ![ascii_insert_index] = n]
  /\ ascii_insert_index' = (ascii_insert_index + 1) % KEY_BUF_SIZE
  /\ ascii_to_read' = TRUE
  /\ UNCHANGED ascii_read_index

\* Mutant: sem_stdin is told of a key only when nothing was left to read.
KeyPosts_Once == IF ascii_to_read THEN UNCHANGED <<procVars, sems>>
                 ELSE /\ sems' = SemPostTable(sems, Stdin)
                      /\ KernelBecomes(SemPostKernel(Kernel, sems, Stdin))
                      /\ TableStays

\* sem_post("sem_stdin"), for every key but Ctrl-C.
KeyPosts == /\ sems' = SemPostTable(sems, Stdin)
            /\ KernelBecomes(SemPostKernel(Kernel, sems, Stdin))
            /\ TableStays

Key == Interruptible /\ keys + orders < MaxKeys /\ keys' = keys + 1

\* Ctrl-D is the character 4, whatever else is held.
Types(c) == /\ PutChar(Len(typed) + 1)
            /\ typed' = Append(typed, c)
            /\ overrun' = (overrun \/ Unread >= KEY_BUF_SIZE)

KeyChar(c) ==
  /\ Key
  /\ control = (c = "eof")
  /\ Types(c)
  /\ KeyPosts
  /\ UNCHANGED <<control, userVars, got, stale, orderVars>>

\* Control pressed or released, and every other key without a character: the
\* release of a key, Shift and Caps Lock, a letter with control held.
KeyOther(held) ==
  /\ Key
  /\ control' = held
  /\ KeyPosts
  /\ UNCHANGED <<ringVars, userVars, typed, got, overrun, stale, orderVars>>

\* What is left of a program when its process has died.
Dies(p) ==
  /\ reading' = [reading EXCEPT ![p] = "no"]
  /\ stale' = stale + (IF reading[p] # "no" THEN 1 ELSE 0)
  /\ held_back' = held_back \ {p}
  /\ Goto(p, "dead")

\* Ctrl-C leaves the buffers and sem_stdin alone.
KeyCtrlC ==
  /\ Key
  /\ control
  /\ IF foreground_pid # Shell /\ IsPidValid(Kernel, foreground_pid)
        /\ state[foreground_pid] # "ZOMBIE"
     THEN CtrlC(foreground_pid) /\ Dies(foreground_pid)
     ELSE UNCHANGED <<procVars, reading, pc, stale, held_back>>
  /\ UNCHANGED <<sems, ringVars, control, foreground_pid, foreground, child, typed, got,
                 overrun, orders>>

-----------------------------------------------------------------------------
(* read_chars() of one character, by the process on the CPU.               *)

\* read_key(): the number of a character, 0 for none.
ReadKey == IF ascii_to_read THEN ascii_buf[ascii_read_index] ELSE 0

\* Mutant: the ring is not seen to be empty.
KeyIsRead_NeverEmpty ==
  IF ~ascii_to_read THEN UNCHANGED ringVars
  ELSE /\ ascii_read_index' = (ascii_read_index + 1) % KEY_BUF_SIZE
       /\ UNCHANGED <<ascii_buf, ascii_insert_index, ascii_to_read>>

KeyIsRead ==
  IF ~ascii_to_read THEN UNCHANGED ringVars
  ELSE /\ ascii_read_index' = (ascii_read_index + 1) % KEY_BUF_SIZE
       /\ ascii_to_read' = (ascii_read_index' # ascii_insert_index)
       /\ UNCHANGED <<ascii_buf, ascii_insert_index>>

StartsReading(l) ==
  /\ At(l)
  /\ reading' = [reading EXCEPT ![Caller] = "yes"]
  /\ UNCHANGED <<procVars, sems, ringVars, control, foreground_pid, foreground, pc,
                 child, historyVars>>

\* Bound: blocked_processes[] is not filled beyond its end.
ReadSleeps ==
  /\ InRead /\ reading[Caller] = "yes" /\ MustSleep(sems, Stdin)
  /\ Len(sems[Stdin].blocked) < PROCESSES_BLOCKED
  /\ sems' = SemWaitTable(Kernel, sems, Stdin)
  /\ KernelBecomes(SemWaitKernel(Kernel, sems, Stdin))
  /\ reading' = [reading EXCEPT ![Caller] = "token"]
  /\ TableStays
  /\ UNCHANGED <<ringVars, control, foreground_pid, foreground, pc, child, historyVars>>

\* What the reader does with the character c it has asked for.
After(p, c) == CASE p = Shell /\ c = "enter" -> "command"
                 [] p = Shell /\ c = "eof"   -> "exit"
                 [] p # Shell /\ c = "eof"   -> "exit"
                 [] OTHER                    -> pc[p]

\* A token without a character is thrown away and the loop goes on.
ReadTurns ==
  /\ InRead
  /\ reading[Caller] = "token" \/ ~MustSleep(sems, Stdin)
  /\ sems' = IF reading[Caller] = "token" THEN sems
             ELSE SemWaitTable(Kernel, sems, Stdin)
  /\ KeyIsRead
  /\ IF ReadKey = 0
     THEN reading' = [reading EXCEPT ![Caller] = "yes"] /\ UNCHANGED <<pc, got>>
     ELSE /\ reading' = [reading EXCEPT ![Caller] = "no"]
          /\ got' = Append(got, ReadKey)
          /\ Goto(Caller, After(Caller, typed[ReadKey]))
  /\ UNCHANGED <<procVars, control, foreground_pid, foreground, child, typed, keys,
                 overrun, stale, orderVars>>

-----------------------------------------------------------------------------
(* process_command()                                                       *)

ShellReads == StartsReading("prompt")
CatReads == StartsReading("cat")

\* The flag foreground is set, then the process is created; an empty line leads
\* back to the prompt, past a _yield() when it has an "&", and so does an unknown
\* command, which counts as one in the foreground.
ShellParses ==
  /\ At("command")
  /\ \E fg \in BOOLEAN, creates \in BOOLEAN :
       /\ foreground' = fg
       /\ Goto(Shell, IF creates THEN "create" ELSE IF fg THEN "prompt" ELSE "yield")
  /\ UNCHANGED <<procVars, sems, ringVars, control, foreground_pid, reading, child,
                 historyVars>>

ShellCreates ==
  /\ At("create")
  /\ SysCreate
  /\ LET q == Least(FreeSlots(Kernel))
     IN IF state'[q] = "READY"
        THEN /\ \E start \in Starts \cup Orders :
                  /\ start \in Orders => orders < MaxOrders /\ keys + orders < MaxKeys
                  /\ pc' = [pc EXCEPT ![Shell] = IF foreground THEN "update" ELSE "yield",
                                     ![q] = start]
                  /\ orders' = IF start \in Orders THEN orders + 1 ELSE orders
             /\ child' = q
        ELSE /\ pc' = [pc EXCEPT ![Shell] = IF foreground THEN "prompt" ELSE "yield"]
             /\ UNCHANGED <<child, orders>>
  /\ UNCHANGED <<sems, ringVars, control, foreground_pid, foreground, reading,
                 typed, got, keys, overrun, stale, held_back>>

\* create_process() finds the table full.
ShellCannotCreate ==
  /\ At("create") /\ FreeSlots(Kernel) = {}
  /\ Goto(Shell, IF foreground THEN "prompt" ELSE "yield")
  /\ UNCHANGED <<procVars, sems, ringVars, control, foreground_pid, foreground, reading,
                 child, historyVars>>

\* _update_foreground(): nobody sets it back when the child is gone.
ShellUpdates ==
  /\ At("update")
  /\ foreground_pid' = child
  /\ Goto(Shell, "wait")
  /\ UNCHANGED <<procVars, sems, ringVars, control, foreground, reading, child,
                 historyVars>>

ShellWaits ==
  /\ At("wait")
  /\ SysWait(child)
  /\ Goto(Shell, "prompt")
  /\ UNCHANGED <<sems, ringVars, control, foreground_pid, foreground, reading, child,
                 historyVars>>

ShellYields ==
  /\ At("yield")
  /\ SysYield
  /\ Goto(Shell, "prompt")
  /\ TableStays
  /\ UNCHANGED <<sems, ringVars, control, foreground_pid, foreground, reading, child,
                 historyVars>>

\* A shell that has been unblocked comes back while its child lives, and takes
\* its slot away.
WaitEnds ==
  /\ WaitReturns
  /\ IF Live(waiting[Shell]) THEN Dies(waiting[Shell])
     ELSE UNCHANGED <<reading, pc, stale, held_back>>
  /\ UNCHANGED <<sems, ringVars, control, foreground_pid, foreground, child, typed, got,
                 keys, overrun, orders>>

-----------------------------------------------------------------------------
(* The programs.                                                           *)

\* cat looks at the flag when it first runs.
CatStarts ==
  /\ At("start_cat")
  /\ Goto(Caller, IF foreground THEN "cat" ELSE "exit")
  /\ UNCHANGED <<procVars, sems, ringVars, control, foreground_pid, foreground, reading,
                 child, historyVars>>

LoopStarts ==
  /\ At("start_loop")
  /\ Goto(Caller, "loop")
  /\ UNCHANGED <<procVars, sems, ringVars, control, foreground_pid, foreground, reading,
                 child, historyVars>>

\* A pid that names no process is answered with a message, and so is its own.
\* Bound: the user blocks a process once at a time.
Blocks ==
  /\ At("start_block")
  /\ \E p \in Targets \ held_back :
       IF p = Caller THEN UNCHANGED <<schedVars, held_back>>
       ELSE /\ SysBlock(p)
            /\ held_back' = IF Live(p) THEN held_back \cup {p} ELSE held_back
  /\ Goto(Caller, "exit")
  /\ TableStays
  /\ UNCHANGED <<sems, ringVars, control, foreground_pid, foreground, reading, child,
                 typed, got, keys, overrun, stale, orders>>

\* unblock_process() does not ask who has blocked it.
Unblocks ==
  /\ At("start_unblock")
  /\ \E p \in Targets :
       /\ SysUnblock(p)
       /\ held_back' = held_back \ {p}
       /\ stale' = stale + IF /\ state[p] = "BLOCKED" /\ state'[p] = "READY"
                             /\ \E i \in DOMAIN sems[Stdin].blocked :
                                  sems[Stdin].blocked[i] = p
                          THEN 1 ELSE 0
  /\ Goto(Caller, "exit")
  /\ TableStays
  /\ UNCHANGED <<sems, ringVars, control, foreground_pid, foreground, reading, child,
                 typed, got, keys, overrun, orders>>

\* The shell exits like a program, and takes all others along.
ProgramExits ==
  /\ At("exit") \/ At("start_msg")
  /\ SysExit
  /\ reading' = [p \in Slots |-> IF state'[p] = "ZOMBIE" THEN "no" ELSE reading[p]]
  /\ pc' = [p \in Slots |-> IF state'[p] = "ZOMBIE" THEN "dead" ELSE pc[p]]
  /\ UNCHANGED <<sems, ringVars, control, foreground_pid, foreground, child, historyVars>>

TermTick == /\ Interruptible /\ TimerTick /\ TableStays
            /\ UNCHANGED <<sems, ringVars, control, userVars, historyVars>>

UserStep ==
  \/ ShellReads \/ CatReads \/ ReadSleeps \/ ReadTurns
  \/ ShellParses \/ ShellCreates \/ ShellCannotCreate \/ ShellUpdates
  \/ ShellWaits \/ ShellYields \/ WaitEnds
  \/ CatStarts \/ LoopStarts \/ ProgramExits
  \/ Blocks \/ Unblocks

TermNext ==
  \/ UserStep
  \/ TermTick
  \/ \E c \in {"char", "enter", "eof"} : KeyChar(c)
  \/ \E held \in BOOLEAN : KeyOther(held)
  \/ KeyCtrlC

\* init_shell() has run.
TermInit ==
  /\ ProcInit
  /\ sems = [n \in {Stdin} |-> [NoSem EXCEPT !.initialized = TRUE, !.openings = 1]]
  /\ ascii_buf = [i \in 0 .. KEY_BUF_SIZE - 1 |-> 0]
  /\ ascii_insert_index = 0 /\ ascii_read_index = 0 /\ ascii_to_read = FALSE
  /\ control = FALSE
  /\ foreground_pid = Shell /\ foreground = TRUE
  /\ reading = [p \in Slots |-> "no"]
  /\ pc = [p \in Slots |-> IF p = Shell THEN "prompt" ELSE "dead"]
  /\ child = NoPid
  /\ typed = <<>> /\ got = <<>> /\ keys = 0 /\ overrun = FALSE
  /\ stale = 0 /\ held_back = {} /\ orders = 0

TermSpec == TermInit /\ [][TermNext]_termVars

\* Weak fairness of UserStep and of TermTick: the program on the CPU makes steps
\* (a loop spins, which is none) and the timer goes on; nobody has to press a
\* key.  Runs, Moves, TickDue and Ticks are what ENABLED and the two actions come
\* to, and quicker to evaluate.
Runs == UserRuns /\ pc[Caller] # "loop"
Moves == /\ keys' = keys
         /\ <<sems, userVars, waiting>>' # <<sems, userVars, waiting>>
TickDue == Interruptible /\ Scheduling(Kernel) # Kernel
Ticks == UNCHANGED <<sems, userVars, waiting, keys>>
FairTermSpec == /\ TermSpec
                /\ []<>~Runs \/ []<><<Moves>>_termVars
                /\ []<>~TickDue \/ []<><<Ticks>>_termVars

-----------------------------------------------------------------------------

\* As long as the ring has never been full when a character came, the readers
\* get what was typed, once and in order, whoever of them reads: a character is
\* never read twice nor lost to a token that had none.
KeysInOrder == ~overrun => got = [i \in 1 .. Len(got) |-> i]

\* Nobody sleeps in read() with characters waiting, but for one character that
\* every process killed or unblocked inside of read() may have cost: it stays in
\* the queue of sem_stdin and takes the token of a key with it.
NoKeyStuck ==
  LET readers == {p \in Slots : reading[p] # "no"}
  IN ~overrun /\ readers # {} /\ (\A p \in readers : state[p] = "BLOCKED" /\ p \notin held_back)
       => Unread <= stale

\* When the program in the foreground has ended, by itself or by Ctrl-C at any
\* moment, the shell comes back from wait() to its prompt, unless the user has
\* blocked it.
PromptReturns ==
  \A q \in Slots : (waiting[Shell] = q /\ state[q] = "ZOMBIE") ~>
                     \/ waiting[Shell] = NoPid /\ pc[Shell] # "wait"
                     \/ Shell \in held_back

\* "Para interrumpir la ejecucion de un proceso en foreground": the process that
\* Ctrl-C kills is the one the shell waits for, or is about to.
CtrlCHitsForeground ==
  [][\A p \in Slots : KeyCtrlC /\ state[p] # "ZOMBIE" /\ state'[p] = "ZOMBIE" =>
       waiting[Shell] = p \/ (pc[Shell] = "wait" /\ child = p)]_termVars
=============================================================================
