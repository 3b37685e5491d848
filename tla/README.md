# A verification of the TP2-SO kernel

TLA+ models, TLC runs and TLAPS proofs of the small 64-bit teaching kernel in
`src/Kernel`, together with the programs in `src/Userland` that exercise it.
File and line references are to the repository; `K/` stands for `src/Kernel/`
and `U/` for `src/Userland/userCodeModule/`.

1. [The system](#1-the-system)
2. [The modules](#2-the-modules)
3. [The runs](#3-the-runs)
4. [The proofs](#4-the-proofs)
5. [Known disagreements](#5-known-disagreements)
6. [Only model-checked](#6-only-model-checked)
7. [Not modelled](#7-not-modelled)

## 1. The system

### How the kernel runs

All entries of the IDT are interrupt gates, so a system call (`int 80h`), the
timer and the keyboard handlers run with interrupts off.  Two things follow,
and every model here rests on them:

* the CPU changes hands only inside `scheduling()`, which the timer interrupt
  calls, and which `_yield()` (`int 20h`) forces from `yield()`,
  `block_process()` and `last_wish()`.  A system call is atomic up to its
  context switch;
* what comes after a `block_process()` in the same C function (the second half
  of `wait()`, the loops of `pipes.c`, `read_chars()`) runs when the process is
  dispatched again, with interrupts still off, before any tick or key.

The spinlock of a semaphore is therefore never contended, and interleaving
happens between system calls, at the context switches inside them, and at
every instruction of a user program.

### Components

| component | state | operations | modules |
|---|---|---|---|
| scheduler (`K/scheduler.c`, half of `K/proc.c`) | `state`, `blocks_amount`, `time_used`, `my_max_time`, `yielding` of each PCB, `current_index` | tick, yield, block, unblock, nice | `Scheduler`, `SchedulerProofs` |
| process table (`K/proc.c`) | `parent_pid`, `childs`, `child_amount`, `dad_blocked`, `file_descriptors`, `active_processes` | create, exit, kill, Ctrl-C, wait, the kills of a group | `Process`, `ShellProofs`, `Lifecycle`; with pipes `Pipe`, with groups `MVar`, their memory `Memory` |
| semaphores (`K/sem.c`) | value, openings and queue of each name | open, wait, post, close | `Semaphore`, `SemaphoreProofs`, `SemClients`, `CountingSemaphore` |
| pipes (`K/pipes.c`) | ring, indexes, open counts, references, EOF flag, three semaphores each | create, register, open by name, read, write, close, the death of a holder | `Pipe`, `Pipeline`, `PipeProofs`, `Channel` |
| mvar (`U/userlib_so.c`, `kill_mvar()` in `K/proc.c`) | two semaphores, a named pipe, counts of writers and readers | the command, writers, readers, kills | `MVar`, `Cell` |
| keyboard and foreground (`K/keyboard.c`, `read_chars()`, `U/shell.c`) | ring of characters, `sem_stdin`, `foreground_pid` | key interrupt, read, Ctrl-C, Ctrl-D | `Terminal`, `TerminalProofs` |
| bitmap memory manager (`K/memory_management/memory_manager.c`) | `block_array`, `first_free_index`, `free_blocks` | alloc, free | `MemoryManager`, `MemoryManagerProofs`, `Memory`, `Heap` |
| buddy memory manager (`buddy_memory_manager.c`, `lib_buddy.c`, `lib_bit.c`) | lists of free blocks, `alloc` and `split` bits per size | create, alloc, free | `Buddy`, `Memory`, `Heap` |
| test programs (`U/tests/`) | their local variables | `test-sync`, `test-prio`, `test-pcs`, `test-mm` | `SyncTest`, `TestPrograms`, `TestProofs`, `Memory` |
| shell as text (`U/shell.c`), screen (`K/video_drivre.c`) | line being edited, request, cursor, copy of the screen | keys, Enter, parsing, write, scroll, clean | `Session`, `Console` |
| libraries and clock (`U/userlib.c`, `U/userlib_so.c`, `K/time.c`) | none | numbers, sleep, cat, filter, wc, ps, date and hour | `Library`, `Filters`, `Listing` |
| kernel strings (`K/libs/lib_str.c`, `lib_mem.c`, their copies in `K/pipes.c`) | the memory they write | copy, append, compare, names of pipes and their semaphores | `Strings`, `StringsProofs`, `Listing` |
| fonts, sound, exceptions, registers, bootloader, toolchain | | | see [Not modelled](#7-not-modelled) |

### How they interact

`scheduling()` reads the PCBs that `create_process`, `kill_process`, `wait`,
`block_process` and `unblock_process` write.  `sem_wait` and `sem_post` call
`block_process` and `unblock_process` on the pids they queue.  `pipes.c` is
built on `sem.c`; `create_process` registers the ends of pipes it is given and
`kill_process` closes them, whoever is killed and wherever it sleeps.  The
keyboard interrupt posts `sem_stdin` and, on Ctrl-C, calls `kill_process` over
whatever process runs.  `kill_mvar()` calls `kill_process` again for a whole
group.  `wait()` and the dying child speak to each other through
`dad_blocked`, `parent_pid` and the block count.  `create_process`, `wait`,
`ps` and `test-mm` share one heap.

### What is hard, and what makes each part correct

* *Who runs.*  `get_pid()` looks for a RUNNING process, `scheduling()` for
  `current_index` (`GetPidIsCurrent`).
* *Blocks nest.*  Several parties block the same process; the count and the
  state are separate fields written in four places (`BlockedIffCounted`).
* *Nobody starves, and idle runs last* (`NoStarvation`, `IdleIsLastResort`).
* *`wait()` across a context switch.*  It keeps a PCB pointer while it sleeps
  (`WaitTargetKept`, `WaitBlocksWhileLive`, `WaitFreesExited`).
* *The family.*  Parent pointers, lists with holes and counts kept apart, with
  slots that are used again (`FamilyAgrees`, `ActiveCount`).
* *Semaphores.*  A value, a queue, a count of openings and the states of the
  sleepers say related things (`ValueCountsQueue`, `SleepersQueue`,
  `OpeningsAgree`, the refinement `ImplementsCounting`).
* *Pipes.*  Bytes, counts of ends, references, EOF and three semaphores, with
  holders that exit or are killed in any order (`CountsAgree`, `LockIsFree`,
  `NoLostWakeup`, `RingHolds`, `NothingKept`, the refinement `ImplementsChannel`,
  and `PipelinesEnd`).
* *Groups.*  A loop of kills, each of which yields, over the table of processes
  it changes (`GroupsEndTogether`, `ImplementsCell`, `LettersComeAndGo`).
* *The keyboard.*  An interrupt that posts and kills between the test of a ring
  and the sleep on a semaphore (`KeysInOrder`, `NoKeyStuck`, `PromptReturns`,
  `CtrlCHitsForeground`).
* *Memory.*  A search hint, a count, and trees of bits and lists that must say
  the same as the pointers of the callers, through requests that are refused
  half way (`GivenIsHeld`, `RoomIsFound`, `MemReportsHeld`, `BuddyIsTidy`, the
  refinement `ImplementsHeap`).
* *Text.*  A line split in place, two ideas of where the cursor is, and
  numbers and dates at the ends of their ranges (`RequestIsTheLine`,
  `TextStaysOnScreen`, `LibraryAgrees`).
* *All of it together*, in the programs whose result shows it
  (`MutualExclusion`, `FinalValueIsZero`, `NothingLeftBehind`, `BeliefsHold`,
  `TestEnds`).

`PROJECT.json` lists every hazard at its line, with the properties that watch
it.

## 2. The modules

```
Scheduler ---- Process ---+--- SyncTest ---- TestPrograms
    |                     |
    +--- Semaphore -------+--- Pipe ---- Pipeline ---- MVar
            |             |
        SemClients        +--- Terminal

MemoryManager --+-- Memory        Strings, Library ---- Listing --+-- Session
Buddy ----------+                 Console, Filters ---------------+

abstract:  Lifecycle  CountingSemaphore  Channel  Cell  Heap
proofs:    SchedulerProofs  ShellProofs  SemaphoreProofs  PipeProofs
           TestProofs  TerminalProofs  MemoryManagerProofs  StringsProofs
```

An arrow to the right means EXTENDS.  The C functions are operators from a
record of state to another one, so that a function that calls another composes
as the code does, and lemmas can be stated about one function at a time.  An
action hands the current record to the operator and makes the result the next
state.

**Scheduler.**  The process table is a function per PCB field; a NULL slot has
state `"INVALID"`.  `Kernel` is the record of those functions; `Charge`,
`Dispatch`, `Scheduling`, `Yield`, `BlockProcess`, `UnblockProcess` and `BeNice`
are the C functions.  `yield()` without a RUNNING process writes
`process_table[-1]`; the write lands outside of the table and of the model.
`scheduling()` returns at once when `active_processes` is 0; there is always an
idle process, and the test is left out.

**Process** adds creation, death and `wait()`.  `waiting[p]` is the PCB pointer
`target` on the stack of a process inside `wait()`, and `dangling[p]` says that
this PCB has been freed meanwhile; the C code has no such variable, the
property needs it.  `SysWait` is the half of `wait()` before the context switch,
`WaitReturns` the half after it; while a resumed waiter has not done it, no
other action is possible (`InWait`).  **Lifecycle** is what the table
promises: a pid is spawned, exits once, is freed only afterwards, and `wait`
returns only then.

**Semaphore** keeps the table by name; of its slots only the number matters.
`SemWaitTable` and `SemWaitKernel` are what `sem_wait()` does to the semaphore
and to the processes, and so on.  **SemClients** runs processes over several
semaphores in any order of calls that keeps to open, use, close.
**CountingSemaphore** is the promise to those who have a semaphore open: tokens
that P takes and V gives back, sleepers served in order; only the first to open
it sets its tokens, only the last to close it takes them away.  `balance` counts
the calls of P and V, so that one that takes or gives nothing is not a stutter.

**SyncTest** is the program `test-sync`, one action per statement that touches
shared state.  **TestPrograms** adds `test-prio` and `test-pcs`; the program is
chosen at the start.  `SHELL_PID` plays the main process of the test: the shell
proper sleeps in `wait()` for it all along.  What follows "print" or "error",
an exit, is left out; `-2` of the command to kill is not looked at by the test
either; memory suffices for its processes.

**Pipe** is `pipes.c` with the parts of `create_process`, `kill_process`, `read`
and `write` that deal with descriptors, over Process and Semaphore: `World` is
the record of the kernel, the semaphores and the pipes.  A call that falls
asleep keeps what is left of it in `call[p]`, and goes on before anything else
when its process has the CPU.  **Pipeline** is the shell's `A | B`, in the
foreground or with `&`: it creates a pipe, creates A and B, closes its own ends
and waits.  A stands for the programs that print, B for those that read to the
end or not at all.  **Channel** is the promise of a pipe: bytes arrive once and
in order, and EOF only when nobody can write and nothing is left; its constant
`FullLooksEmpty` weakens the last by the one case in which the code differs.

**MVar** adds the command `mvar` and its writers and readers, with `kill_mvar()`
one kill at a time, because each of its kills gives up the CPU. The command
opens its two semaphores and the pipe in three system calls, with ticks in
between (`MvarOpensEmpty`, `MvarOpensFull`, `MvarOpensPipe`). **Cell** is its
promise.  The letter a writer writes is its pid; the random delays of the loops
are the ticks that may come before any step; memory suffices, and the tables
have an entry for each thing the command opens and each process it creates (it
does not look at a failure); whoever is killed is killed by the command `kill`
of the shell.  The two semaphores and the named pipe stay open when the group is
gone, as `src/README.md:142` says, and no property asks otherwise.  That nobody
sleeps inside the named pipe follows from `ImplementsCell`, which keeps it
between empty and one letter.

**MemoryManager** and **Buddy** are the two allocators, an address being an
offset from the start of the heap.  The first one counts the blocks of a request
in `uint32_t`, which has `UINT32_COUNT` values; its callers ask for no more than
that counts (`CountedSizes`).  **Memory** is whoever asks: the kernel for
its processes, undoing what it has got when a request is refused; `ps`; and
`test-mm`; with kills that leave blocks which nobody can name any more (`lost`).
**Heap** is the promise of an allocator to its callers.

**Strings** is the string functions of the kernel over a memory of characters.
A string that is only read is its text; a string that is written lands in the
memory, with its NUL, over whatever is there, so that a name too long marks the
field behind it.  `BuildSemNames` writes the three names of a pipe that `Pipe`
takes for granted.

**Terminal** is the keyboard interrupt, `read_chars()`, the shell's loop and
three programs that stand for the others (cat reads, loop never ends, msg prints
and exits), and the commands block and unblock.  What a line says is chosen when
it is run; that the line is understood is the subject of `Session`.

**Session** is the text: keys edited into a line, the line parsed into a request
to the kernel, and what is written on the screen.  It builds on **Console** (the
cursor of the driver and the shell's own copy of the screen), **Library**
(numbers, sleep, the clock), **Filters** (cat, filter, wc) and **Listing** (what
`ps` prints).  A `create_process` that fails is a command that ends at once.
The clock runs while the machine is off: nothing in a session depends on the
hour.

## 3. The runs

| run | question | bounds |
|---|---|---|
| `scheduler_clients` | Do `get_pid()` and `scheduling()` agree, do blocks nest, does idle run last, and is nobody starved? | 4 slots, one empty between the clients so that the search skips and wraps; 2 clients, blocks nested twice; priorities 3 and 4, whose quanta of 10 and 2 ticks differ |
| `process_shell` | With a shell that waits for its own jobs and a user who kills, blocks and renices them, with Ctrl-C: is no wake-up lost, do the family lists and counts agree, does the table implement `Lifecycle`? | 5 slots: idle, shell and 3 jobs, so that a slot is used again while another job lives |
| `sem_clients` | Do value, queue, openings and sleepers agree, and does the table implement `CountingSemaphore`, in which every call takes or gives its token? | 3 processes, 3 names for 2 entries, so that an open fails; initial values 0 and 1 |
| `test_programs` | Are the results of `test-sync` right, are the beliefs of `test-pcs` those of the table, is nothing left behind, and do the programs end? | 4 slots; 1 pair with 2 increments each; 2 processes for `test-prio`, 2 or 3 for `test-pcs`, of which the third finds no slot |
| `pipes` | Do pipes implement `Channel` and does mvar implement `Cell`; are ends, rings, wake-ups and groups right under a kill at any moment; do command lines end? | 6 slots; two command lines one after the other, so that pipe, slots and pids are used again; a ring of 2 places and a write of 3 bytes, which has to sleep; or mvar with a crew of up to 3; 1 kill |
| `memory` | Do tables and callers agree on every block, is a request refused only when nothing fits, does either allocator implement `Heap`? | 6 blocks of 2 bytes, counted up to 15, or 16 leaves; two process slots, processes of 2 or 4 blocks, a list of 3 bytes, test-mm (under the first allocator) with 3 bytes in up to 2 blocks; the blocks of one or two kills lost |
| `terminal` | Are keys read once and in order, is nobody asleep while a key waits, does the prompt return after a program ends or is killed, and when the user blocks and unblocks the shell or a program, whatever it is doing? | 4 slots, 2 programs; a ring of 2 characters and 4 keys, so that it overruns, or 3 keys and one command block or unblock; blocks nested twice |
| `session` | Is the kernel asked for what the line says, does the text stay on the screen, do numbers, sleeps, filters, names of semaphores, the rows of `ps` and dates agree with what they are for? | 6 keys out of a letter, space, `&`, `\|`, Enter, Backspace; a line of 5 characters, 3 words; a screen of 4 by 3; 10-bit integers; names for pipes one character around the limit; `ps` of up to 3 processes in 64 slots; 1540 hours from 30 December 2023 over New Year, the end of a month of 31 days and 29 February |

The other runs are expected to be violated.  Each states what a comment or a
document of the repository says, and TLC shows a behaviour of the code against it:

| run | statement | what happens |
|---|---|---|
| `process_reuse` | what `wait()` frees is free to go (`K/proc.c:533`) | another creator takes the zombie's slot before `wait()` goes on (`K/proc.c:547`): the PCB is freed twice, and the slot of the newcomer is cleared.  Bounds: 4 slots, 2 creators |
| `pipe_full` | a read that returns 0 has read what there was (`K/pipes.c:276`) | a ring that is exactly full has equal indexes and passes for empty (`K/pipes.c:274`): after the last writer has gone, its bytes are lost.  A ring of 2, writes of 2 |
| `buddy_wrap` | `free()` gives back the block it is told (`K/memory_management/buddy_memory_manager.c:94`) | `addr_to_bi()` keeps an offset in `uint16_t` (`K/libs/lib_buddy.c:26`): blocks 64 KB apart share their bits.  16 leaves with the reach of 8.  Perhaps the error that `src/README.md:136` says could not be tracked down |
| `terminal_ctrl_c` | Ctrl-C interrupts a process in the foreground (`src/README.md:109`) | nobody tells the kernel that the foreground process has ended (`U/shell.c:248`-`252`): Ctrl-C at the prompt kills whichever process has its pid by then (`K/keyboard.c:71`) |

### Bounds, and why they are enough

Every bound is a constant or a guard with a comment.

* *Slots, pids and names* are few because every operation looks at one process,
  its parent, its children and the next READY one: with idle, the shell and two
  or three others each of those roles is filled at once by different
  processes, and the pid of one that has gone is in use again.
* `MaxBlocks` limits the nesting of blocks and how far `unblock 0` takes idle's
  count below zero.  `PROCESSES_BLOCKED` is the size of a semaphore's queue:
  `SysSemWait` stops there, while the code writes the eleventh sleeper over the
  count of the queue.  `MaxValue` limits posts ahead of waits.  The guards of
  `Kill` keep idle's list of children within its size; the code does not.
* A ring of 2 places can be empty, half full and exactly full, and its indexes
  wrap: the cases the code tells apart.  `MaxKills` is one: with the exits in
  between it takes any process at any step, its neighbours with it.
* The heaps are small enough to fill up and to be fragmented: requests fail for
  lack of room, and for lack of room in one piece.  `ADDR_RANGE` is the reach of
  `addr_to_bi()`; in the run `memory` it covers the heap, so that what is checked
  there is the allocator apart from that error.
* A line of 6 keys holds two commands with a pipe and an argument or a
  background sign, and a screen of three rows scrolls within it.  A tab, which
  the parser takes for a space (`Space`), is not among the keys: it would do
  what the space does.  `INT_BITS`
  keeps the numbers' overflow within the hours that are counted.

* The runs that are expected to pass take between 8 000 distinct states
  (`test_programs`) and 173 000 (`session`), and at most a minute
  and a half (`pipes`).

Deadlock is checked in every run but `session`, which ends when the keys are
used up or the shell has been left.

### Fairness

* The timer: weak fairness of the tick (`FairSchedSpec`, `FairTestSpec`,
  `FairCommandSpec`, `FairTermSpec`).  It is a device that goes on whatever the
  software does, and it is masked only while the kernel is at work.
* Programs: `FairTestSpec` has weak fairness of the steps of whoever holds the
  CPU: it executes its next statement, possibly after some ticks.
  `FairTermSpec` says the same by `Runs` and `Moves`, which are what `ENABLED`
  and the action come to and quicker to evaluate; a key need never be pressed.
  `FairCommandSpec` does so for the tick, by its own `TickDue`.
* `mvar`: its processes hand a token to and fro through the scheduler, and under
  weak fairness of "some step" one of them could lose the CPU to the timer each
  time it is dispatched.  `FairCommandSpec` therefore states, for each process,
  `<>[]~Runs(p) \/ []<><<Runs(p)>>_Progress`: one that is given the CPU again
  and again makes a step again and again.  It is justified because a quantum
  lasts at least one whole tick (55 ms), in which a process gets through its
  next system call.

Nothing is assumed of the scheduler's choices: that a process is dispatched is
what `NoStarvation`, `TestEnds`, `PipelinesEnd`, `LettersComeAndGo` and
`PromptReturns` show.

## 4. The proofs

Proved for every value of the constants that the ASSUMEs admit: a table with a
slot for idle, positive quanta, clients other than idle (`Scheduler`); a shell
that exists from the start and was created after idle, as `K/kernel.c:60`-`75`
does it (`Process`); initial values that are natural numbers (`SemClients`); at
least one block of at least one byte, and no more blocks than `uint32_t` counts
(`MemoryManager`); slots that are natural numbers, and sizes whose blocks
`uint32_t` counts (`Memory`); a table of pipes with the three entries that
`pipe_init()` reserves, a ring of at least one byte, at least one post at the
end of file, and names of semaphores that differ as `SemNamesAgree` says those
of the code do (`Pipe`); at least one pair and one increment (`SyncTest`), a
ring of at least one character (`Terminal`), up to five children of `test-prio`,
as many as `prio[]` has places, and any positive numbers of processes for
`test-pcs` (`TestPrograms`).

| module | theorem | statement |
|---|---|---|
| `SchedulerProofs` | `SchedTypeCorrect` | `SchedSpec => []SchedTypeOK` |
| | `OneProcessRuns` | `SchedSpec => []GetPidIsCurrent` |
| | `BlocksNest` | `SchedSpec => []BlockedIffCounted` |
| | `IdleRunsLast` | `SchedSpec => IdleIsLastResort` |
| `ShellProofs` | `OneProcessRunsAlways` | `ProcSpec => []GetPidIsCurrent` |
| | `BlocksNestAlways` | `ProcSpec => []BlockedIffCounted` |
| | `WaitKeepsItsTarget` | `OnlyShellCreates` implies `ProcSpec => []WaitTargetKept` |
| | `WaitSleepsWhileLive` | `OnlyShellCreates` implies `ProcSpec => []WaitBlocksWhileLive` |
| | `WaitFreesOnlyExited` | `OnlyShellCreates` implies `ProcSpec => WaitFreesExited` |
| | `LifecycleImplemented` | `OnlyShellCreates` implies `ProcSpec => ImplementsLifecycle` |
| | `FamiliesAgree` | `OnlyShellCreates` and `~ShellExits` imply `ProcSpec => []FamilyAgrees` |
| | `ActiveProcessesCount` | `OnlyShellCreates` and `~ShellExits` imply `ProcSpec => []ActiveCount` |
| `SemaphoreProofs` | `ValuesCount` | `ClientSpec => []ValueCountsQueue` |
| | `OpeningsCount` | `ClientSpec => []OpeningsAgree` |
| | `SleepersHavePlaces` | `ClientSpec => []SleepersQueue` |
| | `CountingImplemented` | `ClientSpec => ImplementsCounting` |
| `PipeProofs` | `PipesCountTheirHolders` | `PipelineSpec => []CountsAgree` |
| | `PipesLeaveNothing` | `PipelineSpec => []NothingKept` |
| | `PipeLocksAreFree` | `PipelineSpec => []LockIsFree` |
| | `SleepersWaitForSomething` | `UnqueuedSpec => []NoLostWakeup` |
| | `RingsHoldTheirBytes` | `UnqueuedSpec => []RingHolds` |
| `MemoryManagerProofs` | `HintHidesNothing` | `MMSpec => []NothingFreeBelow` |
| | `RunsStayWhole` | `MMSpec => []RunsAreWhole` |
| | `FreeBlocksAreCounted` | `MMSpec => []FreeBlocksCounted` |
| | `ScanFindsFirstFit` | `MMSpec => []ScanIsFirstFit` |
| | `HeapImplemented` | `MMSpec => MMHeap!Spec` |
| | `EveryBlockHasItsHolder` | `Managers = {"bitmap"}` implies `MemSpec => []GivenIsHeld` |
| | `RefusedOnlyWithoutRoom` | `Managers = {"bitmap"}` implies `MemSpec => []RoomIsFound` |
| | `MemPrintsWhatIsHeld` | `Managers = {"bitmap"}` implies `MemSpec => []MemReportsHeld` |
| | `BitmapFreesItsBlock` | `Managers = {"bitmap"}` implies `MemSpec => FreesItsBlock` |
| | `HeapForItsCallers` | `Managers = {"bitmap"}` implies `MemSpec => BitmapHeap!Spec` |
| `TestProofs` | `TestSyncExcludes` | `OnlyShellCreates` and `USE_SEM` imply `TestSpec => []MutualExclusion` |
| | `TestSyncEndsAtZero` | `OnlyShellCreates` and `USE_SEM` imply `TestSpec => []FinalValueIsZero` |
| | `TestsLeaveNothing` | `OnlyShellCreates` and `USE_SEM` imply `TestSpec => []NothingLeftBehind` |
| | `TestPcsIsRight` | `OnlyShellCreates` implies `TestSpec => []BeliefsHold` |
| `TerminalProofs` | `KeysAreReadInOrder` | `TermSpec => []KeysInOrder` |
| | `NoKeyIsStuck` | `BootOrder` implies `TermSpec => []NoKeyStuck` |
| `StringsProofs` | `SemNamesAgree` | `NamesAgree(mem, base, other)` for every memory and names |

*Scheduler and processes.*  None of these properties is inductive by itself:
that exactly one process runs needs the types, and `block_process()` on the
caller passes through a record in which nobody runs.  Two predicates on kernel
records split the work.  `Coherent` (types, no RUNNING process but the one
`current_index` names, blocks counted) is what the halves of a system call
before its context switch keep; `Settled` (the same, with that process RUNNING)
is what `Scheduling` makes of a `Coherent` record.  Each C function has one
lemma that says which of the two it needs and which it leaves.  The inductive
invariant `SchedInv` is `Settled(Kernel)`.  `ProcInv` adds the type of `waiting`
and that no process waits for itself: one that did would, in the second half of
`wait()`, free the PCB of the process that runs.  `IdleRunsLast` rests on
`EverySlotIsScanned`: the distances 1 to `MAX_PCS` from any slot reach every
slot.

*The shell and its children.*  `OnlyShellCreates` says that the shell is the one
process that creates others, and that the user does not block or unblock the
shell itself.  Neither can be dropped: `process_reuse` shows what a second
creator does, and an `unblock 1` during `wait()` frees a live job (section 5).
The programs of `U/` that create processes themselves are the tests and `mvar`,
which have models of their own.  `~ShellExits` says that the shell is not left,
whose exit ends the others without their lists and counts (`K/proc.c:372`).
The run `process_shell` has these very hypotheses, so they are not empty, and
checked `WaitInv` and `FamInv` before they were proved.

`WaitInv` follows a `wait()` over its context switch.  From its block to its
return the target keeps its PCB, its parent and `dad_blocked`; the shell is
BLOCKED with a count of one while the target lives and READY or RUNNING once it
has exited (`Awaits`).  Whoever else has `dad_blocked` set would break it,
so nobody has; nobody but the shell waits or has children.  The three promises
of `wait()` are read off.  Most of the work is in what does not concern them:
`SchedulingSleepers` and its fellows say once that a dispatch changes of no
process whether it lives, sleeps or how often it is blocked.

The refinement maps a slot to the phase of its process.  `LifeStep` is the step
of `Lifecycle`, or the stutter, that an action has to be; `CreateLives`,
`KillLives`, `SysWaitLives` and `ReturnLives` say which one it is, and `WaitInv`
supplies the guards: that what is freed has exited, and that the slot that
`create_process()` takes is nobody's target.

`FamInv` adds that the entries of the shell's list are its jobs, each once, and
that the lengths count them.  The one hard step is `add_child()`, which
writes into the first hole: that there is a hole (`ListHasRoom`) is a pigeonhole
argument, for the list has `MAX_PCS` places and idle, the shell and the newcomer
are not in it.  The rest is cardinalities with one job more or less
(`RelatedGrows`, `RelatedLoses`).

*Semaphores.*  `ClientInv` joins `SchedInv` with what relates the two tables:
who is in a queue is BLOCKED and has the semaphore open, who is BLOCKED is in
one queue, in one place, and value, queue and openings agree.  The step that
needs it all is `sem_close()`: its caller runs, so it is in no queue; if it is
the last to hold the semaphore, nobody else can be in the queue either, and
nothing is forgotten with it.  The invariant is about processes that close what
they have opened and are not killed in between; the code gives it up where they
are (`K/sem.c:114`), which is why `Terminal` and `MVar` are checked with kills.

The refinement reads tokens off the value (`TokensOf`), users off what the
clients have opened (`Openers`), and sleepers off the queue, kept as long as all
of them sleep there (`Asleep`).  The `balance` of calls is kept by `SemClients`
beside the code: it forces every `sem_wait()` and `sem_post()` to be a step of
the abstract semaphore, so that one that does nothing is no stutter.  The
abstract tokens change with a P, a V, the first open and the last close alone;
`OpeningsAgree` makes the entry the code takes for new, or gives away, that of
a semaphore without users.  `ClientInv` says that the sleepers are
the whole queue (`SleepersAreTheQueue`), so that `sem_wait()` puts its caller at
the end of the abstract one and `sem_post()` wakes the first of it.  `CountStep`
is the step of `CountingSemaphore`, or the stutter, that an action has to be;
`WaitCounts`, `PostCounts`, `OpenCounts` and `CloseCounts` say which one, and
`OthersCount` and `NothingCounted` that a call on one semaphore, a tick or a
block by the scheduler leaves the others as they are.

*Pipes.*  `PipeInv` is `WaitInv` with two more parts.  `Counts` keeps the books of
the pipes by who holds their ends: `Readers` and `Writers` give every anonymous
pipe the live processes whose descriptor it is, and the shell until it closes
its own ends.  A pipe in use has as many of them as its counts say, at least one,
and EOF if and only if there is no writer; it has its name and its three
semaphores, each opened once, with a token in the lock.  An entry that is not in
use has no holder and no semaphore.  `ProgramsOK` is the other part: which ends
the shell holds at which of its steps, that the descriptors of a process do not
change, and that whoever is inside of a call is in one about them.

`CountsAgree` is not inductive without either.  A close must be of an end that
its caller has, or the count would fall below the holders: that is `ProgramsOK`
for the shell, and for `kill_pipes()` that a process dies once (`Live`).  A
creation must find the pipe in use: the shell has both ends open while it creates
A and B, so no kill of A can free the pipe before B is there.  `create_pipe_object()`
opens three semaphores and undoes what it has opened when one fails: that
none of them existed before is why the undo is complete, and the reason for the
three names that differ.  Nobody sleeps on a lock because every C function that
takes it gives it back before the CPU can change hands (`LockRound`); so a kill
never takes a lock away.

The C functions have their lemmas on a world: what each leaves of the kernel
(`Woken`: sleepers become READY, nothing else), of the semaphores (`Shifted`) and
of the books (`BookedReadCloses`, `BookedWriteCloses`, `FdsRegistered`,
`AnonymousCreated`, `PipesKilled`).  The steps of the specification then say who
holds what afterwards (`HoldersBecome`).  There is no hypothesis but those on the
constants: any number of entries and semaphores, so that creations fail at each
of their points, any ring, and kills of any process at any moment.  TLC
checked `PipeInv` before it was proved.

`FlowInv` adds the bytes.  `Histories` and `Ring` say that what was written and
not yet read, never more than the ring holds, is in the ring from `read_index` on,
in its order, and that `write_index` is the place behind it.  `Seat` says what the
semaphores of a pipe are worth to the one process at each of its ends: the
bytes on their way (and `EOF_POSTS` after the end of file) for the reader, the
free places for the writer, less the token of a call that has its own already;
a call that sleeps is alone in its queue, and there is nothing for it.  That
makes sleeping for something that is there impossible (`NoLostWakeup`), and a
write into a full ring (`RingHolds`).  `Lines` is why there is one process at
each end: a command line has one pipe, one reader and one writer.  `Fits` ties
each program to its descriptors and to the call it is in.

A process killed in its sleep stays in the queue of its semaphore
(`K/sem.c:114`), and `create_process()` may give its slot to a newcomer while it
is there; the next post then wakes the newcomer, if it sleeps elsewhere, as if its
token had come.  With two pipes in use at a time that loses a wake-up and lets a
writer write over bytes (section 5).  `UnqueuedSpec` is `PipelineSpec` without
the steps that give away a queued slot (`TakesQueuedSlot`), and `Strays` says
that of the living, only those at a pipe are in its queues.  In the run
`pipes`, whose semaphores suffice for one anonymous pipe at a time, both
properties hold with those steps too.

The theorems are about the command lines of `Pipeline`; that `CountsAgree`,
`NothingKept`, `NoLostWakeup` and `RingHolds` survive `mvar` beside them is what
the run `pipes` checks.  `LockIsFree` is a step of these proofs and no property of
a run: a lock that is kept shows there as a command line that never ends.

*The first allocator.*  `MMInv` joins the type of the table, the hint, the runs
and the count.  Two runs are apart because the head of the later one would lie
inside of the earlier one, where there is no other head (`RunsAreDisjoint`);
that makes `free()` of one run leave the others whole, and the count follows
from the cardinalities of disjoint unions.  That `first_free_index` is moved
only when its block has been taken suffices because a block below it was used
before and still is.

The loop of `alloc()` is a recursive function, which the provers accept only
one unfolding at a time.  `NextFit` is what the loop should return from a given
block on, and it satisfies the equation of the loop (`NextFitIsRound`): where
the loop jumps over a run, no fit begins before the jump's end, because the used
block that stopped it lies in all of them (`NothingJumped`).  An equation of
this kind has one solution, since each round is at a later block: of the blocks
at which two solutions differ the last one would have a later one behind it
(`RoundHasOneValue`).  The hint starts the loop no later than the first fit.

Read as a `Heap`, a run is a piece of the heap (`GivenIsPieces`), pieces lie in
it (`PieceInHeap`) and touch one another no more than their runs do
(`PiecesApart`): in bytes it is monotonicity of the product by the block size.

*Those who call it.*  `Managers = {"bitmap"}` is the kernel that `make` builds;
`make buddy` builds the other one, of which `FreesItsBlock` is false (the run
`buddy_wrap`).  That the blocks handed out are those that somebody holds says
nothing of a step that frees one of them, for a block with two holders would be
gone for both.  `HeldInv` therefore adds that every block has one holder
(`OneHolder`): the job of the kernel, the list of ps, test-mm, a slot of the
table, a program that was killed, none with a block twice; and that the slot
`create_process()` is filling holds nothing that would be written over
(`JobIsOrderly`).  A step moves blocks (`MovesKeep`; `FreeOrderIsAll` for the
order in which the kernel undoes a process), asks (`AllocBrings`, `BroughtIsNew`:
what comes is nobody's) or frees (`FreeDrops`), and is then a step of the
allocator alone, so that `MMInv` and the steps of `Heap` carry over.  `Room` is in bytes
between the blocks held, `Fits` in blocks of the table: `RoomIsRun` takes one to the
other.  The sum that `mem` should print is a fold over a finite set, the one
solution of an equation as the loop of `alloc()` is: two solutions would differ
at a smallest set (`SumHasOneValue`), and the number of blocks covered, times
their size, is a solution (`CoverGrows`).

*The test programs.*  The three programs run over the whole of `Process` and
`Semaphore`, whose lemmas are used again: of every call, `TestProofs` says what
it does to the processes of the test it is not about, which is nothing
(`Keeps`), and what to the one it is about (`CreateKeeps`, `KillKeeps`,
`WaitKeeps`, `ReturnKeeps`, `ActsKeep`).

`SyncInv` joins the invariant of `wait()` with the places of the processes and
the semaphore: openings count the processes between `sem_open()` and
`sem_close()`, the value is one less those between `sem_wait()` and
`sem_post()`, and the queue is those of them that sleep, each once.  At most one
of those between `sem_wait()` and `sem_post()` is awake, so at most one is in
`slowInc()`.  One who sleeps is already past its `sem_wait()`, since a post
hands the token over, and takes no step: a step needs the CPU.  The children
exit and their slots are used again while others are still at work; the counts
are over live processes, and `WaitInv` says that a slot that is given back or
taken had exited.  The two other programs never come to a semaphore
(`OtherInv`).

That the shared variable ends at zero is a statement about a sum, which would
have to be a recursion.  `Tally` counts instead what is left to be done:
`ToDo(s)` is the set of pairs of a live process that adds `s` and the number of
an increment it still has to make, and `global` is the size of `ToDo(-1)` less
that of `ToDo(1)`, less the increments of one process while the shell has
created an odd number of them (`Unpaired`).  A worker that is created adds its
whole row to a set, one that writes takes one pair out, and one that exits has
none left.  The step that could go wrong is the write: `Tally` says that what the
process has read is still the value of `global`, because any other that could
have written in between would be in `slowInc()` too (`MutualExclusion`).  Where
the table of semaphores has no entry at all `sem_open()` fails, the workers make
no increment, and the goal of each is zero.  `SyncLeft` says that when the test
is over nobody it has created is left, so both sets are empty.

`Due` is what nothing left behind comes down to: whoever is in the table is
waited for, or is in `pids[]` from the place on that the loop of waits has
reached.  A pid may stand there twice, when its slot is used again before the
loop begins; the second `wait()` may then fail, and `Due` holds all the same,
because such a slot is free.  `PrioInv` follows the three rounds of `test-prio`,
in which `pids[]` is filled and emptied again.

`PcsInv` says of every entry that the verdict is the state in the table, with a
block count of one for those that are blocked, and that the entries are
different processes.  The count is what makes the unblock of the test
successful, and nobody else blocks a child or gives it back a slot: the slot
of a ZOMBIE may be given to another process, but `test-pcs` creates only
while all it has are alive.  So `kill`, `block` and `unblock` never return the
-1 that the test would report, and `wait()` is called on processes that have
exited and never sleeps.

`USE_SEM` is the mode of `test-sync` with a semaphore; without it the result is
meant to be wrong.  The run `test_programs` has the hypotheses of the three
theorems, and the three invariants were checked on it before they were proved.

*The keyboard.*  The interrupt writes at one index and `read_chars()` reads at
another, both of which go round.  `Ordered` counts from the index that is read
next: the j-th place from there holds the j-th character not read yet, as many
places as there are unread characters, and the index of the interrupt is the
place behind them.  `ascii_to_read` is set when and only when there is one.
The invariant is `Ordered` or that the ring has been overrun, which the code
does not prevent; `KeysInOrder` claims nothing after that.  It has no hypothesis
about scheduling, Ctrl-C or the commands block and unblock: who is woken or
killed decides who reads the next character, not which one it is.

`NoKeyIsStuck` is an account of tokens.  The interrupt posts `sem_stdin` for
every key, and so more often than there are characters; but a character is in
the ring before its post, and the post may go to a place in the queue whose
process has been killed or unblocked.  `Covered` says that the characters
unread are at most the tokens in the semaphore (negative while somebody
sleeps), those that readers have taken, and the stale places; `Paid`, that every
place in the queue is that of a reader asleep or stale.  `Paid` is what carries
`Covered` through the loop of `read_chars()` that throws away a token without a
character, and `ReadersOK` ties both to the scheduler: a reader with a token has
no more blocks than the user has made and its place in the queue accounts for.
Then readers that all sleep, and that the user does not hold back, have a place
each; so they are at most as many as the semaphore is below zero, and nothing
but the stale places is left to cover a character.

The account holds while the shell lives (`Working`), whose part is that it alone
creates and waits, and does not read while it waits: its waking up by a child's
death is no business of the readers.  When it exits, everybody but the idle
process goes with it (`Gone`), because every other slot comes after the shell's:
that is `BootOrder`, idle first and the shell second, the order in which
`K/kernel.c:60`-`75` creates them.  `KeyInv`, with both cases, was checked on
the constants of the run `terminal`, which have the hypothesis, and on more keys
and commands, before it was proved.

*Names.*  `Stands` says that a text and its NUL are at an address, and
`SameOutside` what a write leaves alone; each string function has one lemma in
these terms (`StrncpyWrites`, `StrncatAdds`, `StandsStays`).  A field takes its
prefix and as much of the name as there is room for (`FieldTakesName`), and the
next field begins behind the NUL.  That `strcmp()` stops is a least-element
argument (`StrcmpCompares`).  The theorem holds for any set of characters
without NUL that has those of the prefixes.

## 5. Known disagreements

What the code does against its own comments, documents or evident intent, met
while modelling.  The first four have a run of their own (section 3):
`wait()` and a slot that is used again, the ring that is exactly full, the width
of a block index, Ctrl-C at the prompt.  The others are in the models as the
code has them, and are described here:

* `K/scheduler.c:45`, `:30` A `yield()` in the last tick of a quantum: the
  quantum is found used up first, and `yielding` stays set, so that the next
  quantum of the process ends at its first tick.  A source of the uneven ticks
  that `src/README.md:147` reports.
* `K/scheduler.c:90` `yield()` from `block_process()` on the caller: nobody is
  RUNNING any more, `get_pid()` is -1, and the flag is written to
  `process_table[-1]`.  The comment of `last_wish()` a few lines below knows of
  the same problem.
* `K/proc.c:227` `unblock_process()` does not ask why a process is blocked: the
  command `unblock` lets one that sleeps in `sem_wait()` through without a post.
  With that, the value that `test-sync` prints need not be 0
  (`U/tests/test_sync.c:132`); with `unblock 1` while the shell waits, `wait()`
  frees the PCB of a live job.
* `K/proc.c:338` A process that was waited for and whose parent has died is
  idle's child with `dad_blocked` still set: its death makes idle READY, though
  idle should run last only.
* `K/proc.c:356` The children of a process that dies are looked for in the first
  `child_amount` entries of `childs[]`, which has holes: some keep the pid of a
  parent that has gone.  `K/proc.c:361` does not look at the size of idle's list.
* `K/proc.c:372` Leaving the shell makes ZOMBIEs of all later processes without
  the rest of `kill_process()`: `active_processes` counts them for ever, and
  pipes of those that were ZOMBIEs before are closed a second time.
* `K/sem.c:87` An eleventh sleeper overruns the queue.
* `K/sem.c:114` A process that is killed in the queue of a semaphore stays there,
  and `create_process()` may give its slot to another.  A later post wakes up the
  newcomer, whatever it sleeps for.  With two command lines at once, one of which
  has lost a program that slept in its pipe, a writer of the other can be sent
  on with its ring full and write over bytes that nobody has read.
* `K/memory_management/memory_manager.c:82` The number of blocks of a request is
  cut to 32 bits.  A request of 2^32 blocks comes to none, and `alloc()` grants
  it a block with length 0.  No program asks for so much.
* `U/shell.c:362`, `:430` `exit` as a command of a pipe: its code is `(void *)-1`,
  the sign for the shell to leave, and the pipe creates a process that starts
  there.  `RequestIsTheLine` excepts such lines.
* `K/pipes.c:274` A reader that is woken by EOF and finds none falls through and
  posts the lock once more.  `K/pipes.c:167` A named pipe takes a slot with
  whatever EOF flag was in it.  `K/pipes.c:195` Closing the read end wakes no
  writer: one that has filled the ring sleeps until it is killed
  (`PipelinesEnd` excepts it).
* `K/time.c:129` The test for a leap year has `||` for `&&`: every year is one,
  and on 1 March of a common year, between 0 and 3 hours UTC, the date is
  29 February.  The run `session` crosses the end of February of a leap year.
* `U/shell.c:298` A string longer than a character that makes the screen scroll
  is printed twice.  `src/README.md:153` warns of it; `reprinted` marks the state,
  and `TextStaysOnScreen` says nothing until the screen is cleaned.
* `K/proc.c:227` `unblock_process()` does not ask why a process is blocked.  The
  user who unblocks a process asleep in `read()` sends it on without a token and
  leaves its place in the queue, so that a key later wakes nobody; a shell that
  is unblocked in `wait()` comes back while its child lives, and frees it.  In
  the run `terminal`, `NoKeyStuck` allows one key for each such place.
* `U/userlib_so.c:318` The comment says that `ps` cuts a name to 16 characters
  so as not to break the table.  It copies 14 into an array of 14 without a NUL:
  of `test processes`, which has 14, it prints what lies behind the array too.
* `K/sem.c:62` A name of more than 31 characters is kept cut and looked for
  whole, so `sem open` of it makes a new semaphore each time that no `sem wait`
  finds.
* `K/memory_management/buddy_memory_manager.c:43` `create_mm()` is called again by
  `test-mm` and moves the heap under blocks in use; `src/README.md:134` says that
  the test breaks the system.  The run `memory` has `test-mm` under the first
  allocator only.

## 6. Only model-checked

Liveness under fairness, which the prover cannot do: `NoStarvation`, `TestEnds`,
`PipelinesEnd`, `LettersComeAndGo`, `PromptReturns`.  The implementations of
`Channel` and `Cell`, and that of `Heap` by the buddy allocator (the other half
of `ImplementsHeap`, `BitmapHeap!Spec`, is proved), as are `GivenIsHeld`,
`RoomIsFound` and `BuddyIsTidy` under the buddy allocator.  `NoLostWakeup` and
`RingHolds` beside `mvar` and where a queued slot is given away, and
`GroupsEndTogether`.

Induction over data is out of the prover's reach, and with it what recursive
definitions compute: the merges of the buddy allocator, parsing, filters and
numbers, and so the invariants of the session.

## 7. Not modelled

* *Fonts, sound, the early text console, pixels and rectangles*: output that
  no other part reads.
* *Exceptions and registers*: the dump of a fault, and the restart of the
  shell's code after it.
* *Bootloader, BMFS, the packer*: third-party boot code and host tools.
* *The boot*: every model begins when idle has created the shell, and the
  shell has set `foreground_pid`.  The moments before, in which Ctrl-C would kill
  idle, are left out.
* *Assembly* beyond what it means: registers are saved and restored, and the
  stack of a process is where it was.
* *Of the components that are modelled*: the counters `total_ticks`, `changes`
  and `yield_changes`; `status_count()` of the buddy allocator; `close_all_sems()` when the shell is left; several
  readers of one anonymous pipe, which the shell never makes; the 12-hour format
  of the clock chip; the random numbers of the tests, which are any
  number in the models.
