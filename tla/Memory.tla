-------------------------------- MODULE Memory --------------------------------
(***************************************************************************)
(* Those who use alloc() and free(), over either allocator:                *)
(*                                                                         *)
(*  - the kernel, for every process: create_process() asks for the PCB,    *)
(*    the stack, the list of arguments and each argument, undoes all of it *)
(*    when one is refused, and takes the slot of a process that has exited *)
(*    after giving its blocks back; wait() gives them back as well.        *)
(*  - ps, for the list that get_proc_list() returns.                       *)
(*  - test-mm (tests/test_mm.c), which fills max_memory with blocks of     *)
(*    any size, writes to them, checks them and frees them, for ever.      *)
(*                                                                         *)
(* A call of the kernel asks and frees several times with interrupts off:  *)
(* job is what is left of it, and nobody else runs in between.             *)
(***************************************************************************)
EXTENDS MemoryManager, Buddy, FiniteSetsExt

CONSTANTS Managers,       \* the allocators the kernel may be built with
          ProcSlots,      \* slots of the process table
          Requests,       \* what processes need: sequences of sizes
          LIST_SIZE,      \* bytes of the list of ps
          MAX_MEMORY,     \* the argument of test-mm
          MAX_BLOCKS,     \* entries of mm_rqs[]
          MaxLost         \* bound: programs killed with memory

ASSUME CallersAssumption == ProcSlots \subseteq Nat /\ Requests \subseteq Seq(CountedSizes)
                            /\ LIST_SIZE \in CountedSizes /\ MAX_MEMORY \in CountedSizes

VARIABLES manager,  \* the allocator the kernel was built with
          buddy,    \* the variables of the buddy allocator
          job,      \* what the kernel has to free and to ask for
          owned,    \* the blocks of the process of a slot, none for a free one
          exited,   \* whether it has exited
          list,     \* the list ps holds, at most one
          phase,    \* of test-mm
          mm_rqs,   \* its blocks
          lost      \* the blocks of programs that were killed with them

memVars == <<manager, mm, buddy, job, owned, exited, list, phase, mm_rqs, lost>>

\* A process without arguments, and one with a short and a long one.
SmallRequests == {<<1, 4>>, <<1, 4, 2, 1>>}

NoJob == [slot |-> 0, frees |-> <<>>, wants |-> <<>>, has |-> <<>>]

-----------------------------------------------------------------------------

\* What a block that was asked for really takes.
Rounded(size) == IF manager = "bitmap" THEN BlocksFor(size) * BLOCK_SIZE
                 ELSE BlkSize(FirstPower(size))

\* alloc() by whoever runs; Got is the blocks it brings, none or one.
AllocResult(size) ==
  IF manager = "bitmap"
  THEN LET r == Alloc(mm, size) IN [mm |-> r.m, buddy |-> buddy, at |-> r.at]
  ELSE LET r == BuddyAlloc(buddy, size) IN [mm |-> mm, buddy |-> r.b, at |-> r.at]

Got(r, size) == IF r.at = NULL THEN <<>>
                ELSE <<[at |-> r.at, size |-> Rounded(size)]>>

FreeOne(b) ==
  /\ mm' = IF manager = "bitmap" THEN Free(mm, b.at) ELSE mm
  /\ buddy' = IF manager = "bitmap" THEN buddy ELSE BuddyFree(buddy, b.at)

-----------------------------------------------------------------------------
(* create_process() and wait()                                             *)

\* Mutant: the arguments are forgotten.
FreeOrder_NoArguments(has) ==
  Reverse(SubSeq(has, 1, IF Len(has) < 2 THEN Len(has) ELSE 2))

\* The arguments, their list, the stack and the PCB.
FreeOrder(has) == SubSeq(has, 4, Len(has))
                  \o Reverse(SubSeq(has, 1, IF Len(has) < 3 THEN Len(has) ELSE 3))

\* The first slot that is empty or holds a process that has exited.
CreateProcess ==
  /\ job = NoJob
  /\ \E s \in ProcSlots : owned[s] = <<>> \/ exited[s]
  /\ LET slot == Lowest({s \in ProcSlots : owned[s] = <<>> \/ exited[s]}) IN
       \E wants \in Requests :
         /\ job' = [slot |-> slot, frees |-> FreeOrder(owned[slot]),
                    wants |-> wants, has |-> <<>>]
         /\ owned' = [owned EXCEPT ![slot] = <<>>]
         /\ exited' = [exited EXCEPT ![slot] = FALSE]
  /\ UNCHANGED <<manager, mm, buddy, list, phase, mm_rqs, lost>>

KernelFrees ==
  /\ job.frees # <<>>
  /\ FreeOne(Head(job.frees))
  /\ job' = IF Len(job.frees) = 1 /\ job.wants = <<>>
            THEN NoJob ELSE [job EXCEPT !.frees = Tail(@)]
  /\ UNCHANGED <<manager, owned, exited, list, phase, mm_rqs, lost>>

\* A request that is refused undoes those before it.
KernelAllocs ==
  /\ job.frees = <<>> /\ job.wants # <<>>
  /\ LET size == Head(job.wants)
         r == AllocResult(size)
         has == job.has \o Got(r, size)
     IN /\ mm' = r.mm /\ buddy' = r.buddy
        /\ IF r.at = NULL
           THEN /\ job' = IF has = <<>> THEN NoJob
                          ELSE [NoJob EXCEPT !.frees = FreeOrder(has)]
                /\ UNCHANGED owned
           ELSE IF Len(job.wants) > 1
           THEN /\ job' = [job EXCEPT !.wants = Tail(@), !.has = has]
                /\ UNCHANGED owned
           ELSE /\ job' = NoJob
                /\ owned' = [owned EXCEPT ![job.slot] = has]
  /\ UNCHANGED <<manager, exited, list, phase, mm_rqs, lost>>

ProcessExits(s) ==
  /\ job = NoJob /\ owned[s] # <<>> /\ ~exited[s]
  /\ exited' = [exited EXCEPT ![s] = TRUE]
  /\ UNCHANGED <<manager, mm, buddy, job, owned, list, phase, mm_rqs, lost>>

Reap(s) ==
  /\ job = NoJob /\ exited[s]
  /\ job' = [NoJob EXCEPT !.frees = FreeOrder(owned[s])]
  /\ owned' = [owned EXCEPT ![s] = <<>>]
  /\ exited' = [exited EXCEPT ![s] = FALSE]
  /\ UNCHANGED <<manager, mm, buddy, list, phase, mm_rqs, lost>>

-----------------------------------------------------------------------------
(* ps                                                                      *)

GetProcList ==
  /\ job = NoJob /\ list = <<>>
  /\ LET r == AllocResult(LIST_SIZE) IN
       /\ mm' = r.mm /\ buddy' = r.buddy
       /\ list' = Got(r, LIST_SIZE)
  /\ UNCHANGED <<manager, job, owned, exited, phase, mm_rqs, lost>>

FreeProcList ==
  /\ job = NoJob /\ list # <<>>
  /\ FreeOne(Head(list))
  /\ list' = <<>>
  /\ UNCHANGED <<manager, job, owned, exited, phase, mm_rqs, lost>>

-----------------------------------------------------------------------------
(* test-mm                                                                 *)

Total == FoldSeq(LAMBDA rq, sum : sum + rq.asked, 0, mm_rqs)

TestWants == Len(mm_rqs) < MAX_BLOCKS /\ Total < MAX_MEMORY

\* create_mm() again: for the first allocator nothing, for the other one a
\* new heap.
TestStarts ==
  /\ job = NoJob /\ phase = "off" /\ manager = "bitmap"
  /\ mm' = CreateMM(mm)
  /\ phase' = "alloc"
  /\ UNCHANGED <<manager, buddy, job, owned, exited, list, mm_rqs, lost>>

TestAllocs ==
  /\ job = NoJob /\ phase = "alloc" /\ TestWants
  /\ \E size \in {i \in 1 .. MAX_MEMORY : Total + i <= MAX_MEMORY} :
       LET r == AllocResult(size) IN
         /\ mm' = r.mm /\ buddy' = r.buddy
         /\ IF r.at = NULL
            THEN phase' = "giveup" /\ UNCHANGED mm_rqs
            ELSE /\ mm_rqs' = Append(mm_rqs, [at |-> r.at, size |-> Rounded(size),
                                              asked |-> size])
                 /\ UNCHANGED phase
  /\ UNCHANGED <<manager, job, owned, exited, list, lost>>

\* memset2() of all blocks and memcheck() of all blocks.
TestChecks ==
  /\ job = NoJob /\ phase = "alloc" /\ ~TestWants
  /\ phase' = "free"
  /\ UNCHANGED <<manager, mm, buddy, job, owned, exited, list, mm_rqs, lost>>

\* In the order of mm_rqs[], one system call each.
TestFrees ==
  /\ job = NoJob /\ phase \in {"free", "giveup"}
  /\ IF mm_rqs = <<>>
     THEN /\ phase' = IF phase = "free" THEN "alloc" ELSE "off"
          /\ UNCHANGED <<mm, buddy, mm_rqs>>
     ELSE /\ FreeOne(Head(mm_rqs))
          /\ mm_rqs' = Tail(mm_rqs)
          /\ UNCHANGED phase
  /\ UNCHANGED <<manager, job, owned, exited, list, lost>>

\* Killing a program leaves what it has asked for: nobody knows whose it is.
Kill ==
  /\ job = NoJob
  /\ Cardinality(lost) + Len(list) + Len(mm_rqs) <= MaxLost
  /\ list \o mm_rqs # <<>>
  /\ lost' = lost \cup {[at |-> b.at, size |-> b.size] : b \in ToSet(list \o mm_rqs)}
  /\ list' = <<>> /\ mm_rqs' = <<>> /\ phase' = "off"
  /\ UNCHANGED <<manager, mm, buddy, job, owned, exited>>

-----------------------------------------------------------------------------

MemInit ==
  /\ manager \in Managers
  /\ mm = CreateMM(NoTable)
  /\ buddy = BuddyCreateMM(NoBuddy)
  /\ job = NoJob
  /\ owned = [s \in ProcSlots |-> <<>>] /\ exited = [s \in ProcSlots |-> FALSE]
  /\ list = <<>> /\ phase = "off" /\ mm_rqs = <<>> /\ lost = {}

MemNext ==
  \/ CreateProcess \/ KernelFrees \/ KernelAllocs
  \/ \E s \in ProcSlots : ProcessExits(s) \/ Reap(s)
  \/ GetProcList \/ FreeProcList
  \/ TestStarts \/ TestAllocs \/ TestChecks \/ TestFrees
  \/ Kill

MemSpec == MemInit /\ [][MemNext]_memVars

-----------------------------------------------------------------------------

Plain(b) == [at |-> b.at, size |-> b.size]

\* The blocks somebody has got and nobody has given back.
Held == {Plain(b) : b \in ToSet(job.frees \o job.has \o list \o mm_rqs)}
        \cup (UNION {ToSet(owned[s]) : s \in ProcSlots})
        \cup lost

Given == IF manager = "bitmap" THEN GivenBlocks(mm) ELSE BuddyGiven(buddy)

HeapBytes == IF manager = "bitmap" THEN TOTAL_BLOCK_COUNT * BLOCK_SIZE ELSE HEAP_SIZE

\* The tables of the allocator and the pointers of its callers agree on every
\* block: a request that is refused half way has been undone, nothing is freed
\* for somebody else, and what no caller holds is free again.
GivenIsHeld == Given = Held

\* Whether size bytes fit somewhere between the blocks that are held; the buddy
\* allocator only hands out multiples of the size.
Room(size) ==
  LET step == IF manager = "bitmap" THEN BLOCK_SIZE ELSE Rounded(size)
  IN \E at \in {i * step : i \in 0 .. HeapBytes \div step} :
       /\ at + Rounded(size) <= HeapBytes
       /\ \A b \in Held : \/ b.at + b.size <= at
                          \/ at + Rounded(size) <= b.at

\* alloc() refuses only what does not fit: neither the hint the search starts
\* from, nor the blocks it jumps over, nor a merge that has not been made hides
\* room that is there.
RoomIsFound ==
  \A size \in {Rounded(i) : i \in 1 .. HeapBytes} :
    /\ manager = "bitmap" => Scan(mm, BlocksFor(size)) = FirstFit(mm, BlocksFor(size))
    /\ (AllocResult(size).at = NULL) <=> ~Room(size)

\* What mem prints as used is what is held.
MemReportsHeld ==
  manager = "bitmap" =>
    UsedBytes(mm) = FoldSet(LAMBDA b, sum : sum + b.size, 0, Held)

\* The lists and the blocks handed out partition the heap of the buddy
\* allocator, and no two halves of one block are both on a list.
BuddyIsTidy ==
  LET all == ListedBlocks(buddy) \cup BuddyGiven(buddy)
  IN /\ buddy.intact
     /\ \A at \in 0 .. HEAP_SIZE - 1 :
          \E b \in all : \A c \in all : at \in c.at .. c.at + c.size - 1 <=> b = c
     /\ \A b, c \in ListedBlocks(buddy) :
          b # c /\ b.size = c.size => b.at \div (2 * b.size) # c.at \div (2 * b.size)

\* Either allocator, used by all of them at once, is a heap.
BitmapHeap == INSTANCE Heap WITH
                Bytes <- 0 .. TOTAL_BLOCK_COUNT * BLOCK_SIZE - 1,
                given <- IF manager = "bitmap" THEN Given ELSE {}
BuddyHeap == INSTANCE Heap WITH
               Bytes <- 0 .. HEAP_SIZE - 1,
               given <- IF manager = "bitmap" THEN {} ELSE Given
ImplementsHeap == BitmapHeap!Spec /\ BuddyHeap!Spec

\* "Libera la memoria alocada en la direccion p": free() takes back the block it
\* is given, and that block alone.
FreesItsBlock ==
  [][KernelFrees => Given' = Given \ {Plain(Head(job.frees))}]_memVars

=============================================================================
