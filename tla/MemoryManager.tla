---------------------------- MODULE MemoryManager ----------------------------
(***************************************************************************)
(* The first allocator, Kernel/memory_management/memory_manager.c: a table *)
(* of blocks of BLOCK_SIZE bytes, searched first fit from the lowest block *)
(* that is free.                                                           *)
(*                                                                         *)
(* An address is its offset from MEMORY_START.  Operators take and return  *)
(* the record m of the C file's variables; alloc() and free() run with     *)
(* interrupts off and are one step.                                        *)
(***************************************************************************)
EXTENDS Integers, FiniteSets

CONSTANTS TOTAL_BLOCK_COUNT, BLOCK_SIZE,
          UINT32_COUNT  \* the values of a uint32_t, 2^32 in the build

ASSUME BlocksAssumption == /\ TOTAL_BLOCK_COUNT \in Nat \ {0}
                           /\ BLOCK_SIZE \in Nat \ {0}
                           /\ UINT32_COUNT \in Nat
                           /\ TOTAL_BLOCK_COUNT < UINT32_COUNT

VARIABLE mm  \* the C file's variables

Blocks == 0 .. TOTAL_BLOCK_COUNT - 1
NULL == -1

FREE == 0
USED == 1

TableType == [status : [Blocks -> {FREE, USED}],
              contiguous_blocks : [Blocks -> Nat],
              first_free_index : Blocks,
              free_blocks : Int,
              is_initialized : BOOLEAN]

\* The variables before the first create_mm().
NoTable == [status |-> [i \in Blocks |-> FREE],
            contiguous_blocks |-> [i \in Blocks |-> 0],
            first_free_index |-> 0, free_blocks |-> 0,
            is_initialized |-> FALSE]

-----------------------------------------------------------------------------

\* create_mm() a second time does nothing.
CreateMM(m) ==
  IF m.is_initialized THEN m
  ELSE [m EXCEPT !.is_initialized = TRUE,
                 !.status = [i \in Blocks |-> FREE],
                 !.contiguous_blocks = [i \in Blocks |-> 0],
                 !.free_blocks = TOTAL_BLOCK_COUNT]

FreeBlocks(m) == {i \in Blocks : m.status[i] = FREE}

LowestBlock(S) == CHOOSE i \in S : \A j \in S : i <= j

\* reset_first_free_index(): it stays where it is when no block is free.
ResetFirstFree(m) ==
  IF FreeBlocks(m) = {} THEN m
  ELSE [m EXCEPT !.first_free_index = LowestBlock(FreeBlocks(m))]

\* The cast to uint32_t keeps the low bits of the quotient.
BlocksFor(size) == ((size + BLOCK_SIZE - 1) \div BLOCK_SIZE) % UINT32_COUNT

\* The requests that alloc() is followed for: up to the blocks that a uint32_t
\* counts, where the cast takes nothing away.  The first size beyond comes out
\* as 0 blocks, and the code then marks a block that free() cannot give back.
CountedSizes == 0 .. (UINT32_COUNT - 1) * BLOCK_SIZE

\* The blocks from which on n are free.
Fits(m, n) == {i \in Blocks : /\ i + n <= TOTAL_BLOCK_COUNT
                              /\ \A j \in i .. i + n - 1 : m.status[j] = FREE}

\* The loop of alloc(): a used block is passed by, and a run that is too short
\* is left behind together with the used block that ends it.
Scan(m, n) ==
  LET Ends(i) == {j \in i .. i + n - 1 : m.status[j] = USED}
      from[i \in 0 .. TOTAL_BLOCK_COUNT + n] ==
        IF i > TOTAL_BLOCK_COUNT - n THEN NULL
        ELSE IF Ends(i) = {} THEN i
        ELSE from[LowestBlock(Ends(i)) + 1]
  IN from[m.first_free_index]

\* Mutant: free_blocks is left alone.
TakeBlocks_StaleCount(m, at, n) ==
  ResetFirstFree([m EXCEPT
    !.status = [i \in Blocks |-> IF i \in at .. at + n - 1 THEN USED ELSE @[i]],
    !.contiguous_blocks[at] = n])

TakeBlocks(m, at, n) ==
  LET t == [m EXCEPT
              !.status = [i \in Blocks |-> IF i \in at .. at + n - 1
                                           THEN USED ELSE @[i]],
              !.contiguous_blocks[at] = n,
              !.free_blocks = @ - n]
  IN IF t.status[t.first_free_index] = FREE THEN t ELSE ResetFirstFree(t)

\* What the loop of alloc() finds (ScanIsFirstFit).
FirstFit(m, n) == IF Fits(m, n) = {} THEN NULL ELSE LowestBlock(Fits(m, n))

\* alloc() of one of CountedSizes: the table after it and the address, NULL for none.
Alloc(m, size) ==
  LET n  == BlocksFor(size)
      at == FirstFit(m, n)
  IN IF size = 0 \/ ~m.is_initialized \/ n > m.free_blocks \/ at = NULL
     THEN [m |-> m, at |-> NULL]
     ELSE [m |-> TakeBlocks(m, at, n), at |-> at * BLOCK_SIZE]

\* Mutant: the block after the last one goes too.
Free_OneMore(m, address) ==
  LET i == address \div BLOCK_SIZE
      n == m.contiguous_blocks[i]
  IN IF n = 0 THEN m
     ELSE [ResetFirstFree([m EXCEPT
             !.status = [j \in Blocks |-> IF j \in i .. i + n THEN FREE ELSE @[j]],
             !.contiguous_blocks = [j \in Blocks |-> IF j \in i .. i + n
                                                     THEN 0 ELSE @[j]]])
           EXCEPT !.free_blocks = @ + n]

\* Mutant: first_free_index is left where alloc() has moved it.
Free_KeepsIndex(m, address) ==
  LET i == address \div BLOCK_SIZE
      n == m.contiguous_blocks[i]
      run == i .. i + n - 1
  IN [m EXCEPT
        !.status = [j \in Blocks |-> IF j \in run THEN FREE ELSE @[j]],
        !.contiguous_blocks = [j \in Blocks |-> IF j \in run THEN 0 ELSE @[j]],
        !.free_blocks = @ + n]

\* free() of the address of a block; any other address changes nothing.
Free(m, address) ==
  LET i == address \div BLOCK_SIZE
      n == m.contiguous_blocks[i]
      run == i .. i + n - 1
  IN IF n = 0 THEN m
     ELSE [ResetFirstFree([m EXCEPT
             !.status = [j \in Blocks |-> IF j \in run THEN FREE ELSE @[j]],
             !.contiguous_blocks = [j \in Blocks |-> IF j \in run THEN 0 ELSE @[j]]])
           EXCEPT !.free_blocks = @ + n]

\* status_count(): the bytes in use, in which mem is interested.
UsedBytes(m) == (TOTAL_BLOCK_COUNT - m.free_blocks) * BLOCK_SIZE

-----------------------------------------------------------------------------
(* The allocator by itself, with callers who ask for any size that is      *)
(* counted and give back what they have got.                               *)

Heads(m) == {i \in Blocks : m.contiguous_blocks[i] > 0}

\* The blocks that are handed out.
GivenBlocks(m) == {[at   |-> i * BLOCK_SIZE,
                    size |-> m.contiguous_blocks[i] * BLOCK_SIZE] : i \in Heads(m)}

MMInit == mm = CreateMM(NoTable)
MMAlloc == \E size \in CountedSizes : mm' = Alloc(mm, size).m
MMFree == \E i \in Heads(mm) : mm' = Free(mm, i * BLOCK_SIZE)
MMSpec == MMInit /\ [][MMAlloc \/ MMFree]_mm

-----------------------------------------------------------------------------

MMTypeOK == mm \in TableType

\* The hint first_free_index never hides a free block from alloc(), however
\* the blocks behind and before it come and go.
NothingFreeBelow == \A i \in Blocks : i < mm.first_free_index => mm.status[i] = USED

\* The used blocks are the runs that were handed out, each of them whole and
\* no two of them overlapping, so that free() finds the length of one run alone.
RunsAreWhole ==
  /\ \A i \in Heads(mm) :
       /\ i + mm.contiguous_blocks[i] <= TOTAL_BLOCK_COUNT
       /\ \A j \in i .. i + mm.contiguous_blocks[i] - 1 :
            /\ mm.status[j] = USED
            /\ j # i => mm.contiguous_blocks[j] = 0
  /\ \A j \in Blocks : mm.status[j] = USED =>
       \E i \in Heads(mm) : j \in i .. i + mm.contiguous_blocks[i] - 1

\* free_blocks, by which alloc() turns requests down before it searches and
\* from which mem prints its figures, is the number of free blocks.
FreeBlocksCounted == mm.free_blocks = Cardinality(FreeBlocks(mm))

\* The loop of alloc() finds the first run that is long enough, whatever the
\* runs it jumps over and wherever first_free_index stands.
ScanIsFirstFit == \A n \in 1 .. TOTAL_BLOCK_COUNT :
                    mm.is_initialized => Scan(mm, n) = FirstFit(mm, n)

\* The blocks handed out are those of a heap (Heap.tla).
MMBytes == 0 .. TOTAL_BLOCK_COUNT * BLOCK_SIZE - 1
MMGiven == GivenBlocks(mm)
MMHeap == INSTANCE Heap WITH Bytes <- MMBytes, given <- MMGiven

=============================================================================
