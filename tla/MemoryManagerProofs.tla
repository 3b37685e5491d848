------------------------- MODULE MemoryManagerProofs -------------------------
(***************************************************************************)
(* The first allocator for any number of blocks of any size.  By itself,   *)
(* under any order of calls: the table is right, the loop of alloc() finds *)
(* the first run that fits, and what is handed out is a heap (Heap.tla).   *)
(* And with those who call it (Memory.tla), the kernel for any number of   *)
(* processes, ps, test-mm and programs that are killed: every block handed *)
(* out has one holder, and a request is refused only where there is no     *)
(* room for it.                                                            *)
(***************************************************************************)
EXTENDS Memory, FiniteSetTheorems, SequenceTheorems, WellFoundedInduction, TLAPS

\* The run that begins at block i.
RunOf(m, i) == i .. i + m.contiguous_blocks[i] - 1

MMInv == /\ MMTypeOK
         /\ mm.is_initialized
         /\ NothingFreeBelow
         /\ RunsAreWhole
         /\ FreeBlocksCounted

-----------------------------------------------------------------------------
LEMMA HasLowest ==
  ASSUME NEW D \in SUBSET Nat, D # {}
  PROVE  \E d \in D : \A e \in D : d <= e
<1> DEFINE R == OpToRel(<, Nat)
<1>1. IsWellFoundedOn(R, Nat)
  BY NatLessThanWellFounded
<1>2. \A d, e \in Nat : <<e, d>> \in R <=> e < d
  BY DEF OpToRel
<1> HIDE DEF R
<1>3. PICK d \in D : \A e \in D : <<e, d>> \notin R
  BY <1>1, WFMin
<1>4. \A e \in D : d <= e
  <2> TAKE e \in D
  <2>1. d \in Nat /\ e \in Nat
    OBVIOUS
  <2>2. ~(e < d)
    BY <1>2, <1>3, <2>1, Zenon
  <2> QED BY <2>1, <2>2
<1> QED BY <1>4

LEMMA LowestIsLowest ==
  ASSUME NEW D \in SUBSET Blocks, D # {}
  PROVE  /\ LowestBlock(D) \in D
         /\ \A e \in D : LowestBlock(D) <= e
<1>1. D \in SUBSET Nat
  BY BlocksAssumption DEF Blocks
<1> QED BY <1>1, HasLowest DEF LowestBlock

LEMMA ResetFacts ==
  ASSUME NEW m \in TableType
  PROVE  LET r == ResetFirstFree(m)
         IN  /\ r \in TableType
             /\ r.status = m.status
             /\ r.contiguous_blocks = m.contiguous_blocks
             /\ r.free_blocks = m.free_blocks
             /\ r.is_initialized = m.is_initialized
             /\ \A i \in Blocks : i < r.first_free_index => r.status[i] = USED
<1> DEFINE r == ResetFirstFree(m)
<1>1. \A i \in Blocks : i \in FreeBlocks(m) \/ m.status[i] = USED
  BY DEF FreeBlocks, TableType, FREE, USED
<1>2. CASE FreeBlocks(m) = {}
  <2>1. r = m
    BY <1>2 DEF ResetFirstFree
  <2> QED BY <1>1, <1>2, <2>1
<1>3. CASE FreeBlocks(m) # {}
  <2> DEFINE f == LowestBlock(FreeBlocks(m))
  <2>1. f \in FreeBlocks(m) /\ \A i \in FreeBlocks(m) : f <= i
    BY <1>3, LowestIsLowest DEF FreeBlocks
  <2>2. f \in Blocks
    BY <2>1 DEF FreeBlocks
  <2>3. r = [m EXCEPT !.first_free_index = f]
    BY <1>3 DEF ResetFirstFree
  <2> HIDE DEF f, r
  <2>4. /\ r \in TableType
        /\ r.status = m.status /\ r.contiguous_blocks = m.contiguous_blocks
        /\ r.free_blocks = m.free_blocks /\ r.is_initialized = m.is_initialized
        /\ r.first_free_index = f
    BY <2>2, <2>3 DEF TableType
  <2>5. \A i \in Blocks : i < f => i \notin FreeBlocks(m)
    BY <2>1, <2>2 DEF Blocks
  <2> QED BY <1>1, <2>4, <2>5 DEF r
<1> QED BY <1>2, <1>3

LEMMA SizesCounted ==
  ASSUME NEW size \in CountedSizes
  PROVE  /\ BlocksFor(size) = (size + BLOCK_SIZE - 1) \div BLOCK_SIZE
         /\ size \in Nat
<1> DEFINE q == (size + BLOCK_SIZE - 1) \div BLOCK_SIZE
<1>1. /\ BLOCK_SIZE \in Nat \ {0} /\ UINT32_COUNT \in Nat \ {0}
      /\ (UINT32_COUNT - 1) * BLOCK_SIZE = UINT32_COUNT * BLOCK_SIZE - BLOCK_SIZE
      /\ UINT32_COUNT * BLOCK_SIZE \in Nat
  BY BlocksAssumption
<1>2. size \in Nat /\ size + BLOCK_SIZE <= UINT32_COUNT * BLOCK_SIZE
  BY <1>1 DEF CountedSizes
<1>3. q \in Nat /\ q * BLOCK_SIZE < UINT32_COUNT * BLOCK_SIZE
  BY <1>1, <1>2
<1> HIDE DEF q
<1>4. q < UINT32_COUNT
  <2>1. ASSUME UINT32_COUNT <= q PROVE FALSE
    <3>1. PICK d \in Nat : q = UINT32_COUNT + d
      BY <1>1, <1>3, <2>1
    <3>2. q * BLOCK_SIZE = UINT32_COUNT * BLOCK_SIZE + d * BLOCK_SIZE
          /\ d * BLOCK_SIZE \in Nat
      BY <1>1, <3>1
    <3> QED BY <1>1, <1>3, <3>2
  <2> QED BY <1>1, <1>3, <2>1
<1>5. q % UINT32_COUNT = q
  BY <1>1, <1>3, <1>4
<1> QED BY <1>2, <1>5 DEF BlocksFor, q

LEMMA BlocksForIsPositive ==
  ASSUME NEW size \in CountedSizes, size # 0
  PROVE  BlocksFor(size) \in Nat \ {0}
BY BlocksAssumption, SizesCounted

\* free() finds the block that alloc() has given the address of.
LEMMA AddressOfBlock ==
  ASSUME NEW i \in Blocks
  PROVE  (i * BLOCK_SIZE) \div BLOCK_SIZE = i
BY BlocksAssumption DEF Blocks

LEMMA BlocksFinite ==
  /\ IsFiniteSet(Blocks)
  /\ Cardinality(Blocks) = TOTAL_BLOCK_COUNT
  /\ \A S \in SUBSET Blocks : IsFiniteSet(S) /\ Cardinality(S) \in Nat
<1>1. TOTAL_BLOCK_COUNT \in Nat /\ TOTAL_BLOCK_COUNT # 0
  BY BlocksAssumption
<1>2. IsFiniteSet(Blocks) /\ Cardinality(Blocks) = TOTAL_BLOCK_COUNT
  <2>1. 0 \in Int /\ TOTAL_BLOCK_COUNT - 1 \in Int
    BY <1>1
  <2> QED BY <1>1, <2>1, FS_Interval DEF Blocks
<1> QED BY <1>2, FS_Subset, FS_CardinalityType

\* A run of n blocks has n of them.
LEMMA RunLength ==
  ASSUME NEW i \in Blocks, NEW n \in Nat \ {0}
  PROVE  IsFiniteSet(i .. i + n - 1) /\ Cardinality(i .. i + n - 1) = n
<1>1. i \in Int /\ i + n - 1 \in Int
  BY DEF Blocks
<1>2. i <= i + n - 1 /\ (i + n - 1) - i + 1 = n
  BY DEF Blocks
<1> QED BY <1>1, <1>2, FS_Interval

-----------------------------------------------------------------------------
\* What TakeBlocks() and Free() make of a table, field by field.

LEMMA TakeFacts ==
  ASSUME NEW m \in TableType, NEW n \in Nat \ {0}, NEW at \in Fits(m, n),
         \A i \in Blocks : i < m.first_free_index => m.status[i] = USED
  PROVE  LET r == TakeBlocks(m, at, n)
         IN  /\ r \in TableType
             /\ \A i \in Blocks :
                  /\ r.status[i] = IF i \in at .. at + n - 1
                                   THEN USED ELSE m.status[i]
                  /\ r.contiguous_blocks[i] = IF i = at THEN n
                                              ELSE m.contiguous_blocks[i]
             /\ r.free_blocks = m.free_blocks - n
             /\ r.is_initialized = m.is_initialized
             /\ \A i \in Blocks : i < r.first_free_index => r.status[i] = USED
<1> DEFINE run == at .. at + n - 1
           st == [i \in Blocks |-> IF i \in run THEN USED ELSE m.status[i]]
           cb == [m.contiguous_blocks EXCEPT ![at] = n]
           t == [m EXCEPT !.status = st, !.contiguous_blocks = cb,
                          !.free_blocks = m.free_blocks - n]
           r == TakeBlocks(m, at, n)
<1>1. at \in Blocks
  BY DEF Fits
<1>2. st \in [Blocks -> {FREE, USED}] /\ cb \in [Blocks -> Nat]
  BY <1>1 DEF TableType
<1>3. m.free_blocks - n \in Int
  BY DEF TableType
<1>4. r = IF t.status[t.first_free_index] = FREE THEN t ELSE ResetFirstFree(t)
  <2>1. t = [m EXCEPT !.status = [i \in Blocks |-> IF i \in at .. at + n - 1
                                                  THEN USED ELSE @[i]],
                      !.contiguous_blocks[at] = n,
                      !.free_blocks = @ - n]
    BY DEF TableType
  <2> HIDE DEF t
  <2> QED BY <2>1 DEF TakeBlocks
<1>5. \A i \in Blocks : /\ st[i] = IF i \in run THEN USED ELSE m.status[i]
                        /\ cb[i] = IF i = at THEN n ELSE m.contiguous_blocks[i]
  BY <1>1 DEF TableType
<1> HIDE DEF st, cb, r
<1>6. /\ t \in TableType
      /\ t.status = st /\ t.contiguous_blocks = cb
      /\ t.free_blocks = m.free_blocks - n
      /\ t.is_initialized = m.is_initialized
      /\ t.first_free_index = m.first_free_index
  BY <1>2, <1>3 DEF TableType
<1> HIDE DEF t
<1>7. CASE t.status[t.first_free_index] = FREE
  <2>1. r = t
    BY <1>4, <1>7
  <2>2. \A i \in Blocks : i < t.first_free_index => t.status[i] = USED
    BY <1>5, <1>6
  <2> QED BY <1>5, <1>6, <2>1, <2>2 DEF r
<1>8. CASE t.status[t.first_free_index] # FREE
  <2>1. r = ResetFirstFree(t)
    BY <1>4, <1>8
  <2> QED BY <1>5, <1>6, <2>1, ResetFacts DEF r
<1> QED BY <1>7, <1>8

LEMMA FreeFacts ==
  ASSUME NEW m \in TableType, NEW i \in Heads(m)
  PROVE  LET r == Free(m, i * BLOCK_SIZE)
         IN  /\ r \in TableType
             /\ \A j \in Blocks :
                  /\ r.status[j] = IF j \in RunOf(m, i)
                                   THEN FREE ELSE m.status[j]
                  /\ r.contiguous_blocks[j] = IF j \in RunOf(m, i) THEN 0
                                              ELSE m.contiguous_blocks[j]
             /\ r.free_blocks = m.free_blocks + m.contiguous_blocks[i]
             /\ r.is_initialized = m.is_initialized
             /\ \A j \in Blocks : j < r.first_free_index => r.status[j] = USED
<1> DEFINE n == m.contiguous_blocks[i]
           run == i .. i + n - 1
           st == [j \in Blocks |-> IF j \in run THEN FREE ELSE m.status[j]]
           cb == [j \in Blocks |-> IF j \in run THEN 0
                                   ELSE m.contiguous_blocks[j]]
           t == [m EXCEPT !.status = st, !.contiguous_blocks = cb]
           u == ResetFirstFree(t)
           r == Free(m, i * BLOCK_SIZE)
<1>1. i \in Blocks /\ n > 0
  BY DEF Heads
<1>2. st \in [Blocks -> {FREE, USED}] /\ cb \in [Blocks -> Nat]
  BY DEF TableType
<1>3. n \in Nat
  BY <1>1 DEF TableType
<1>4. r = [u EXCEPT !.free_blocks = @ + n]
  <2>1. t = [m EXCEPT
               !.status = [j \in Blocks |-> IF j \in run THEN FREE ELSE @[j]],
               !.contiguous_blocks = [j \in Blocks |-> IF j \in run THEN 0 ELSE @[j]]]
    BY DEF TableType
  <2>2. n # 0
    BY <1>1, <1>3
  <2>3. (i * BLOCK_SIZE) \div BLOCK_SIZE = i
    BY <1>1, AddressOfBlock
  <2> HIDE DEF t
  <2> QED BY <2>1, <2>2, <2>3 DEF Free
<1>5. RunOf(m, i) = run
  BY DEF RunOf
<1> HIDE DEF st, cb, r
<1>6. /\ t \in TableType
      /\ t.status = st /\ t.contiguous_blocks = cb
      /\ t.free_blocks = m.free_blocks
      /\ t.is_initialized = m.is_initialized
  BY <1>2 DEF TableType
<1> HIDE DEF t
<1>7. /\ u \in TableType
      /\ u.status = st /\ u.contiguous_blocks = cb
      /\ u.free_blocks = m.free_blocks
      /\ u.is_initialized = m.is_initialized
      /\ \A j \in Blocks : j < u.first_free_index => u.status[j] = USED
  BY <1>6, ResetFacts
<1> HIDE DEF u
<1>8. /\ r \in TableType
      /\ r.status = u.status /\ r.contiguous_blocks = u.contiguous_blocks
      /\ r.free_blocks = u.free_blocks + n
      /\ r.is_initialized = u.is_initialized
      /\ r.first_free_index = u.first_free_index
  <2>1. u.free_blocks + n \in Int
    BY <1>3, <1>7 DEF TableType
  <2> HIDE DEF n
  <2> QED BY <1>4, <1>7, <2>1 DEF TableType
<1>9. \A j \in Blocks : /\ st[j] = IF j \in run THEN FREE ELSE m.status[j]
                        /\ cb[j] = IF j \in run THEN 0
                                   ELSE m.contiguous_blocks[j]
  BY DEF st, cb
<1> QED BY <1>5, <1>7, <1>8, <1>9 DEF r

-----------------------------------------------------------------------------
\* The inductive step.

\* A run lies in the table, and its own head is used.
LEMMA RunsLieInTable ==
  ASSUME MMTypeOK, RunsAreWhole, NEW i \in Heads(mm)
  PROVE  /\ i \in Blocks
         /\ mm.contiguous_blocks[i] \in Nat \ {0}
         /\ i \in RunOf(mm, i)
         /\ RunOf(mm, i) \subseteq Blocks
         /\ \A j \in RunOf(mm, i) : mm.status[j] = USED
<1> DEFINE n == mm.contiguous_blocks[i]
<1>1. i \in Blocks /\ n \in Nat \ {0}
  BY DEF Heads, MMTypeOK, TableType
<1>2. i + n <= TOTAL_BLOCK_COUNT /\ \A j \in i .. i + n - 1 : mm.status[j] = USED
  BY DEF RunsAreWhole
<1> HIDE DEF n
<1>3. i \in i .. i + n - 1 /\ i .. i + n - 1 \subseteq Blocks
  BY <1>1, <1>2, BlocksAssumption DEF Blocks
<1> QED BY <1>1, <1>2, <1>3 DEF n, RunOf

\* No two runs have a block in common: the head of the later one would lie
\* in the earlier one, where there is no other head.
LEMMA RunsAreDisjoint ==
  ASSUME MMTypeOK, RunsAreWhole, NEW i \in Heads(mm), NEW k \in Heads(mm), i # k
  PROVE  RunOf(mm, i) \cap RunOf(mm, k) = {}
<1>1. \A d, e \in Heads(mm) : d < e =>
        e \notin RunOf(mm, d)
  BY DEF RunsAreWhole, RunOf, Heads
<1>2. /\ i \in Blocks /\ mm.contiguous_blocks[i] \in Nat
      /\ k \in Blocks /\ mm.contiguous_blocks[k] \in Nat
  BY RunsLieInTable
<1>3. SUFFICES ASSUME NEW j \in RunOf(mm, i), j \in RunOf(mm, k)
               PROVE  FALSE
  OBVIOUS
<1>4. CASE i < k
  BY <1>1, <1>2, <1>3, <1>4 DEF RunOf, Blocks
<1>5. CASE k < i
  BY <1>1, <1>2, <1>3, <1>5 DEF RunOf, Blocks
<1> QED BY <1>2, <1>4, <1>5 DEF Blocks

\* The blocks alloc() takes are new: no run begins among them before.
LEMMA TakeHeads ==
  ASSUME MMInv, NEW n \in Nat \ {0}, NEW at \in Fits(mm, n),
         mm' = TakeBlocks(mm, at, n)
  PROVE  /\ \A j \in at .. at + n - 1 :
              j \notin Heads(mm) /\ mm.contiguous_blocks[j] = 0
         /\ at \notin Heads(mm)
         /\ Heads(mm)' = Heads(mm) \cup {at}
         /\ mm'.contiguous_blocks[at] = n
         /\ \A i \in Heads(mm) : mm'.contiguous_blocks[i] = mm.contiguous_blocks[i]
<1> DEFINE run == at .. at + n - 1
<1> USE DEF MMInv
<1>1. \A i \in Blocks : mm'.contiguous_blocks[i] = IF i = at THEN n
                                                   ELSE mm.contiguous_blocks[i]
  <2>1. mm \in TableType
    BY DEF MMTypeOK
  <2>2. \A i \in Blocks : i < mm.first_free_index => mm.status[i] = USED
    BY DEF NothingFreeBelow
  <2> QED BY <2>1, <2>2, TakeFacts
<1>2. /\ at \in Blocks /\ at \in run /\ run \subseteq Blocks
      /\ \A j \in run : mm.status[j] = FREE
  BY BlocksAssumption DEF Fits, Blocks
<1>3. \A j \in run : j \notin Heads(mm) /\ mm.contiguous_blocks[j] = 0
  <2> TAKE j \in run
  <2>1. j \notin Heads(mm)
    <3> SUFFICES ASSUME j \in Heads(mm) PROVE FALSE
      OBVIOUS
    <3>1. mm.status[j] = USED
      BY RunsLieInTable
    <3> QED BY <1>2, <3>1 DEF FREE, USED
  <2>2. mm.contiguous_blocks[j] \in Nat
    BY <1>2 DEF MMTypeOK, TableType
  <2> QED BY <1>2, <2>1, <2>2 DEF Heads
<1> HIDE DEF run
<1>4. Heads(mm)' = Heads(mm) \cup {at}
  BY <1>1, <1>2 DEF Heads
<1> QED BY <1>1, <1>2, <1>3, <1>4 DEF run, Heads

LEMMA TakeKeeps ==
  ASSUME MMInv, NEW n \in Nat \ {0}, NEW at \in Fits(mm, n),
         mm' = TakeBlocks(mm, at, n)
  PROVE  MMInv'
<1> DEFINE run == at .. at + n - 1
<1> USE DEF MMInv
<1>1. /\ mm' \in TableType
      /\ \A i \in Blocks :
           /\ mm'.status[i] = IF i \in run THEN USED ELSE mm.status[i]
           /\ mm'.contiguous_blocks[i] = IF i = at THEN n
                                         ELSE mm.contiguous_blocks[i]
      /\ mm'.free_blocks = mm.free_blocks - n
      /\ mm'.is_initialized
      /\ \A i \in Blocks : i < mm'.first_free_index => mm'.status[i] = USED
  <2>1. mm \in TableType /\ mm.is_initialized
    BY DEF MMTypeOK
  <2>2. \A i \in Blocks : i < mm.first_free_index => mm.status[i] = USED
    BY DEF NothingFreeBelow
  <2> QED BY <2>1, <2>2, TakeFacts
<1>2. /\ at \in Blocks /\ at + n <= TOTAL_BLOCK_COUNT
      /\ at \in run /\ run \subseteq Blocks
      /\ \A j \in run : mm.status[j] = FREE
  <2>1. at \in Blocks /\ at + n <= TOTAL_BLOCK_COUNT
    BY DEF Fits
  <2>2. \A j \in run : mm.status[j] = FREE
    BY DEF Fits
  <2> QED BY <2>1, <2>2, BlocksAssumption DEF Blocks
<1>3. \A j \in run : j \notin Heads(mm) /\ mm.contiguous_blocks[j] = 0
  BY TakeHeads
<1>4. Heads(mm)' = Heads(mm) \cup {at}
  BY TakeHeads
<1> HIDE DEF run
<1>5. RunsAreWhole'
  <2>1. ASSUME NEW i \in Heads(mm)'
        PROVE  /\ i + mm'.contiguous_blocks[i] <= TOTAL_BLOCK_COUNT
               /\ \A j \in i .. i + mm'.contiguous_blocks[i] - 1 :
                    /\ mm'.status[j] = USED
                    /\ j # i => mm'.contiguous_blocks[j] = 0
    <3>1. CASE i = at
      <4>1. mm'.contiguous_blocks[i] = n
        BY <1>1, <1>2, <3>1
      <4>2. \A j \in run : /\ mm'.status[j] = USED
                           /\ j # at => mm'.contiguous_blocks[j] = 0
        BY <1>1, <1>2, <1>3
      <4> QED BY <1>2, <3>1, <4>1, <4>2 DEF run
    <3>2. CASE i # at
      <4>1. i \in Heads(mm) /\ i \in Blocks
        BY <1>4, <3>2 DEF Heads
      <4>2. mm'.contiguous_blocks[i] = mm.contiguous_blocks[i]
        BY <1>1, <3>2, <4>1
      <4>3. /\ i + mm.contiguous_blocks[i] <= TOTAL_BLOCK_COUNT
            /\ \A j \in i .. i + mm.contiguous_blocks[i] - 1 :
                 /\ mm.status[j] = USED
                 /\ j # i => mm.contiguous_blocks[j] = 0
        BY <4>1 DEF RunsAreWhole
      <4>4. i .. i + mm.contiguous_blocks[i] - 1 \subseteq Blocks \ {at}
        BY <1>2, <4>1, <4>3, RunsLieInTable DEF RunOf, FREE, USED
      <4> QED BY <1>1, <4>2, <4>3, <4>4
    <3> QED BY <3>1, <3>2
  <2>2. ASSUME NEW j \in Blocks, mm'.status[j] = USED
        PROVE  \E i \in Heads(mm)' : j \in i .. i + mm'.contiguous_blocks[i] - 1
    <3>1. CASE j \in run
      BY <1>1, <1>2, <1>4, <3>1 DEF run
    <3>2. CASE j \notin run
      <4>1. mm.status[j] = USED
        BY <1>1, <2>2, <3>2
      <4>2. PICK i \in Heads(mm) : j \in i .. i + mm.contiguous_blocks[i] - 1
        BY <4>1 DEF RunsAreWhole
      <4>3. i # at /\ i \in Blocks
        BY <1>2, <1>3 DEF Heads
      <4>4. mm'.contiguous_blocks[i] = mm.contiguous_blocks[i]
        BY <1>1, <4>3
      <4> QED BY <1>4, <4>2, <4>4
    <3> QED BY <3>1, <3>2
  <2> QED BY <2>1, <2>2 DEF RunsAreWhole
<1>6. FreeBlocksCounted'
  <2>1. FreeBlocks(mm)' = FreeBlocks(mm) \ run
    BY <1>1 DEF FreeBlocks, FREE, USED
  <2>2. FreeBlocks(mm) \cap run = run
    BY <1>2 DEF FreeBlocks
  <2>3. IsFiniteSet(run) /\ Cardinality(run) = n
    BY <1>2, RunLength DEF run
  <2>4. IsFiniteSet(FreeBlocks(mm)) /\ Cardinality(FreeBlocks(mm)) \in Nat
    BY BlocksFinite DEF FreeBlocks
  <2>5. Cardinality(FreeBlocks(mm) \ run) = Cardinality(FreeBlocks(mm)) - n
    BY <2>2, <2>3, <2>4, FS_Difference
  <2> QED BY <1>1, <2>1, <2>5 DEF FreeBlocksCounted
<1> QED BY <1>1, <1>5, <1>6 DEF MMTypeOK, NothingFreeBelow

\* free() ends one run: the others begin where they did, as long as they were.
LEMMA FreeHeads ==
  ASSUME MMInv, NEW i \in Heads(mm), mm' = Free(mm, i * BLOCK_SIZE)
  PROVE  /\ Heads(mm)' = Heads(mm) \ {i}
         /\ \A k \in Heads(mm)' : mm'.contiguous_blocks[k] = mm.contiguous_blocks[k]
<1> DEFINE run == RunOf(mm, i)
<1> USE DEF MMInv
<1>1. \A j \in Blocks : mm'.contiguous_blocks[j] = IF j \in run THEN 0
                                                   ELSE mm.contiguous_blocks[j]
  BY FreeFacts DEF MMTypeOK
<1>2. i \in Blocks /\ i \in run /\ run \subseteq Blocks
  BY RunsLieInTable
<1>3. \A j \in run : j # i => mm.contiguous_blocks[j] = 0
  BY DEF RunsAreWhole, RunOf
<1> HIDE DEF run
<1>4. Heads(mm)' = Heads(mm) \ {i}
  BY <1>1, <1>2, <1>3 DEF Heads
<1> QED BY <1>1, <1>3, <1>4 DEF Heads

LEMMA FreeKeeps ==
  ASSUME MMInv, NEW i \in Heads(mm), mm' = Free(mm, i * BLOCK_SIZE)
  PROVE  MMInv'
<1> DEFINE run == RunOf(mm, i)
<1> USE DEF MMInv
<1>1. /\ mm' \in TableType
      /\ \A j \in Blocks :
           /\ mm'.status[j] = IF j \in run THEN FREE ELSE mm.status[j]
           /\ mm'.contiguous_blocks[j] = IF j \in run THEN 0
                                         ELSE mm.contiguous_blocks[j]
      /\ mm'.free_blocks = mm.free_blocks + mm.contiguous_blocks[i]
      /\ mm'.is_initialized
      /\ \A j \in Blocks : j < mm'.first_free_index => mm'.status[j] = USED
  BY FreeFacts DEF MMTypeOK
<1>2. /\ i \in Blocks /\ mm.contiguous_blocks[i] \in Nat \ {0}
      /\ i \in run /\ run \subseteq Blocks
      /\ \A j \in run : mm.status[j] = USED
  BY RunsLieInTable
<1>3. \A k \in Heads(mm) : k # i => RunOf(mm, k) \cap run = {}
  BY RunsAreDisjoint
<1> HIDE DEF run
<1>5. Heads(mm)' = Heads(mm) \ {i}
  BY FreeHeads
<1>6. \A k \in Heads(mm)' : /\ k \in Heads(mm) /\ k \in Blocks /\ k # i
                            /\ mm'.contiguous_blocks[k] = mm.contiguous_blocks[k]
  BY <1>5, FreeHeads DEF Heads
<1>7. RunsAreWhole'
  <2>1. ASSUME NEW k \in Heads(mm)'
        PROVE  /\ k + mm'.contiguous_blocks[k] <= TOTAL_BLOCK_COUNT
               /\ \A j \in k .. k + mm'.contiguous_blocks[k] - 1 :
                    /\ mm'.status[j] = USED
                    /\ j # k => mm'.contiguous_blocks[j] = 0
    <3>1. /\ k + mm.contiguous_blocks[k] <= TOTAL_BLOCK_COUNT
          /\ \A j \in k .. k + mm.contiguous_blocks[k] - 1 :
               /\ mm.status[j] = USED
               /\ j # k => mm.contiguous_blocks[j] = 0
      BY <1>6 DEF RunsAreWhole
    <3>2. /\ k .. k + mm.contiguous_blocks[k] - 1 \subseteq Blocks
          /\ \A j \in k .. k + mm.contiguous_blocks[k] - 1 : j \notin run
      BY <1>3, <1>6, RunsLieInTable DEF RunOf
    <3> QED BY <1>1, <1>6, <3>1, <3>2
  <2>2. ASSUME NEW j \in Blocks, mm'.status[j] = USED
        PROVE  \E k \in Heads(mm)' : j \in k .. k + mm'.contiguous_blocks[k] - 1
    <3>1. j \notin run /\ mm.status[j] = USED
      BY <1>1, <2>2 DEF FREE, USED
    <3>2. PICK k \in Heads(mm) : j \in k .. k + mm.contiguous_blocks[k] - 1
      BY <3>1 DEF RunsAreWhole
    <3>3. k \in Heads(mm)'
      BY <1>5, <3>1, <3>2 DEF run, RunOf
    <3> QED BY <1>6, <3>2, <3>3
  <2> QED BY <2>1, <2>2 DEF RunsAreWhole
<1>8. FreeBlocksCounted'
  <2>1. FreeBlocks(mm)' = FreeBlocks(mm) \cup run
    BY <1>1, <1>2 DEF FreeBlocks, FREE, USED
  <2>2. FreeBlocks(mm) \cap run = {}
    BY <1>2 DEF FreeBlocks, FREE, USED
  <2>3. IsFiniteSet(run) /\ Cardinality(run) = mm.contiguous_blocks[i]
    BY <1>2, RunLength DEF run, RunOf
  <2>4. IsFiniteSet(FreeBlocks(mm)) /\ Cardinality(FreeBlocks(mm)) \in Nat
    BY BlocksFinite DEF FreeBlocks
  <2>5. Cardinality(FreeBlocks(mm) \cup run)
          = Cardinality(FreeBlocks(mm)) + mm.contiguous_blocks[i]
    <3>1. Cardinality(FreeBlocks(mm) \cap run) = 0
      BY <2>2, FS_EmptySet
    <3>2. Cardinality(FreeBlocks(mm) \cup run)
            = Cardinality(FreeBlocks(mm)) + Cardinality(run)
              - Cardinality(FreeBlocks(mm) \cap run)
      BY <2>3, <2>4, FS_Union
    <3> DEFINE f == Cardinality(FreeBlocks(mm))
               n == mm.contiguous_blocks[i]
    <3>3. f \in Nat /\ n \in Nat
      BY <1>2, <2>4
    <3>4. Cardinality(FreeBlocks(mm) \cup run) = f + n - 0
      BY <2>3, <3>1, <3>2
    <3> HIDE DEF f, n
    <3>5. f + n - 0 = f + n
      BY <3>3
    <3> QED BY <3>4, <3>5 DEF f, n
  <2> QED BY <1>1, <2>1, <2>5 DEF FreeBlocksCounted
<1> QED BY <1>1, <1>7, <1>8 DEF MMTypeOK, NothingFreeBelow

LEMMA StartsRight == MMInit => MMInv
<1> SUFFICES ASSUME MMInit PROVE MMInv
  OBVIOUS
<1>1. mm = [status |-> [i \in Blocks |-> FREE],
            contiguous_blocks |-> [i \in Blocks |-> 0],
            first_free_index |-> 0, free_blocks |-> TOTAL_BLOCK_COUNT,
            is_initialized |-> TRUE]
  BY DEF MMInit, CreateMM, NoTable
<1>2. mm \in TableType
  BY <1>1, BlocksAssumption DEF TableType, Blocks
<1>3. Heads(mm) = {}
  BY <1>1 DEF Heads
<1>4. FreeBlocks(mm) = Blocks
  BY <1>1 DEF FreeBlocks
<1>5. \A i \in Blocks : mm.status[i] # USED
  BY <1>1 DEF FREE, USED
<1>6. NothingFreeBelow
  BY <1>1 DEF NothingFreeBelow, Blocks
<1>7. RunsAreWhole
  BY <1>3, <1>5 DEF RunsAreWhole
<1>8. FreeBlocksCounted
  BY <1>1, <1>4, BlocksFinite DEF FreeBlocksCounted
<1> QED BY <1>1, <1>2, <1>6, <1>7, <1>8 DEF MMInv, MMTypeOK

\* alloc() changes nothing, or takes a run of free blocks.
LEMMA AllocTakes ==
  ASSUME MMAlloc
  PROVE  \/ mm' = mm
         \/ \E n \in Nat \ {0} : \E at \in Fits(mm, n) : mm' = TakeBlocks(mm, at, n)
<1>1. PICK size \in CountedSizes : mm' = Alloc(mm, size).m
  BY DEF MMAlloc
<1> DEFINE n == BlocksFor(size)
           at == FirstFit(mm, n)
           refused == size = 0 \/ ~mm.is_initialized \/ n > mm.free_blocks \/ at = NULL
<1>2. CASE refused
  BY <1>1, <1>2 DEF Alloc
<1>3. CASE ~refused
  <2>1. mm' = TakeBlocks(mm, at, n)
    BY <1>1, <1>3 DEF Alloc
  <2>2. n \in Nat \ {0}
    BY <1>3, BlocksForIsPositive
  <2>3. at \in Fits(mm, n)
    BY <1>3, LowestIsLowest DEF FirstFit, Fits
  <2> HIDE DEF n, at
  <2> QED BY <2>1, <2>2, <2>3
<1> QED BY <1>2, <1>3

LEMMA StepsKeep == MMInv /\ [MMAlloc \/ MMFree]_mm => MMInv'
<1> SUFFICES ASSUME MMInv, [MMAlloc \/ MMFree]_mm PROVE MMInv'
  OBVIOUS
<1>1. CASE MMAlloc
  <2>1. CASE mm' = mm
    BY <2>1 DEF MMInv, MMTypeOK, NothingFreeBelow, RunsAreWhole,
                FreeBlocksCounted, Heads, FreeBlocks
  <2> QED BY <1>1, <2>1, AllocTakes, TakeKeeps
<1>2. CASE MMFree
  <2>1. PICK i \in Heads(mm) : mm' = Free(mm, i * BLOCK_SIZE)
    BY <1>2 DEF MMFree
  <2> QED BY <2>1, FreeKeeps
<1>3. CASE UNCHANGED mm
  BY <1>3 DEF MMInv, MMTypeOK, NothingFreeBelow, RunsAreWhole,
              FreeBlocksCounted, Heads, FreeBlocks
<1> QED BY <1>1, <1>2, <1>3

LEMMA MMInvariant == MMSpec => []MMInv
BY StartsRight, StepsKeep, PTL DEF MMSpec

-----------------------------------------------------------------------------
\* The hint of alloc() never stands above a free block, whatever is handed
\* out and given back: no room is hidden from the search.
THEOREM HintHidesNothing == MMSpec => []NothingFreeBelow
<1>1. MMInv => NothingFreeBelow
  BY DEF MMInv
<1> QED BY <1>1, MMInvariant, PTL

\* The used blocks are the runs handed out, so that free(), which is told
\* where a run begins and not how long it is, gives back that run alone.
THEOREM RunsStayWhole == MMSpec => []RunsAreWhole
<1>1. MMInv => RunsAreWhole
  BY DEF MMInv
<1> QED BY <1>1, MMInvariant, PTL

\* The counter by which alloc() turns a request down, and from which mem
\* prints, is the number of free blocks.
THEOREM FreeBlocksAreCounted == MMSpec => []FreeBlocksCounted
<1>1. MMInv => FreeBlocksCounted
  BY DEF MMInv
<1> QED BY <1>1, MMInvariant, PTL

-----------------------------------------------------------------------------
(* The loop of alloc() is a function by recursion on the block it has come *)
(* to.  It has one value only, the next run that fits, as a second one     *)
(* would have to differ from the first at a last block.                    *)

UsedIn(m, i, n) == {j \in i .. i + n - 1 : m.status[j] = USED}

\* One round of the loop, over what the rounds after it find.
Round(m, n, f) ==
  [i \in 0 .. TOTAL_BLOCK_COUNT + n |->
     IF i > TOTAL_BLOCK_COUNT - n THEN NULL
     ELSE IF UsedIn(m, i, n) = {} THEN i
     ELSE f[LowestBlock(UsedIn(m, i, n)) + 1]]

Later(m, n, i) == {f \in Fits(m, n) : f >= i}

NextFit(m, n) ==
  [i \in 0 .. TOTAL_BLOCK_COUNT + n |->
     IF Later(m, n, i) = {} THEN NULL ELSE LowestBlock(Later(m, n, i))]

LEMMA ScanRepeatsRound ==
  ASSUME NEW m, NEW n
  PROVE  Scan(m, n) = (CHOOSE f : f = Round(m, n, f))[m.first_free_index]
BY DEF Scan, Round, UsedIn

\* The used block a round ends at lies in the table, and no run that fits
\* begins between the block the round is at and that one.
LEMMA NothingJumped ==
  ASSUME NEW m \in TableType, NEW n \in 1 .. TOTAL_BLOCK_COUNT,
         NEW i \in 0 .. TOTAL_BLOCK_COUNT + n,
         i <= TOTAL_BLOCK_COUNT - n, UsedIn(m, i, n) # {}
  PROVE  LET k == LowestBlock(UsedIn(m, i, n))
         IN  /\ k + 1 \in i + 1 .. TOTAL_BLOCK_COUNT
             /\ Later(m, n, i) = Later(m, n, k + 1)
<1> DEFINE U == UsedIn(m, i, n)
           k == LowestBlock(U)
<1>1. TOTAL_BLOCK_COUNT \in Nat /\ n \in Nat /\ n >= 1 /\ i \in Nat
  BY BlocksAssumption
<1>2. U \subseteq Blocks
  BY <1>1 DEF UsedIn, Blocks
<1>3. k \in U
  BY <1>2, LowestIsLowest
<1>4. k \in i .. i + n - 1 /\ m.status[k] = USED
  BY <1>3 DEF UsedIn
<1> HIDE DEF U, k
<1>5. k \in Nat /\ i <= k /\ k <= i + n - 1
  BY <1>1, <1>4
<1>6. ASSUME NEW f \in Fits(m, n), f >= i
      PROVE  f >= k + 1
  <2>1. f \in Nat /\ \A j \in f .. f + n - 1 : m.status[j] = FREE
    BY DEF Fits, Blocks
  <2>2. CASE f <= k
    <3>1. k \in f .. f + n - 1
      BY <1>1, <1>5, <1>6, <2>1, <2>2
    <3> QED BY <1>4, <2>1, <3>1 DEF FREE, USED
  <2> QED BY <1>5, <2>1, <2>2
<1>7. \A f \in Fits(m, n) : f >= k + 1 => f >= i
  BY <1>1, <1>5 DEF Fits, Blocks
<1>8. Later(m, n, i) = Later(m, n, k + 1)
  BY <1>6, <1>7 DEF Later
<1>9. k + 1 \in i + 1 .. TOTAL_BLOCK_COUNT
  BY <1>1, <1>5
<1> QED BY <1>8, <1>9 DEF k, U

LEMMA NextFitIsRound ==
  ASSUME NEW m \in TableType, NEW n \in 1 .. TOTAL_BLOCK_COUNT
  PROVE  NextFit(m, n) = Round(m, n, NextFit(m, n))
<1>1. TOTAL_BLOCK_COUNT \in Nat /\ n \in Nat /\ n >= 1
  BY BlocksAssumption
<1>2. ASSUME NEW i \in 0 .. TOTAL_BLOCK_COUNT + n
      PROVE  NextFit(m, n)[i] =
               IF i > TOTAL_BLOCK_COUNT - n THEN NULL
               ELSE IF UsedIn(m, i, n) = {} THEN i
               ELSE NextFit(m, n)[LowestBlock(UsedIn(m, i, n)) + 1]
  <2>1. NextFit(m, n)[i] = IF Later(m, n, i) = {} THEN NULL
                           ELSE LowestBlock(Later(m, n, i))
    BY DEF NextFit
  <2>2. CASE i > TOTAL_BLOCK_COUNT - n
    <3>1. Later(m, n, i) = {}
      BY <1>1, <2>2 DEF Later, Fits, Blocks
    <3> QED BY <2>1, <2>2, <3>1
  <2>3. CASE i <= TOTAL_BLOCK_COUNT - n /\ UsedIn(m, i, n) = {}
    <3>1. i \in Blocks /\ i .. i + n - 1 \subseteq Blocks
      BY <1>1, <2>3 DEF Blocks
    <3>2. \A j \in i .. i + n - 1 : m.status[j] = FREE
      BY <2>3, <3>1 DEF UsedIn, TableType
    <3>3. i \in Later(m, n, i) /\ Later(m, n, i) \in SUBSET Blocks
      BY <1>1, <2>3, <3>1, <3>2 DEF Later, Fits
    <3>4. LowestBlock(Later(m, n, i)) \in Later(m, n, i)
          /\ LowestBlock(Later(m, n, i)) <= i
      BY <3>3, LowestIsLowest
    <3>5. LowestBlock(Later(m, n, i)) >= i /\ LowestBlock(Later(m, n, i)) \in Nat
      BY <3>4 DEF Later, Fits, Blocks
    <3>6. LowestBlock(Later(m, n, i)) = i
      BY <3>4, <3>5
    <3> QED BY <1>1, <2>1, <2>3, <3>3, <3>6
  <2>4. CASE i <= TOTAL_BLOCK_COUNT - n /\ UsedIn(m, i, n) # {}
    <3> DEFINE k == LowestBlock(UsedIn(m, i, n))
    <3>1. k + 1 \in i + 1 .. TOTAL_BLOCK_COUNT /\ Later(m, n, i) = Later(m, n, k + 1)
      BY <2>4, NothingJumped
    <3> HIDE DEF k
    <3>2. k + 1 \in 0 .. TOTAL_BLOCK_COUNT + n
      BY <1>1, <3>1
    <3>3. NextFit(m, n)[k + 1] = IF Later(m, n, k + 1) = {} THEN NULL
                                 ELSE LowestBlock(Later(m, n, k + 1))
      BY <3>2 DEF NextFit
    <3>4. NextFit(m, n)[i] = NextFit(m, n)[k + 1]
      BY <2>1, <3>1, <3>3
    <3>5. ~(i > TOTAL_BLOCK_COUNT - n)
      BY <1>1, <2>4
    <3> QED BY <2>4, <3>4, <3>5 DEF k
  <2> QED BY <1>1, <2>2, <2>3, <2>4
<1>3. NextFit(m, n) = [i \in 0 .. TOTAL_BLOCK_COUNT + n |-> NextFit(m, n)[i]]
  BY DEF NextFit
<1> QED BY <1>2, <1>3 DEF Round

LEMMA RoundHasOneValue ==
  ASSUME NEW m \in TableType, NEW n \in 1 .. TOTAL_BLOCK_COUNT,
         NEW f, f = Round(m, n, f), NEW i \in 0 .. TOTAL_BLOCK_COUNT + n
  PROVE  f[i] = NextFit(m, n)[i]
<1> DEFINE Top == TOTAL_BLOCK_COUNT + n
           g == NextFit(m, n)
           Left == {Top - j : j \in {j \in 0 .. Top : f[j] # g[j]}}
           R == OpToRel(<, Nat)
<1>1. TOTAL_BLOCK_COUNT \in Nat /\ n \in Nat /\ n >= 1 /\ Top \in Nat
  BY BlocksAssumption
<1>2. g = Round(m, n, g)
  BY NextFitIsRound
<1> HIDE DEF g
<1>3. SUFFICES ASSUME Left # {} PROVE FALSE
  <2>1. i \notin {j \in 0 .. Top : f[j] # g[j]}
    BY <1>3
  <2> QED BY <2>1 DEF g
<1>4. IsWellFoundedOn(R, Nat) /\ \A d, e \in Nat : <<e, d>> \in R <=> e < d
  BY NatLessThanWellFounded DEF OpToRel
<1>5. Left \subseteq Nat
  BY <1>1
<1> HIDE DEF R
<1>6. PICK d \in Left : \A e \in Left : <<e, d>> \notin R
  <2> HIDE DEF Left
  <2> QED BY <1>3, <1>4, <1>5, WFMin
<1>7. PICK j \in 0 .. Top : d = Top - j /\ f[j] # g[j]
  BY <1>6
<1>8. \A h \in 0 .. Top : h > j => f[h] = g[h]
  <2> SUFFICES ASSUME NEW h \in 0 .. Top, h > j, f[h] # g[h] PROVE FALSE
    OBVIOUS
  <2>1. Top - h \in Left
    OBVIOUS
  <2>2. Top - h \in Nat /\ d \in Nat /\ Top - h < d
    BY <1>1, <1>7
  <2> HIDE DEF Left
  <2> QED BY <1>4, <1>6, <2>1, <2>2
<1> HIDE DEF Left
<1>9. /\ f[j] = IF j > TOTAL_BLOCK_COUNT - n THEN NULL
                ELSE IF UsedIn(m, j, n) = {} THEN j
                ELSE f[LowestBlock(UsedIn(m, j, n)) + 1]
      /\ g[j] = IF j > TOTAL_BLOCK_COUNT - n THEN NULL
                ELSE IF UsedIn(m, j, n) = {} THEN j
                ELSE g[LowestBlock(UsedIn(m, j, n)) + 1]
  <2> DEFINE Next(h) == IF j > TOTAL_BLOCK_COUNT - n THEN NULL
                        ELSE IF UsedIn(m, j, n) = {} THEN j
                        ELSE h[LowestBlock(UsedIn(m, j, n)) + 1]
  <2>1. \A h : Round(m, n, h)[j] = Next(h)
    BY DEF Round
  <2> HIDE DEF Next
  <2>2. f[j] = Next(f) /\ g[j] = Next(g)
    BY <1>2, <2>1
  <2> QED BY <2>2 DEF Next
<1>10. j <= TOTAL_BLOCK_COUNT - n /\ UsedIn(m, j, n) # {}
  BY <1>1, <1>7, <1>9
<1> DEFINE k == LowestBlock(UsedIn(m, j, n))
<1>11. k + 1 \in j + 1 .. TOTAL_BLOCK_COUNT
  BY <1>10, NothingJumped
<1>12. f[j] = f[k + 1] /\ g[j] = g[k + 1]
  BY <1>1, <1>9, <1>10
<1> HIDE DEF k
<1>13. k + 1 \in 0 .. Top /\ k + 1 > j
  BY <1>1, <1>11
<1> QED BY <1>7, <1>8, <1>12, <1>13

\* The search begins at the hint, below which nothing is free, so that no run
\* that fits begins there.
LEMMA InvScans == MMInv => ScanIsFirstFit
<1> SUFFICES ASSUME MMInv, NEW n \in 1 .. TOTAL_BLOCK_COUNT
             PROVE  Scan(mm, n) = FirstFit(mm, n)
  BY DEF ScanIsFirstFit
<1> DEFINE f == CHOOSE f : f = Round(mm, n, f)
           hint == mm.first_free_index
<1>1. mm \in TableType /\ hint \in Blocks /\ n \in Nat /\ n >= 1
  BY BlocksAssumption DEF MMInv, MMTypeOK, TableType
<1>2. f = Round(mm, n, f)
  <2>1. \E h : h = Round(mm, n, h)
    BY <1>1, NextFitIsRound
  <2> QED BY <2>1
<1> HIDE DEF f
<1>3. hint \in 0 .. TOTAL_BLOCK_COUNT + n
  BY <1>1, BlocksAssumption DEF Blocks
<1>4. f[hint] = NextFit(mm, n)[hint]
  BY <1>1, <1>2, <1>3, RoundHasOneValue
<1>5. Later(mm, n, hint) = Fits(mm, n)
  <2>1. ASSUME NEW i \in Fits(mm, n)
        PROVE  i >= hint
    <3>1. i \in Blocks /\ i \in i .. i + n - 1
      BY <1>1 DEF Fits, Blocks
    <3>2. mm.status[i] = FREE
      BY <3>1 DEF Fits
    <3>3. ~(i < hint)
      BY <3>1, <3>2 DEF MMInv, NothingFreeBelow, FREE, USED
    <3> QED BY <1>1, <3>1, <3>3 DEF Blocks
  <2> QED BY <2>1 DEF Later
<1>6. NextFit(mm, n)[hint] = FirstFit(mm, n)
  BY <1>3, <1>5 DEF NextFit, FirstFit
<1> QED BY <1>4, <1>6, ScanRepeatsRound DEF f

\* alloc() finds the first run that is long enough, from wherever its hint
\* stands and over whatever runs it jumps.
THEOREM ScanFindsFirstFit == MMSpec => []ScanIsFirstFit
BY InvScans, MMInvariant, PTL

-----------------------------------------------------------------------------
(* The refinement of Heap: alloc() hands out a block of the heap that      *)
(* touches no other, or none, and free() takes back one block.             *)

Piece(i, n) == [at |-> i * BLOCK_SIZE, size |-> n * BLOCK_SIZE]

\* Blocks and bytes: a run of blocks is a range of bytes.
LEMMA BytesGrow ==
  ASSUME NEW a \in Nat, NEW b \in Nat, a <= b
  PROVE  /\ a * BLOCK_SIZE \in Nat /\ b * BLOCK_SIZE \in Nat
         /\ a * BLOCK_SIZE <= b * BLOCK_SIZE
<1> DEFINE d == b - a
<1>1. BLOCK_SIZE \in Nat
  BY BlocksAssumption
<1>2. d \in Nat /\ b = a + d
  OBVIOUS
<1> HIDE DEF d
<1>3. (a + d) * BLOCK_SIZE = a * BLOCK_SIZE + d * BLOCK_SIZE
  BY <1>1, <1>2
<1>4. a * BLOCK_SIZE \in Nat /\ d * BLOCK_SIZE \in Nat
  BY <1>1, <1>2
<1> QED BY <1>2, <1>3, <1>4

LEMMA EndOfPiece ==
  ASSUME NEW i \in Nat, NEW n \in Nat
  PROVE  i * BLOCK_SIZE + n * BLOCK_SIZE = (i + n) * BLOCK_SIZE
BY BlocksAssumption

LEMMA PieceInHeap ==
  ASSUME NEW i \in Nat, NEW n \in Nat \ {0}, i + n <= TOTAL_BLOCK_COUNT
  PROVE  /\ MMHeap!Span(Piece(i, n)) # {}
         /\ MMHeap!Span(Piece(i, n)) \subseteq MMBytes
<1> DEFINE a == i * BLOCK_SIZE
           s == n * BLOCK_SIZE
           top == TOTAL_BLOCK_COUNT * BLOCK_SIZE
<1>1. a \in Nat /\ s \in Nat /\ s >= 1 /\ top \in Nat
  BY BlocksAssumption
<1>2. a + s <= top
  BY BytesGrow, EndOfPiece, BlocksAssumption
<1>3. MMHeap!Span(Piece(i, n)) = a .. a + s - 1
  BY DEF MMHeap!Span, Piece
<1>4. MMBytes = 0 .. top - 1
  BY DEF MMBytes
<1> HIDE DEF a, s, top
<1>5. a \in a .. a + s - 1 /\ a .. a + s - 1 \subseteq 0 .. top - 1
  BY <1>1, <1>2
<1> QED BY <1>3, <1>4, <1>5

LEMMA PiecesApart ==
  ASSUME NEW i \in Nat, NEW n \in Nat, NEW j \in Nat, NEW k \in Nat, i + n <= j
  PROVE  /\ MMHeap!Apart(Piece(i, n), Piece(j, k))
         /\ MMHeap!Apart(Piece(j, k), Piece(i, n))
<1> DEFINE a == i * BLOCK_SIZE
           s == n * BLOCK_SIZE
           b == j * BLOCK_SIZE
           t == k * BLOCK_SIZE
<1>1. a \in Nat /\ s \in Nat /\ b \in Nat /\ t \in Nat
  BY BlocksAssumption
<1>2. a + s <= b
  BY BytesGrow, EndOfPiece
<1>3. /\ MMHeap!Span(Piece(i, n)) = a .. a + s - 1
      /\ MMHeap!Span(Piece(j, k)) = b .. b + t - 1
  BY DEF MMHeap!Span, Piece
<1> HIDE DEF a, s, b, t
<1>4. (a .. a + s - 1) \cap (b .. b + t - 1) = {}
  BY <1>1, <1>2
<1> QED BY <1>3, <1>4 DEF MMHeap!Apart

LEMMA PiecesDiffer ==
  ASSUME NEW i \in Blocks, NEW j \in Blocks, NEW n, NEW k, Piece(i, n) = Piece(j, k)
  PROVE  i = j
<1>1. i * BLOCK_SIZE = j * BLOCK_SIZE
  BY DEF Piece
<1> QED BY <1>1, AddressOfBlock

GivenIsPieces == MMGiven = {Piece(i, mm.contiguous_blocks[i]) : i \in Heads(mm)}

LEMMA GivenAsPieces == GivenIsPieces /\ GivenIsPieces'
BY DEF GivenIsPieces, MMGiven, GivenBlocks, Piece

LEMMA TakeAddsPiece ==
  ASSUME MMInv, NEW n \in Nat \ {0}, NEW at \in Fits(mm, n),
         mm' = TakeBlocks(mm, at, n)
  PROVE  MMGiven' = MMGiven \cup {Piece(at, n)} /\ Piece(at, n) \notin MMGiven
<1> DEFINE b == Piece(at, n)
<1>1. /\ Heads(mm)' = Heads(mm) \cup {at} /\ at \notin Heads(mm)
      /\ mm'.contiguous_blocks[at] = n
      /\ \A i \in Heads(mm) : mm'.contiguous_blocks[i] = mm.contiguous_blocks[i]
  BY TakeHeads
<1>2. at \in Nat /\ at \in Blocks /\ at + n <= TOTAL_BLOCK_COUNT
  BY DEF Fits, Blocks
<1>3. MMGiven' = MMGiven \cup {b}
  BY <1>1, GivenAsPieces DEF GivenIsPieces
<1>4. b \notin MMGiven
  BY <1>1, <1>2, GivenAsPieces, PiecesDiffer DEF GivenIsPieces, Heads
<1> QED BY <1>3, <1>4

LEMMA TakeGives ==
  ASSUME MMInv, NEW n \in Nat \ {0}, NEW at \in Fits(mm, n),
         mm' = TakeBlocks(mm, at, n)
  PROVE  MMHeap!Give
<1> DEFINE b == Piece(at, n)
<1>1. at \in Nat /\ at \in Blocks /\ at + n <= TOTAL_BLOCK_COUNT
  BY DEF Fits, Blocks
<1>2. MMGiven' = MMGiven \cup {b} /\ b \notin MMGiven
  BY TakeAddsPiece
<1>3. ASSUME NEW c \in MMGiven PROVE MMHeap!Apart(b, c)
  <2>1. PICK i \in Heads(mm) : c = Piece(i, mm.contiguous_blocks[i])
    BY GivenAsPieces DEF GivenIsPieces
  <2> DEFINE k == mm.contiguous_blocks[i]
  <2>2. i \in Nat /\ k \in Nat \ {0}
    BY RunsLieInTable DEF MMInv, Blocks
  <2>3. RunOf(mm, i) = i .. i + k - 1 /\ \A j \in i .. i + k - 1 : mm.status[j] = USED
    BY RunsLieInTable DEF MMInv, RunOf
  <2>4. \A j \in at .. at + n - 1 : mm.status[j] = FREE
    BY DEF Fits
  <2> HIDE DEF k
  <2>5. i \notin at .. at + n - 1 /\ at \notin i .. i + k - 1
    BY <2>2, <2>3, <2>4, <1>1 DEF FREE, USED
  <2>6. i + k <= at \/ at + n <= i
    BY <2>2, <2>5, <1>1
  <2> QED BY <2>1, <2>2, <2>6, <1>1, PiecesApart DEF k
<1>4. MMHeap!Span(b) # {} /\ MMHeap!Span(b) \subseteq MMBytes
  BY <1>1, PieceInHeap
<1> HIDE DEF b
<1> QED BY <1>2, <1>3, <1>4 DEF MMHeap!Give

LEMMA FreeDropsPiece ==
  ASSUME MMInv, NEW i \in Heads(mm), mm' = Free(mm, i * BLOCK_SIZE)
  PROVE  /\ Piece(i, mm.contiguous_blocks[i]) \in MMGiven
         /\ MMGiven' = MMGiven \ {Piece(i, mm.contiguous_blocks[i])}
<1> DEFINE b == Piece(i, mm.contiguous_blocks[i])
<1>1. /\ Heads(mm)' = Heads(mm) \ {i}
      /\ \A k \in Heads(mm)' : mm'.contiguous_blocks[k] = mm.contiguous_blocks[k]
  BY FreeHeads
<1>2. b \in MMGiven
  BY GivenAsPieces DEF GivenIsPieces
<1>3. \A k \in Heads(mm) : Piece(k, mm.contiguous_blocks[k]) = b => k = i
  BY PiecesDiffer DEF Heads
<1> DEFINE B(k) == Piece(k, mm.contiguous_blocks[k])
<1>4. MMGiven' = {B(k) : k \in Heads(mm) \ {i}}
  BY <1>1, GivenAsPieces DEF GivenIsPieces
<1>5. MMGiven = {B(k) : k \in Heads(mm)}
  BY GivenAsPieces DEF GivenIsPieces
<1>6. \A k \in Heads(mm) : B(k) = b => k = i
  BY <1>3
<1>7. b = B(i)
  OBVIOUS
<1> HIDE DEF B, b
<1>8. MMGiven' = MMGiven \ {b}
  BY <1>4, <1>5, <1>6, <1>7
<1> QED BY <1>2, <1>8 DEF b

LEMMA FreeTakesBack ==
  ASSUME MMInv, NEW i \in Heads(mm), mm' = Free(mm, i * BLOCK_SIZE)
  PROVE  MMHeap!TakeBack
BY FreeDropsPiece DEF MMHeap!TakeBack

\* What alloc() and free() promise to the kernel, to ps and to test-mm: every
\* block handed out is a piece of the heap of its own and stays so until it is
\* given back, for any number of blocks of any size.
THEOREM HeapImplemented == MMSpec => MMHeap!Spec
<1>1. MMInit => MMHeap!Init
  <2> SUFFICES ASSUME MMInit PROVE MMHeap!Init
    OBVIOUS
  <2>1. \A i \in Blocks : mm.contiguous_blocks[i] = 0
    BY DEF MMInit, CreateMM, NoTable
  <2>2. Heads(mm) = {}
    BY <2>1 DEF Heads
  <2> QED BY <2>2 DEF MMHeap!Init, MMGiven, GivenBlocks
<1>2. MMInv /\ [MMAlloc \/ MMFree]_mm => [MMHeap!Give \/ MMHeap!TakeBack]_MMGiven
  <2> SUFFICES ASSUME MMInv, [MMAlloc \/ MMFree]_mm
               PROVE  MMHeap!Give \/ MMHeap!TakeBack \/ UNCHANGED MMGiven
    OBVIOUS
  <2>1. mm' = mm => UNCHANGED MMGiven
    BY DEF MMGiven, GivenBlocks, Heads
  <2>2. CASE MMAlloc
    BY <2>1, <2>2, AllocTakes, TakeGives
  <2>3. CASE MMFree
    BY <2>3, FreeTakesBack DEF MMFree
  <2> QED BY <2>1, <2>2, <2>3
<1> QED BY <1>1, <1>2, MMInvariant, PTL DEF MMSpec, MMHeap!Spec

-----------------------------------------------------------------------------
(* Those who call the first allocator (Memory.tla): every block handed out *)
(* has exactly one holder, a part of the kernel's job, the list of ps,     *)
(* test-mm, a slot of the process table or a program that was killed.      *)

Pieces == [at : Nat, size : Nat]
Asked == [at : Nat, size : Nat, asked : Nat]

\* The blocks of a sequence, and whether none is in it twice.
Plains(q) == {Plain(q[i]) : i \in DOMAIN q}
Once(q) == \A i, j \in DOMAIN q : Plain(q[i]) = Plain(q[j]) => i = j

LEMMA NoPlains == Plains(<<>>) = {} /\ Once(<<>>)
BY DEF Plains, Once

LEMMA PlainOfPiece == \A b \in Pieces : Plain(b) = b
BY DEF Pieces, Plain

LEMMA PlainsOfPieces ==
  ASSUME NEW q \in Seq(Pieces)
  PROVE  Plains(q) = ToSet(q) /\ Plains(q) \subseteq Pieces
BY PlainOfPiece DEF Plains, ToSet

LEMMA PlainsOfConcat ==
  ASSUME NEW S, NEW q \in Seq(S), NEW r \in Seq(S)
  PROVE  Plains(q \o r) = Plains(q) \cup Plains(r)
<1>1. /\ q \o r \in Seq(S) /\ Len(q) \in Nat /\ Len(r) \in Nat
      /\ DOMAIN q = 1 .. Len(q) /\ DOMAIN r = 1 .. Len(r)
      /\ DOMAIN (q \o r) = 1 .. Len(q) + Len(r)
      /\ \A i \in 1 .. Len(q) + Len(r) :
           (q \o r)[i] = IF i <= Len(q) THEN q[i] ELSE r[i - Len(q)]
  BY ConcatProperties, LenProperties
<1>2. \A i \in DOMAIN q : i \in DOMAIN (q \o r) /\ (q \o r)[i] = q[i]
  BY <1>1
<1>3. \A i \in DOMAIN r : i + Len(q) \in DOMAIN (q \o r)
                          /\ (q \o r)[i + Len(q)] = r[i]
  BY <1>1
<1>4. \A i \in DOMAIN (q \o r) : \/ i \in DOMAIN q /\ (q \o r)[i] = q[i]
                                 \/ /\ i - Len(q) \in DOMAIN r
                                    /\ (q \o r)[i] = r[i - Len(q)]
  BY <1>1
<1> QED BY <1>2, <1>3, <1>4 DEF Plains

LEMMA PlainsOfAppend ==
  ASSUME NEW S, NEW q \in Seq(S), NEW e \in S
  PROVE  /\ Plains(Append(q, e)) = Plains(q) \cup {Plain(e)}
         /\ Once(q) /\ Plain(e) \notin Plains(q) => Once(Append(q, e))
<1> DEFINE r == Append(q, e)
<1>1. /\ Len(q) \in Nat /\ DOMAIN q = 1 .. Len(q)
      /\ DOMAIN r = 1 .. Len(q) + 1
      /\ \A i \in 1 .. Len(q) : r[i] = q[i]
      /\ r[Len(q) + 1] = e
  BY AppendProperties, LenProperties
<1> HIDE DEF r
<1>2. \A i \in DOMAIN r : (i \in DOMAIN q /\ r[i] = q[i]) \/ i = Len(q) + 1
  BY <1>1
<1>3. \A i \in DOMAIN q : i \in DOMAIN r /\ r[i] = q[i]
  BY <1>1
<1>4. Len(q) + 1 \in DOMAIN r /\ r[Len(q) + 1] = e
  BY <1>1
<1>5. Plains(r) = Plains(q) \cup {Plain(e)}
  BY <1>2, <1>3, <1>4 DEF Plains
<1>6. ASSUME Once(q), Plain(e) \notin Plains(q)
      PROVE  Once(r)
  BY <1>2, <1>4, <1>6 DEF Once, Plains
<1> QED BY <1>5, <1>6 DEF r

LEMMA PlainsOfTail ==
  ASSUME NEW S, NEW q \in Seq(S), q # <<>>, Once(q)
  PROVE  /\ Plain(Head(q)) \in Plains(q)
         /\ Plains(Tail(q)) = Plains(q) \ {Plain(Head(q))}
         /\ Once(Tail(q))
<1> DEFINE t == Tail(q)
<1>1. /\ Len(q) \in Nat \ {0} /\ DOMAIN q = 1 .. Len(q)
      /\ DOMAIN t = 1 .. Len(q) - 1 /\ Head(q) = q[1]
      /\ \A i \in 1 .. Len(q) - 1 : t[i] = q[i + 1]
  BY HeadTailProperties, LenProperties, EmptySeq
<1> HIDE DEF t
<1>2. \A i \in DOMAIN t : i + 1 \in DOMAIN q \ {1} /\ t[i] = q[i + 1]
  BY <1>1
<1>3. \A i \in DOMAIN q \ {1} : i - 1 \in DOMAIN t /\ t[i - 1] = q[i]
  BY <1>1
<1>4. 1 \in DOMAIN q /\ \A i \in DOMAIN t : i \in Int
  BY <1>1
<1>5. Plains(t) = {Plain(q[i]) : i \in DOMAIN q \ {1}}
  BY <1>2, <1>3 DEF Plains
<1>6. Plains(t) = Plains(q) \ {Plain(q[1])}
  BY <1>4, <1>5 DEF Plains, Once
<1>7. Once(t)
  BY <1>2, <1>4 DEF Once
<1> QED BY <1>1, <1>4, <1>6, <1>7 DEF t, Plains

\* The kernel gives back what it holds in another order, and all of it.
LEMMA FreeOrderIsAll ==
  ASSUME NEW q \in Seq(Pieces)
  PROVE  /\ FreeOrder(q) \in Seq(Pieces)
         /\ Plains(FreeOrder(q)) = Plains(q)
         /\ Once(q) => Once(FreeOrder(q))
<1> DEFINE n == Len(q)
           k == IF n < 3 THEN n ELSE 3
           a == SubSeq(q, 4, n)
           c == SubSeq(q, 1, k)
           d == Reverse(c)
           f == FreeOrder(q)
           p(i) == IF i <= n - k THEN i + k ELSE n - i + 1
           inv(j) == IF j <= k THEN n - j + 1 ELSE j - k
<1>1. n \in Nat /\ k \in Nat /\ k <= n /\ k <= 3 /\ (n > k => k = 3)
      /\ DOMAIN q = 1 .. n /\ \A i \in 1 .. n : q[i] \in Pieces
  BY LenProperties, ElementOfSeq
<1>2. /\ a \in Seq(Pieces) /\ Len(a) = n - k
      /\ \A i \in 1 .. n - k : a[i] = q[i + k]
  <2>1. \A i \in 4 .. n : q[i] \in Pieces
    BY <1>1
  <2>2. /\ a \in Seq(Pieces) /\ Len(a) = IF 4 <= n THEN n - 4 + 1 ELSE 0
        /\ \A i \in 1 .. n - 4 + 1 : a[i] = q[4 + i - 1]
    BY <1>1, <2>1, SubSeqProperties
  <2>3. IF 4 <= n THEN k = 3 ELSE k = n
    BY <1>1
  <2> HIDE DEF a, k, n
  <2>4. Len(a) = n - k
    BY <1>1, <2>2, <2>3
  <2>5. \A i \in 1 .. n - k : i \in 1 .. n - 4 + 1 /\ 4 + i - 1 = i + k
    BY <1>1, <2>3
  <2> QED BY <2>2, <2>4, <2>5
<1>3. c \in Seq(Pieces) /\ Len(c) = k /\ \A i \in 1 .. k : c[i] = q[i]
  <2> HIDE DEF k, n
  <2>1. \A i \in 1 .. k : q[i] \in Pieces
    BY <1>1
  <2>2. /\ c \in Seq(Pieces) /\ Len(c) = IF 1 <= k THEN k - 1 + 1 ELSE 0
        /\ \A i \in 1 .. k - 1 + 1 : c[i] = q[1 + i - 1]
    BY <1>1, <2>1, SubSeqProperties
  <2> HIDE DEF c
  <2> QED BY <1>1, <2>2
<1> HIDE DEF c
<1>4. d \in Seq(Pieces) /\ Len(d) = k /\ \A i \in 1 .. k : d[i] = q[k - i + 1]
  <2>1. d = [i \in 1 .. k |-> c[(k - i) + 1]]
    BY <1>3 DEF Reverse
  <2> HIDE DEF d, k, n
  <2>2. \A i \in 1 .. k : (k - i) + 1 \in 1 .. k /\ (k - i) + 1 \in 1 .. n
    BY <1>1
  <2>3. \A i \in 1 .. k : d[i] = q[k - i + 1] /\ d[i] \in Pieces
    BY <1>1, <1>3, <2>1, <2>2
  <2>4. d \in [1 .. k -> Pieces]
    BY <2>1, <2>3
  <2> QED BY <1>1, <2>3, <2>4
<1>5. f = a \o d
  BY DEF FreeOrder, c
<1> HIDE DEF a, d, f, k, n
<1>6. f \in Seq(Pieces) /\ DOMAIN f = 1 .. n /\ \A i \in 1 .. n : f[i] = q[p(i)]
  <2>1. /\ f \in Seq(Pieces) /\ Len(f) = n
        /\ \A i \in 1 .. n : f[i] = IF i <= n - k THEN a[i] ELSE d[i - (n - k)]
    BY <1>1, <1>2, <1>4, <1>5, ConcatProperties
  <2>2. \A i \in 1 .. n : i <= n - k => f[i] = q[i + k]
    BY <1>1, <1>2, <2>1
  <2>3. \A i \in 1 .. n : ~(i <= n - k) =>
          i - (n - k) \in 1 .. k /\ k - (i - (n - k)) + 1 = n - i + 1
    BY <1>1
  <2>4. \A i \in 1 .. n : ~(i <= n - k) => f[i] = q[n - i + 1]
    BY <1>4, <2>1, <2>3
  <2> QED BY <2>1, <2>2, <2>4, LenProperties
<1>7. \A i \in 1 .. n : p(i) \in 1 .. n /\ inv(i) \in 1 .. n /\ p(inv(i)) = i
  BY <1>1
<1>8. \A i, j \in 1 .. n : p(i) = p(j) => i = j
  BY <1>1
<1> HIDE DEF p, inv
<1>9. Plains(f) = Plains(q)
  <2>1. \A i \in DOMAIN f : p(i) \in DOMAIN q /\ f[i] = q[p(i)]
    BY <1>1, <1>6, <1>7
  <2>2. \A j \in DOMAIN q : inv(j) \in DOMAIN f /\ f[inv(j)] = q[j]
    BY <1>1, <1>6, <1>7
  <2>3. ASSUME NEW x \in Plains(f) PROVE x \in Plains(q)
    BY <2>1, <2>3 DEF Plains
  <2>4. ASSUME NEW x \in Plains(q) PROVE x \in Plains(f)
    BY <2>2, <2>4 DEF Plains
  <2> QED BY <2>3, <2>4
<1>10. Once(q) => Once(f)
  BY <1>1, <1>6, <1>7, <1>8 DEF Once
<1> QED BY <1>6, <1>9, <1>10 DEF f

\* alloc() for any of them brings nothing and changes nothing, or brings a
\* block that nobody has.
LEMMA AllocBrings ==
  ASSUME manager = "bitmap", MMInv, NEW size \in CountedSizes, mm' = AllocResult(size).mm
  PROVE  /\ MMInv'
         /\ MMAlloc
         /\ \/ /\ AllocResult(size).at = NULL /\ Got(AllocResult(size), size) = <<>>
               /\ MMGiven' = MMGiven
            \/ \E b \in Pieces :
                 /\ AllocResult(size).at # NULL
                 /\ Got(AllocResult(size), size) = <<b>>
                 /\ b = [at |-> AllocResult(size).at, size |-> Rounded(size)]
                 /\ MMGiven' = MMGiven \cup {b} /\ b \notin MMGiven
<1> DEFINE n == BlocksFor(size)
           at == FirstFit(mm, n)
           refused == size = 0 \/ ~mm.is_initialized \/ n > mm.free_blocks \/ at = NULL
<1>1. mm' = Alloc(mm, size).m /\ AllocResult(size).at = Alloc(mm, size).at
      /\ Rounded(size) = n * BLOCK_SIZE
  BY DEF AllocResult, Rounded
<1>2. MMAlloc
  BY <1>1 DEF MMAlloc
<1>3. MMInv'
  BY <1>2, StepsKeep
<1>4. CASE refused
  <2>1. mm' = mm /\ AllocResult(size).at = NULL
    BY <1>1, <1>4 DEF Alloc
  <2>2. MMGiven' = MMGiven
    BY <2>1 DEF MMGiven, GivenBlocks, Heads
  <2> QED BY <1>2, <1>3, <2>1, <2>2 DEF Got
<1>5. CASE ~refused
  <2> DEFINE b == Piece(at, n)
  <2>1. mm' = TakeBlocks(mm, at, n) /\ AllocResult(size).at = at * BLOCK_SIZE
    BY <1>1, <1>5 DEF Alloc
  <2>2. n \in Nat \ {0}
    BY <1>5, BlocksForIsPositive
  <2>3. at \in Fits(mm, n) /\ at \in Nat
    BY <1>5, LowestIsLowest DEF FirstFit, Fits, Blocks
  <2> HIDE DEF n, at
  <2>4. MMGiven' = MMGiven \cup {b} /\ b \notin MMGiven
    BY <2>1, <2>2, <2>3, TakeAddsPiece
  <2>5. at * BLOCK_SIZE \in Nat /\ n * BLOCK_SIZE \in Nat
    BY <2>2, <2>3, BlocksAssumption
  <2>6. b = [at |-> AllocResult(size).at, size |-> Rounded(size)] /\ b \in Pieces
    BY <1>1, <2>1, <2>5 DEF Piece, Pieces
  <2>7. AllocResult(size).at # NULL
    BY <2>1, <2>5 DEF NULL
  <2>8. Got(AllocResult(size), size) = <<b>>
    BY <2>6, <2>7 DEF Got
  <2> HIDE DEF b
  <2> QED BY <1>2, <1>3, <2>4, <2>6, <2>7, <2>8
<1> QED BY <1>4, <1>5

\* free() of a block somebody has takes back that block.
LEMMA FreeDrops ==
  ASSUME manager = "bitmap", MMInv, NEW b, Plain(b) \in MMGiven, FreeOne(b)
  PROVE  MMInv' /\ MMFree /\ MMGiven' = MMGiven \ {Plain(b)}
<1>1. PICK i \in Heads(mm) : Plain(b) = Piece(i, mm.contiguous_blocks[i])
  BY GivenAsPieces DEF GivenIsPieces
<1>2. b.at = i * BLOCK_SIZE
  BY <1>1 DEF Plain, Piece
<1>3. mm' = Free(mm, i * BLOCK_SIZE)
  BY <1>2 DEF FreeOne
<1>4. MMGiven' = MMGiven \ {Plain(b)}
  BY <1>1, <1>3, FreeDropsPiece
<1>5. MMFree
  BY <1>3 DEF MMFree
<1> QED BY <1>4, <1>5, StepsKeep

CallersTypeOK ==
  /\ job \in [slot : ProcSlots \cup {0}, frees : Seq(Pieces), wants : Seq(CountedSizes),
              has : Seq(Pieces)]
  /\ owned \in [ProcSlots -> Seq(Pieces)]
  /\ exited \in [ProcSlots -> BOOLEAN]
  /\ list \in Seq(Pieces) /\ Len(list) <= 1
  /\ mm_rqs \in Seq(Asked)
  /\ lost \subseteq Pieces

\* The kernel frees before it asks, for a slot that it has emptied.
JobIsOrderly ==
  /\ job.frees # <<>> => job.has = <<>>
  /\ job.wants # <<>> => job.slot \in ProcSlots /\ owned[job.slot] = <<>>

JobHolds == Plains(job.frees) \cup Plains(job.has)
ProgramsHold == Plains(list) \cup Plains(mm_rqs) \cup lost

\* Nobody has a block twice, and no two have the same one.
OneHolder ==
  /\ Once(job.frees) /\ Once(job.has) /\ Once(list) /\ Once(mm_rqs)
  /\ \A s \in ProcSlots : Once(owned[s])
  /\ JobHolds \cap ProgramsHold = {}
  /\ Plains(list) \cap Plains(mm_rqs) = {}
  /\ lost \cap (Plains(list) \cup Plains(mm_rqs)) = {}
  /\ \A s \in ProcSlots : Plains(owned[s]) \cap (JobHolds \cup ProgramsHold) = {}
  /\ \A s, t \in ProcSlots : s # t => Plains(owned[s]) \cap Plains(owned[t]) = {}

HeldInv == /\ manager = "bitmap"
           /\ CallersTypeOK /\ JobIsOrderly /\ OneHolder
           /\ MMInv /\ GivenIsHeld

LEMMA PlainsOfFour ==
  ASSUME NEW a \in Seq(Pieces), NEW b \in Seq(Pieces), NEW c \in Seq(Pieces),
         NEW d \in Seq(Asked)
  PROVE  {Plain(x) : x \in ToSet(a \o b \o c \o d)}
           = Plains(a) \cup Plains(b) \cup Plains(c) \cup Plains(d)
<1> DEFINE S == Pieces \cup Asked
           e == a \o b
           f == e \o c
           q == f \o d
<1>1. Pieces \subseteq S /\ Asked \subseteq S
  OBVIOUS
<1> HIDE DEF S, e, f, q
<1>2. a \in Seq(S) /\ b \in Seq(S) /\ c \in Seq(S) /\ d \in Seq(S)
  BY <1>1, SeqMonotonic
<1>3. e \in Seq(S) /\ Plains(e) = Plains(a) \cup Plains(b)
  BY <1>2, ConcatProperties, PlainsOfConcat DEF e
<1>4. f \in Seq(S) /\ Plains(f) = Plains(e) \cup Plains(c)
  BY <1>2, <1>3, ConcatProperties, PlainsOfConcat DEF f
<1>5. Plains(q) = Plains(f) \cup Plains(d)
  BY <1>2, <1>4, PlainsOfConcat DEF q
<1>6. {Plain(x) : x \in ToSet(q)} = Plains(q)
  BY DEF ToSet, Plains
<1> QED BY <1>3, <1>4, <1>5, <1>6 DEF e, f, q

\* Held, part by part.
SlotsHold == {x \in Pieces : \E s \in ProcSlots : x \in Plains(owned[s])}
HeldIsParts == CallersTypeOK => Held = JobHolds \cup ProgramsHold \cup SlotsHold

LEMMA HeldByParts == HeldIsParts /\ HeldIsParts'
<1>1. ASSUME NEW o \in [ProcSlots -> Seq(Pieces)]
      PROVE  UNION {ToSet(o[s]) : s \in ProcSlots}
               = {x \in Pieces : \E s \in ProcSlots : x \in Plains(o[s])}
  <2>1. \A s \in ProcSlots : Plains(o[s]) = ToSet(o[s]) /\ Plains(o[s]) \subseteq Pieces
    BY PlainsOfPieces
  <2> QED BY <2>1
<1>2. ASSUME CallersTypeOK PROVE Held = JobHolds \cup ProgramsHold \cup SlotsHold
  <2>1. {Plain(x) : x \in ToSet(job.frees \o job.has \o list \o mm_rqs)}
          = Plains(job.frees) \cup Plains(job.has) \cup Plains(list) \cup Plains(mm_rqs)
    BY <1>2, PlainsOfFour DEF CallersTypeOK
  <2>2. UNION {ToSet(owned[s]) : s \in ProcSlots} = SlotsHold
    BY <1>1, <1>2 DEF CallersTypeOK, SlotsHold
  <2> QED BY <2>1, <2>2 DEF Held, JobHolds, ProgramsHold
<1>3. ASSUME CallersTypeOK' PROVE (Held = JobHolds \cup ProgramsHold \cup SlotsHold)'
  <2>1. {Plain(x) : x \in ToSet(job'.frees \o job'.has \o list' \o mm_rqs')}
          = Plains(job'.frees) \cup Plains(job'.has) \cup Plains(list') \cup Plains(mm_rqs')
    BY <1>3, PlainsOfFour DEF CallersTypeOK
  <2>2. UNION {ToSet(owned'[s]) : s \in ProcSlots} = SlotsHold'
    BY <1>1, <1>3 DEF CallersTypeOK, SlotsHold
  <2> QED BY <2>1, <2>2 DEF Held, JobHolds, ProgramsHold
<1> QED BY <1>2, <1>3 DEF HeldIsParts

\* The three parts of the invariant that speak of the callers alone.
CallersInv == CallersTypeOK /\ JobIsOrderly /\ OneHolder

\* A step that moves blocks from one holder to another leaves the table alone.
LEMMA MovesKeep ==
  ASSUME HeldInv, UNCHANGED <<manager, mm>>, CallersInv', Held' = Held
  PROVE  HeldInv'
<1>1. MMInv'
  BY StepsKeep DEF HeldInv
<1>2. Given' = Given
  BY DEF HeldInv, Given, GivenBlocks, Heads
<1> QED BY <1>1, <1>2 DEF HeldInv, CallersInv, GivenIsHeld

LEMMA EmptyIsASeq == \A S : <<>> \in Seq(S) /\ \A q \in Seq(S) : Len(q) = 0 => q = <<>>
BY EmptySeq

LEMMA CreateProcessHolds ==
  ASSUME HeldInv, CreateProcess
  PROVE  HeldInv'
<1> DEFINE D == {s \in ProcSlots : owned[s] = <<>> \/ exited[s]}
<1>1. PICK slot \in ProcSlots, wants \in Seq(CountedSizes) :
        /\ job = NoJob
        /\ job' = [slot |-> slot, frees |-> FreeOrder(owned[slot]),
                   wants |-> wants, has |-> <<>>]
        /\ owned' = [owned EXCEPT ![slot] = <<>>]
        /\ exited' = [exited EXCEPT ![slot] = FALSE]
        /\ UNCHANGED <<manager, mm, buddy, list, phase, mm_rqs, lost>>
  <2>1. D \in SUBSET Nat /\ D # {}
    BY CallersAssumption DEF CreateProcess
  <2>2. Lowest(D) \in D
    BY <2>1, HasLowest DEF Lowest
  <2> QED BY <2>2, CallersAssumption DEF CreateProcess
<1>2. CallersTypeOK /\ OneHolder
  BY DEF HeldInv
<1>3. /\ FreeOrder(owned[slot]) \in Seq(Pieces)
      /\ Plains(FreeOrder(owned[slot])) = Plains(owned[slot])
      /\ Once(FreeOrder(owned[slot]))
  BY <1>2, FreeOrderIsAll DEF CallersTypeOK, OneHolder
<1>4. CallersTypeOK' /\ JobIsOrderly'
  BY <1>1, <1>2, <1>3, EmptyIsASeq DEF CallersTypeOK, JobIsOrderly
<1>5. JobHolds = {} /\ JobHolds' = Plains(owned[slot])
  BY <1>1, <1>3, NoPlains DEF JobHolds, NoJob
<1>6. /\ Plains(list)' = Plains(list) /\ Plains(mm_rqs)' = Plains(mm_rqs)
      /\ lost' = lost /\ ProgramsHold' = ProgramsHold
  BY <1>1 DEF ProgramsHold
<1>7. \A s \in ProcSlots : Plains(owned'[s]) = IF s = slot THEN {} ELSE Plains(owned[s])
  BY <1>1, <1>2, NoPlains DEF CallersTypeOK
<1>8. /\ Once(job'.frees) /\ Once(job'.has) /\ Once(list') /\ Once(mm_rqs')
      /\ \A s \in ProcSlots : Once(owned'[s])
  BY <1>1, <1>2, <1>3, NoPlains DEF OneHolder, CallersTypeOK
<1>9. OneHolder'
  BY <1>2, <1>5, <1>6, <1>7, <1>8 DEF OneHolder
<1>10. Held' = Held
  <2>1. Plains(owned[slot]) \subseteq Pieces
    BY <1>2, PlainsOfPieces DEF CallersTypeOK
  <2>2. SlotsHold = SlotsHold' \cup Plains(owned[slot])
    BY <1>7, <2>1 DEF SlotsHold
  <2> QED BY <1>2, <1>4, <1>5, <1>6, <2>2, HeldByParts DEF HeldIsParts
<1> QED BY <1>1, <1>4, <1>9, <1>10, MovesKeep DEF CallersInv

\* A step that frees a block of one holder: the table gives up that block.
LEMMA FreesKeep ==
  ASSUME HeldInv, manager' = manager, NEW b, FreeOne(b), Plain(b) \in Held,
         CallersInv', Held' = Held \ {Plain(b)}
  PROVE  HeldInv' /\ MMFree /\ Given' = Given \ {Plain(b)}
<1>1. Given = MMGiven /\ Given' = MMGiven'
  BY DEF HeldInv, Given, MMGiven
<1>2. MMInv' /\ MMFree /\ MMGiven' = MMGiven \ {Plain(b)}
  BY <1>1, FreeDrops DEF HeldInv, GivenIsHeld
<1> QED BY <1>1, <1>2 DEF HeldInv, CallersInv, GivenIsHeld

LEMMA KernelFreesHolds ==
  ASSUME HeldInv, KernelFrees
  PROVE  HeldInv' /\ MMFree /\ Given' = Given \ {Plain(Head(job.frees))}
<1> DEFINE h == Plain(Head(job.frees))
<1>1. /\ job.frees # <<>> /\ job.has = <<>> /\ CallersTypeOK /\ OneHolder
      /\ JobIsOrderly /\ FreeOne(Head(job.frees))
      /\ UNCHANGED <<manager, owned, exited, list, phase, mm_rqs, lost>>
  BY DEF KernelFrees, HeldInv, JobIsOrderly
<1>2. job.frees \in Seq(Pieces) /\ job.wants \in Seq(CountedSizes)
  BY <1>1 DEF CallersTypeOK
<1>3. /\ Tail(job.frees) \in Seq(Pieces) /\ Len(Tail(job.frees)) = Len(job.frees) - 1
      /\ h \in Plains(job.frees) /\ Plains(Tail(job.frees)) = Plains(job.frees) \ {h}
      /\ Once(Tail(job.frees))
  BY <1>1, <1>2, HeadTailProperties, PlainsOfTail DEF OneHolder
<1>4. /\ job' \in [slot : ProcSlots \cup {0}, frees : Seq(Pieces), wants : Seq(CountedSizes),
                   has : Seq(Pieces)]
      /\ job'.frees = Tail(job.frees) /\ job'.has = <<>> /\ job'.wants = job.wants
      /\ job.wants # <<>> => job'.slot = job.slot
  <2>1. CASE Len(job.frees) = 1 /\ job.wants = <<>>
    <3>1. job' = NoJob
      BY <2>1 DEF KernelFrees
    <3>2. Tail(job.frees) = <<>>
      <4>1. Len(Tail(job.frees)) = 0
        BY <1>3, <2>1
      <4> QED BY <1>3, <4>1, EmptyIsASeq
    <3> QED BY <2>1, <3>1, <3>2, EmptyIsASeq DEF NoJob
  <2>2. CASE ~(Len(job.frees) = 1 /\ job.wants = <<>>)
    <3>1. job' = [job EXCEPT !.frees = Tail(@)]
      BY <2>2 DEF KernelFrees
    <3> QED BY <1>1, <1>3, <3>1 DEF CallersTypeOK
  <2> QED BY <2>1, <2>2
<1>5. CallersTypeOK' /\ JobIsOrderly'
  BY <1>1, <1>4 DEF CallersTypeOK, JobIsOrderly
<1>6. JobHolds = Plains(job.frees) /\ JobHolds' = JobHolds \ {h}
  BY <1>1, <1>3, <1>4, NoPlains DEF JobHolds
<1>7. /\ Plains(list)' = Plains(list) /\ Plains(mm_rqs)' = Plains(mm_rqs)
      /\ lost' = lost /\ ProgramsHold' = ProgramsHold /\ SlotsHold' = SlotsHold
  BY <1>1 DEF ProgramsHold, SlotsHold
<1>8. OneHolder'
  BY <1>1, <1>3, <1>4, <1>6, <1>7, NoPlains DEF OneHolder
<1>9. h \notin ProgramsHold /\ h \notin SlotsHold /\ h \in JobHolds
  BY <1>1, <1>3, <1>6 DEF OneHolder, SlotsHold
<1>10. h \in Held /\ Held' = Held \ {h}
  BY <1>1, <1>5, <1>6, <1>7, <1>9, HeldByParts DEF HeldIsParts
<1> QED BY <1>1, <1>5, <1>8, <1>10, FreesKeep DEF CallersInv

\* A step that asks for a block: what is brought has a new holder.
LEMMA AllocsKeep ==
  ASSUME HeldInv, manager' = manager, NEW size \in CountedSizes, mm' = AllocResult(size).mm,
         CallersInv',
         AllocResult(size).at = NULL => Held' = Held,
         \A b \in Pieces : Got(AllocResult(size), size) = <<b>>
                           => Held' = Held \cup {b}
  PROVE  HeldInv' /\ MMAlloc
<1>1. Given = MMGiven /\ Given' = MMGiven' /\ manager = "bitmap" /\ MMInv
  BY DEF HeldInv, Given, MMGiven
<1>2. MMInv' /\ MMAlloc
  BY <1>1, AllocBrings
<1>3. Given' = Held'
  BY <1>1, AllocBrings DEF HeldInv, GivenIsHeld
<1> QED BY <1>1, <1>2, <1>3 DEF HeldInv, CallersInv, GivenIsHeld

\* What has been brought has no holder yet.
LEMMA BroughtIsNew ==
  ASSUME HeldInv, NEW size \in CountedSizes, mm' = AllocResult(size).mm
  PROVE  \/ AllocResult(size).at = NULL /\ Got(AllocResult(size), size) = <<>>
         \/ \E b \in Pieces :
              /\ AllocResult(size).at # NULL
              /\ b = [at |-> AllocResult(size).at, size |-> Rounded(size)]
              /\ Got(AllocResult(size), size) = <<b>>
              /\ Plain(b) = b
              /\ b \notin JobHolds /\ b \notin ProgramsHold /\ b \notin SlotsHold
<1>1. Given = MMGiven /\ manager = "bitmap" /\ MMInv /\ Given = Held /\ CallersTypeOK
  BY DEF HeldInv, Given, MMGiven, GivenIsHeld
<1>2. Held = JobHolds \cup ProgramsHold \cup SlotsHold
  BY <1>1, HeldByParts DEF HeldIsParts
<1>3. CASE AllocResult(size).at = NULL
  BY <1>3 DEF Got
<1>4. CASE AllocResult(size).at # NULL
  <2>1. PICK b \in Pieces : /\ Got(AllocResult(size), size) = <<b>>
                            /\ b = [at |-> AllocResult(size).at, size |-> Rounded(size)]
                            /\ b \notin MMGiven
    BY <1>1, <1>4, AllocBrings
  <2> QED BY <1>1, <1>2, <1>4, <2>1, PlainOfPiece
<1> QED BY <1>3, <1>4

LEMMA KernelAllocsHolds ==
  ASSUME HeldInv, KernelAllocs
  PROVE  HeldInv' /\ MMAlloc
<1> DEFINE size == Head(job.wants)
           r == AllocResult(size)
           has == job.has \o Got(r, size)
<1>1. /\ job.frees = <<>> /\ job.wants # <<>> /\ CallersTypeOK /\ OneHolder
      /\ JobIsOrderly /\ mm' = r.mm
      /\ UNCHANGED <<manager, exited, list, phase, mm_rqs, lost>>
  BY DEF KernelAllocs, HeldInv
<1>2. /\ job.frees \in Seq(Pieces) /\ job.wants \in Seq(CountedSizes) /\ job.has \in Seq(Pieces)
      /\ job.slot \in ProcSlots /\ owned[job.slot] = <<>>
      /\ owned \in [ProcSlots -> Seq(Pieces)]
  BY <1>1 DEF CallersTypeOK, JobIsOrderly
<1>3. size \in CountedSizes /\ Tail(job.wants) \in Seq(CountedSizes)
  BY <1>1, <1>2, HeadTailProperties
<1>4. JobHolds = Plains(job.has)
  BY <1>1, NoPlains DEF JobHolds
<1>5. /\ Plains(list)' = Plains(list) /\ Plains(mm_rqs)' = Plains(mm_rqs)
      /\ lost' = lost /\ ProgramsHold' = ProgramsHold
  BY <1>1 DEF ProgramsHold
<1>6. CASE r.at = NULL
  <2>1. Got(r, size) = <<>>
    BY <1>6 DEF Got
  <2>2. has = job.has
    BY <1>2, <2>1, ConcatEmptySeq
  <2>3. /\ UNCHANGED owned
        /\ job' = IF has = <<>> THEN NoJob ELSE [NoJob EXCEPT !.frees = FreeOrder(has)]
    BY <1>6 DEF KernelAllocs
  <2>4. /\ job' \in [slot : ProcSlots \cup {0}, frees : Seq(Pieces), wants : Seq(CountedSizes),
                     has : Seq(Pieces)]
        /\ job'.has = <<>> /\ job'.wants = <<>>
        /\ Plains(job'.frees) = Plains(job.has) /\ Once(job'.frees)
    <3>1. CASE has = <<>>
      <4>1. job' = NoJob
        BY <2>3, <3>1
      <4> QED BY <2>2, <3>1, <4>1, NoPlains, EmptyIsASeq DEF NoJob
    <3>2. CASE has # <<>>
      <4>1. job' = [NoJob EXCEPT !.frees = FreeOrder(job.has)]
        BY <2>2, <2>3, <3>2
      <4>2. /\ FreeOrder(job.has) \in Seq(Pieces)
            /\ Plains(FreeOrder(job.has)) = Plains(job.has)
            /\ Once(FreeOrder(job.has))
        BY <1>1, <1>2, FreeOrderIsAll DEF OneHolder
      <4> QED BY <4>1, <4>2, EmptyIsASeq DEF NoJob
    <3> QED BY <3>1, <3>2
  <2>5. CallersTypeOK' /\ JobIsOrderly'
    BY <1>1, <2>3, <2>4 DEF CallersTypeOK, JobIsOrderly
  <2>6. JobHolds' = JobHolds /\ SlotsHold' = SlotsHold
    BY <1>4, <2>3, <2>4, NoPlains DEF JobHolds, SlotsHold
  <2>7. OneHolder'
    BY <1>1, <1>5, <2>3, <2>4, <2>6, NoPlains DEF OneHolder
  <2>8. Held' = Held
    BY <1>1, <1>5, <2>5, <2>6, HeldByParts DEF HeldIsParts
  <2>9. \A b \in Pieces : Got(r, size) # <<b>>
    BY <2>1
  <2> HIDE DEF r, size, has
  <2> QED BY <1>1, <1>3, <2>5, <2>7, <2>8, <2>9, AllocsKeep DEF CallersInv, r
<1>7. CASE r.at # NULL
  <2>1. PICK b \in Pieces :
          /\ Got(r, size) = <<b>> /\ Plain(b) = b
          /\ b \notin JobHolds /\ b \notin ProgramsHold /\ b \notin SlotsHold
    BY <1>1, <1>3, <1>7, BroughtIsNew
  <2>2. has = Append(job.has, b) /\ Plain(b) \notin Plains(job.has)
    BY <1>2, <1>4, <2>1, AppendIsConcat
  <2> HIDE DEF r, size, has
  <2>3. has \in Seq(Pieces) /\ Plains(has) = Plains(job.has) \cup {b} /\ Once(has)
    <3>1. Append(job.has, b) \in Seq(Pieces)
      BY <1>2, AppendProperties
    <3>2. /\ Plains(Append(job.has, b)) = Plains(job.has) \cup {Plain(b)}
          /\ Once(job.has) => Once(Append(job.has, b))
      BY <1>2, <2>2, PlainsOfAppend
    <3> QED BY <1>1, <2>1, <2>2, <3>1, <3>2 DEF OneHolder
  <2>4. IF Len(job.wants) > 1
        THEN job' = [job EXCEPT !.wants = Tail(@), !.has = has] /\ UNCHANGED owned
        ELSE job' = NoJob /\ owned' = [owned EXCEPT ![job.slot] = has]
    BY <1>7 DEF KernelAllocs, r, size, has
  <2>5. \A s \in ProcSlots : b \notin Plains(owned[s])
    BY <2>1 DEF SlotsHold
  <2>6. CASE Len(job.wants) > 1
    <3>1. job' = [job EXCEPT !.wants = Tail(@), !.has = has] /\ UNCHANGED owned
      BY <2>4, <2>6
    <3>2. CallersTypeOK' /\ JobIsOrderly'
      BY <1>1, <1>2, <1>3, <2>3, <3>1 DEF CallersTypeOK, JobIsOrderly
    <3>3. /\ job'.frees = <<>> /\ job'.has = has
          /\ JobHolds' = JobHolds \cup {b} /\ SlotsHold' = SlotsHold
      BY <1>1, <1>4, <2>3, <3>1, NoPlains DEF JobHolds, SlotsHold, CallersTypeOK
    <3>4. OneHolder'
      BY <1>1, <1>5, <2>1, <2>3, <2>5, <3>1, <3>3, NoPlains DEF OneHolder
    <3>5. Held' = Held \cup {b}
      BY <1>1, <1>5, <3>2, <3>3, HeldByParts DEF HeldIsParts
    <3> QED BY <1>1, <1>3, <1>7, <2>1, <3>2, <3>4, <3>5, AllocsKeep DEF CallersInv, r
  <2>7. CASE ~(Len(job.wants) > 1)
    <3>1. job' = NoJob /\ owned' = [owned EXCEPT ![job.slot] = has]
      BY <2>4, <2>7
    <3>2. CallersTypeOK' /\ JobIsOrderly'
      BY <1>1, <1>2, <2>3, <3>1, EmptyIsASeq DEF CallersTypeOK, JobIsOrderly, NoJob
    <3>3. /\ job'.frees = <<>> /\ job'.has = <<>> /\ JobHolds' = {}
          /\ \A s \in ProcSlots : Plains(owned'[s]) =
               IF s = job.slot THEN JobHolds \cup {b} ELSE Plains(owned[s])
          /\ \A s \in ProcSlots : Once(owned'[s])
      BY <1>1, <1>2, <1>4, <2>3, <3>1, NoPlains DEF JobHolds, NoJob, OneHolder
    <3>4. Plains(owned[job.slot]) = {}
      BY <1>2, NoPlains
    <3>5. OneHolder'
      <4>1. \A s \in ProcSlots :
              Plains(owned'[s]) \cap (JobHolds' \cup ProgramsHold') = {}
        BY <1>1, <1>5, <2>1, <3>3 DEF OneHolder
      <4>2. \A s, t \in ProcSlots :
              s # t => Plains(owned'[s]) \cap Plains(owned'[t]) = {}
        BY <1>1, <2>5, <3>3 DEF OneHolder
      <4> QED BY <1>1, <1>5, <3>3, <4>1, <4>2, NoPlains DEF OneHolder
    <3>6. JobHolds \subseteq Pieces
      BY <1>2, <1>4, PlainsOfPieces
    <3>7. SlotsHold' = SlotsHold \cup JobHolds \cup {b}
      BY <1>2, <3>3, <3>4, <3>6 DEF SlotsHold
    <3>8. Held' = Held \cup {b}
      BY <1>1, <1>5, <3>2, <3>3, <3>7, HeldByParts DEF HeldIsParts
    <3> QED BY <1>1, <1>3, <1>7, <2>1, <3>2, <3>5, <3>8, AllocsKeep DEF CallersInv, r
  <2> QED BY <2>6, <2>7
<1> QED BY <1>6, <1>7

LEMMA ProcessExitsHolds ==
  ASSUME HeldInv, NEW s \in ProcSlots, ProcessExits(s)
  PROVE  HeldInv'
<1>1. /\ exited' = [exited EXCEPT ![s] = TRUE]
      /\ UNCHANGED <<manager, mm, buddy, job, owned, list, phase, mm_rqs, lost>>
      /\ CallersTypeOK /\ JobIsOrderly /\ OneHolder
  BY DEF ProcessExits, HeldInv
<1>2. CallersTypeOK' /\ JobIsOrderly'
  BY <1>1 DEF CallersTypeOK, JobIsOrderly
<1>3. OneHolder' /\ Held' = Held
  BY <1>1 DEF OneHolder, JobHolds, ProgramsHold, Held
<1> QED BY <1>1, <1>2, <1>3, MovesKeep DEF CallersInv

\* wait() makes the blocks of the slot those that the kernel has to free.
LEMMA ReapHolds ==
  ASSUME HeldInv, NEW slot \in ProcSlots, Reap(slot)
  PROVE  HeldInv'
<1>1. /\ job = NoJob
      /\ job' = [NoJob EXCEPT !.frees = FreeOrder(owned[slot])]
      /\ owned' = [owned EXCEPT ![slot] = <<>>]
      /\ exited' = [exited EXCEPT ![slot] = FALSE]
      /\ UNCHANGED <<manager, mm, buddy, list, phase, mm_rqs, lost>>
  BY DEF Reap
<1>2. CallersTypeOK /\ OneHolder
  BY DEF HeldInv
<1>3. /\ FreeOrder(owned[slot]) \in Seq(Pieces)
      /\ Plains(FreeOrder(owned[slot])) = Plains(owned[slot])
      /\ Once(FreeOrder(owned[slot]))
  BY <1>2, FreeOrderIsAll DEF CallersTypeOK, OneHolder
<1>4. CallersTypeOK' /\ JobIsOrderly'
  BY <1>1, <1>2, <1>3, EmptyIsASeq DEF CallersTypeOK, JobIsOrderly, NoJob
<1>5. JobHolds = {} /\ JobHolds' = Plains(owned[slot])
  BY <1>1, <1>3, NoPlains DEF JobHolds, NoJob
<1>6. /\ Plains(list)' = Plains(list) /\ Plains(mm_rqs)' = Plains(mm_rqs)
      /\ lost' = lost /\ ProgramsHold' = ProgramsHold
  BY <1>1 DEF ProgramsHold
<1>7. \A s \in ProcSlots : Plains(owned'[s]) = IF s = slot THEN {} ELSE Plains(owned[s])
  BY <1>1, <1>2, NoPlains DEF CallersTypeOK
<1>8. /\ Once(job'.frees) /\ Once(job'.has) /\ Once(list') /\ Once(mm_rqs')
      /\ \A s \in ProcSlots : Once(owned'[s])
  BY <1>1, <1>2, <1>3, NoPlains DEF OneHolder, CallersTypeOK, NoJob
<1>9. OneHolder'
  BY <1>2, <1>5, <1>6, <1>7, <1>8 DEF OneHolder
<1>10. Held' = Held
  <2>1. Plains(owned[slot]) \subseteq Pieces
    BY <1>2, PlainsOfPieces DEF CallersTypeOK
  <2>2. SlotsHold = SlotsHold' \cup Plains(owned[slot])
    BY <1>7, <2>1 DEF SlotsHold
  <2> QED BY <1>2, <1>4, <1>5, <1>6, <2>2, HeldByParts DEF HeldIsParts
<1> QED BY <1>1, <1>4, <1>9, <1>10, MovesKeep DEF CallersInv

\* A step of a program leaves the kernel and the slots as they are.
LEMMA ProgramsKeep ==
  ASSUME HeldInv, UNCHANGED <<job, owned, exited>>,
         list' \in Seq(Pieces), Len(list') <= 1,
         mm_rqs' \in Seq(Asked), lost' \subseteq Pieces,
         Once(list'), Once(mm_rqs'), Plains(list') \cap Plains(mm_rqs') = {},
         lost' \cap (Plains(list') \cup Plains(mm_rqs')) = {},
         ProgramsHold' \cap (JobHolds \cup SlotsHold) = {}
  PROVE  /\ CallersInv'
         /\ Held = JobHolds \cup ProgramsHold \cup SlotsHold
         /\ Held' = JobHolds \cup ProgramsHold' \cup SlotsHold
<1>1. CallersTypeOK /\ JobIsOrderly /\ OneHolder
  BY DEF HeldInv
<1>2. CallersTypeOK' /\ JobIsOrderly'
  BY <1>1 DEF CallersTypeOK, JobIsOrderly
<1>3. JobHolds' = JobHolds /\ SlotsHold' = SlotsHold
  BY DEF JobHolds, SlotsHold
<1>4. \A s \in ProcSlots : Plains(owned[s]) \subseteq SlotsHold
  <2>1. \A s \in ProcSlots : Plains(owned[s]) \subseteq Pieces
    BY <1>1, PlainsOfPieces DEF CallersTypeOK
  <2> QED BY <2>1 DEF SlotsHold
<1>5. OneHolder'
  <2>1. \A s \in ProcSlots :
          Plains(owned'[s]) \cap (JobHolds' \cup ProgramsHold') = {}
    BY <1>1, <1>3, <1>4 DEF OneHolder
  <2> QED BY <1>1, <1>3, <2>1 DEF OneHolder
<1> QED BY <1>1, <1>2, <1>3, <1>5, HeldByParts DEF CallersInv, HeldIsParts

\* What the programs hold, the kernel and the slots do not.
LEMMA ProgramsApart ==
  ASSUME HeldInv
  PROVE  /\ ProgramsHold \cap (JobHolds \cup SlotsHold) = {}
         /\ list \in Seq(Pieces) /\ Len(list) <= 1
         /\ mm_rqs \in Seq(Asked) /\ lost \subseteq Pieces
         /\ Once(list) /\ Once(mm_rqs) /\ Plains(list) \cap Plains(mm_rqs) = {}
         /\ lost \cap (Plains(list) \cup Plains(mm_rqs)) = {}
<1>1. CallersTypeOK /\ OneHolder
  BY DEF HeldInv
<1>2. ProgramsHold \cap SlotsHold = {}
  BY <1>1 DEF OneHolder, SlotsHold
<1> QED BY <1>1, <1>2 DEF CallersTypeOK, OneHolder

LEMMA OnePiece ==
  ASSUME NEW b \in Pieces
  PROVE  /\ <<b>> \in Seq(Pieces) /\ Len(<<b>>) = 1 /\ Head(<<b>>) = b
         /\ Plains(<<b>>) = {b} /\ Once(<<b>>)
<1>1. <<b>> = Append(<<>>, b)
  BY EmptyIsASeq, AppendIsConcat, ConcatEmptySeq
<1>2. Plains(<<b>>) = Plains(<<>>) \cup {Plain(b)} /\ Once(<<b>>)
  BY <1>1, EmptyIsASeq, NoPlains, PlainsOfAppend
<1> QED BY <1>2, NoPlains, PlainOfPiece

LEMMA GetProcListHolds ==
  ASSUME HeldInv, GetProcList
  PROVE  HeldInv' /\ MMAlloc
<1> DEFINE r == AllocResult(LIST_SIZE)
<1>1. /\ list = <<>> /\ mm' = r.mm /\ list' = Got(r, LIST_SIZE)
      /\ UNCHANGED <<manager, job, owned, exited, phase, mm_rqs, lost>>
      /\ LIST_SIZE \in CountedSizes
  BY CallersAssumption DEF GetProcList
<1>2. Plains(list) = {}
  BY <1>1, NoPlains
<1>3. CASE r.at = NULL
  <2>1. Got(r, LIST_SIZE) = <<>> /\ UNCHANGED list
    BY <1>1, <1>3 DEF Got
  <2>2. ProgramsHold' = ProgramsHold
    BY <1>1, <2>1 DEF ProgramsHold
  <2>3. CallersInv' /\ Held' = Held
    BY <1>1, <2>1, <2>2, ProgramsApart, ProgramsKeep
  <2>4. \A b \in Pieces : Got(r, LIST_SIZE) # <<b>>
    BY <2>1, OnePiece
  <2> HIDE DEF r
  <2> QED BY <1>1, <2>3, <2>4, AllocsKeep DEF r
<1>4. CASE r.at # NULL
  <2>1. PICK b \in Pieces :
          /\ Got(r, LIST_SIZE) = <<b>> /\ Plain(b) = b
          /\ b \notin JobHolds /\ b \notin ProgramsHold /\ b \notin SlotsHold
    BY <1>1, <1>4, BroughtIsNew
  <2>2. /\ list' = <<b>> /\ Len(list') <= 1 /\ list' \in Seq(Pieces)
        /\ Plains(list') = {b} /\ Once(list')
    BY <1>1, <2>1, OnePiece
  <2>3. ProgramsHold' = ProgramsHold \cup {b}
    BY <1>1, <1>2, <2>2 DEF ProgramsHold
  <2>4. b \notin Plains(mm_rqs) /\ b \notin lost
    BY <2>1 DEF ProgramsHold
  <2>5. CallersInv' /\ Held' = Held \cup {b}
    BY <1>1, <2>1, <2>2, <2>3, <2>4, ProgramsApart, ProgramsKeep
  <2>6. \A c \in Pieces : Got(r, LIST_SIZE) = <<c>> => c = b
    BY <2>1, OnePiece
  <2> HIDE DEF r
  <2> QED BY <1>1, <1>4, <2>5, <2>6, AllocsKeep DEF r
<1> QED BY <1>3, <1>4

LEMMA FreeProcListHolds ==
  ASSUME HeldInv, FreeProcList
  PROVE  HeldInv' /\ MMFree
<1> DEFINE h == Plain(Head(list))
<1>1. /\ list # <<>> /\ list' = <<>> /\ FreeOne(Head(list))
      /\ UNCHANGED <<manager, job, owned, exited, phase, mm_rqs, lost>>
  BY DEF FreeProcList
<1>2. list \in Seq(Pieces) /\ Len(list) = 1
  <2>1. list \in Seq(Pieces) /\ Len(list) <= 1 /\ Len(list) \in Nat
    BY ProgramsApart, LenProperties
  <2>2. Len(list) # 0
    BY <1>1, <2>1, EmptyIsASeq
  <2>3. \A n \in Nat : n <= 1 /\ n # 0 => n = 1
    OBVIOUS
  <2> QED BY <2>1, <2>2, <2>3
<1>3. Plains(list) = {h} /\ Plains(list') = {}
  BY <1>1, <1>2, LenProperties, NoPlains DEF Plains
<1>4. ProgramsHold' = ProgramsHold \ {h} /\ h \in ProgramsHold
  BY <1>1, <1>3, ProgramsApart DEF ProgramsHold
<1>5. list' \in Seq(Pieces) /\ Len(list') <= 1 /\ Once(list')
  BY <1>1, EmptySeq, NoPlains
<1>6. CallersInv' /\ h \in Held /\ Held' = Held \ {h}
  <2>1. /\ CallersInv' /\ Held = JobHolds \cup ProgramsHold \cup SlotsHold
        /\ Held' = JobHolds \cup ProgramsHold' \cup SlotsHold
    BY <1>1, <1>3, <1>4, <1>5, ProgramsApart, ProgramsKeep
  <2>2. ProgramsHold \cap (JobHolds \cup SlotsHold) = {}
    BY ProgramsApart
  <2> QED BY <1>4, <2>1, <2>2
<1> QED BY <1>1, <1>6, FreesKeep

-----------------------------------------------------------------------------
(* test-mm, and programs that are killed                                   *)

LEMMA TestAllocsHolds ==
  ASSUME HeldInv, TestAllocs
  PROVE  HeldInv' /\ MMAlloc
<1>1. PICK size \in {i \in 1 .. MAX_MEMORY : Total + i <= MAX_MEMORY} :
        /\ mm' = AllocResult(size).mm
        /\ IF AllocResult(size).at = NULL
           THEN UNCHANGED mm_rqs
           ELSE mm_rqs' = Append(mm_rqs, [at |-> AllocResult(size).at,
                                          size |-> Rounded(size), asked |-> size])
  BY DEF TestAllocs
<1>2. UNCHANGED <<manager, job, owned, exited, list, lost>>
  BY DEF TestAllocs
<1>3. size \in CountedSizes /\ size \in Nat
  <2>1. MAX_MEMORY \in CountedSizes /\ MAX_MEMORY \in Nat /\ (UINT32_COUNT - 1) * BLOCK_SIZE \in Nat
    BY CallersAssumption, BlocksAssumption, SizesCounted
  <2>2. size \in 1 .. MAX_MEMORY
    BY <1>1
  <2> QED BY <2>1, <2>2 DEF CountedSizes
<1> DEFINE r == AllocResult(size)
<1>4. CASE r.at = NULL
  <2>1. UNCHANGED mm_rqs /\ Got(r, size) = <<>>
    BY <1>1, <1>4 DEF Got
  <2>2. ProgramsHold' = ProgramsHold
    BY <1>2, <2>1 DEF ProgramsHold
  <2>3. CallersInv' /\ Held' = Held
    BY <1>2, <2>1, <2>2, ProgramsApart, ProgramsKeep
  <2>4. \A b \in Pieces : Got(r, size) # <<b>>
    BY <2>1, OnePiece, EmptySeq
  <2> HIDE DEF r
  <2> QED BY <1>1, <1>2, <1>3, <2>3, <2>4, AllocsKeep DEF r
<1>5. CASE r.at # NULL
  <2>1. PICK b \in Pieces :
          /\ Got(r, size) = <<b>> /\ Plain(b) = b
          /\ b = [at |-> r.at, size |-> Rounded(size)]
          /\ b \notin JobHolds /\ b \notin ProgramsHold /\ b \notin SlotsHold
    BY <1>1, <1>3, <1>5, BroughtIsNew
  <2> DEFINE e == [at |-> r.at, size |-> Rounded(size), asked |-> size]
  <2>2. e \in Asked /\ Plain(e) = b
    <3>1. r.at \in Nat /\ Rounded(size) \in Nat
      BY <2>1 DEF Pieces
    <3> QED BY <1>3, <2>1, <3>1 DEF Asked, Plain
  <2>3. mm_rqs' = Append(mm_rqs, e)
    BY <1>1, <1>5
  <2>4. b \notin Plains(mm_rqs) /\ b \notin Plains(list) /\ b \notin lost
    BY <2>1 DEF ProgramsHold
  <2> HIDE DEF e
  <2>5. mm_rqs' \in Seq(Asked) /\ Plains(mm_rqs') = Plains(mm_rqs) \cup {b} /\ Once(mm_rqs')
    BY <2>2, <2>3, <2>4, ProgramsApart, AppendProperties, PlainsOfAppend
  <2>6. ProgramsHold' = ProgramsHold \cup {b}
    BY <1>2, <2>5 DEF ProgramsHold
  <2>7. CallersInv' /\ Held' = Held \cup {b}
    BY <1>2, <2>1, <2>4, <2>5, <2>6, ProgramsApart, ProgramsKeep
  <2>8. \A c \in Pieces : Got(r, size) = <<c>> => c = b
    BY <2>1, OnePiece
  <2> HIDE DEF r
  <2> QED BY <1>1, <1>2, <1>3, <1>5, <2>7, <2>8, AllocsKeep DEF r
<1> QED BY <1>4, <1>5

\* A step that only moves test-mm on.
LEMMA NothingHappens ==
  ASSUME HeldInv, UNCHANGED <<manager, mm, job, owned, exited, list, mm_rqs, lost>>
  PROVE  HeldInv'
<1>1. ProgramsHold' = ProgramsHold
  BY DEF ProgramsHold
<1>2. CallersInv' /\ Held' = Held
  BY <1>1, ProgramsApart, ProgramsKeep
<1> QED BY <1>2, MovesKeep

LEMMA TestFreesHolds ==
  ASSUME HeldInv, TestFrees
  PROVE  HeldInv' /\ (MMFree \/ UNCHANGED mm)
<1> DEFINE h == Plain(Head(mm_rqs))
<1>1. UNCHANGED <<manager, job, owned, exited, list, lost>>
  BY DEF TestFrees
<1>2. CASE mm_rqs = <<>>
  <2>1. UNCHANGED <<mm, mm_rqs>>
    BY <1>2 DEF TestFrees
  <2> QED BY <1>1, <2>1, NothingHappens
<1>3. CASE mm_rqs # <<>>
  <2>1. FreeOne(Head(mm_rqs)) /\ mm_rqs' = Tail(mm_rqs)
    BY <1>3 DEF TestFrees
  <2>2. /\ mm_rqs' \in Seq(Asked) /\ Once(mm_rqs')
        /\ h \in Plains(mm_rqs) /\ Plains(mm_rqs') = Plains(mm_rqs) \ {h}
    BY <1>3, <2>1, ProgramsApart, HeadTailProperties, PlainsOfTail
  <2>3. h \notin Plains(list) /\ h \notin lost
    BY <2>2, ProgramsApart
  <2>4. ProgramsHold' = ProgramsHold \ {h} /\ h \in ProgramsHold
    BY <1>1, <2>2, <2>3 DEF ProgramsHold
  <2>5. CallersInv' /\ h \in Held /\ Held' = Held \ {h}
    <3>1. /\ CallersInv' /\ Held = JobHolds \cup ProgramsHold \cup SlotsHold
          /\ Held' = JobHolds \cup ProgramsHold' \cup SlotsHold
      BY <1>1, <2>2, <2>4, ProgramsApart, ProgramsKeep
    <3>2. ProgramsHold \cap (JobHolds \cup SlotsHold) = {}
      BY ProgramsApart
    <3> QED BY <2>4, <3>1, <3>2
  <2> QED BY <1>1, <2>1, <2>5, FreesKeep
<1> QED BY <1>2, <1>3

\* Nobody gives back what a program had when it was killed.
LEMMA KillHolds ==
  ASSUME HeldInv, Kill
  PROVE  HeldInv'
<1> DEFINE more == {[at |-> b.at, size |-> b.size] : b \in ToSet(list \o mm_rqs)}
<1>1. /\ lost' = lost \cup more /\ list' = <<>> /\ mm_rqs' = <<>>
      /\ UNCHANGED <<manager, mm, job, owned, exited>>
  BY DEF Kill
<1>2. more = Plains(list) \cup Plains(mm_rqs)
  <2>1. list \in Seq(Pieces \cup Asked) /\ mm_rqs \in Seq(Pieces \cup Asked)
    <3>1. list \in Seq(Pieces) /\ mm_rqs \in Seq(Asked)
      BY ProgramsApart
    <3>2. Pieces \subseteq Pieces \cup Asked /\ Asked \subseteq Pieces \cup Asked
      OBVIOUS
    <3> QED BY <3>1, <3>2, SeqMonotonic
  <2>2. Plains(list \o mm_rqs) = Plains(list) \cup Plains(mm_rqs)
    BY <2>1, PlainsOfConcat
  <2>3. \A q : {[at |-> b.at, size |-> b.size] : b \in ToSet(q)} = Plains(q)
    BY DEF Plains, ToSet, Plain
  <2> QED BY <2>2, <2>3
<1>3. Plains(list) \subseteq Pieces /\ Plains(mm_rqs) \subseteq Pieces
  <2>1. \A b \in Pieces \cup Asked : Plain(b) \in Pieces
    BY DEF Plain, Pieces, Asked
  <2>2. \A i \in DOMAIN list : list[i] \in Pieces
    BY ProgramsApart, LenProperties, ElementOfSeq
  <2>3. \A i \in DOMAIN mm_rqs : mm_rqs[i] \in Asked
    BY ProgramsApart, LenProperties, ElementOfSeq
  <2> QED BY <2>1, <2>2, <2>3 DEF Plains
<1> HIDE DEF more
<1>4. /\ Plains(list') = {} /\ Once(list') /\ list' \in Seq(Pieces) /\ Len(list') <= 1
      /\ Plains(mm_rqs') = {} /\ Once(mm_rqs') /\ mm_rqs' \in Seq(Asked)
  BY <1>1, NoPlains, EmptySeq
<1>5. lost' \subseteq Pieces /\ ProgramsHold' = ProgramsHold
  BY <1>1, <1>2, <1>3, <1>4, ProgramsApart DEF ProgramsHold
<1>6. CallersInv' /\ Held' = Held
  BY <1>1, <1>4, <1>5, ProgramsApart, ProgramsKeep
<1> QED BY <1>1, <1>6, MovesKeep

LEMMA HeldStarts == (MemInit /\ manager = "bitmap") => HeldInv /\ Given = {}
<1> SUFFICES ASSUME MemInit, manager = "bitmap" PROVE HeldInv /\ Given = {}
  OBVIOUS
<1>1. MMInv
  BY StartsRight DEF MemInit, MMInit
<1>2. CallersTypeOK /\ JobIsOrderly
  BY EmptySeq DEF MemInit, NoJob, CallersTypeOK, JobIsOrderly
<1>3. /\ JobHolds = {} /\ ProgramsHold = {} /\ Plains(list) = {} /\ Plains(mm_rqs) = {}
      /\ lost = {} /\ \A s \in ProcSlots : owned[s] = <<>>
  BY NoPlains DEF MemInit, NoJob, JobHolds, ProgramsHold
<1>4. OneHolder
  BY <1>3, NoPlains DEF OneHolder, MemInit, NoJob
<1>5. SlotsHold = {}
  BY <1>3, NoPlains DEF SlotsHold
<1>6. Held = {}
  BY <1>2, <1>3, <1>5, HeldByParts DEF HeldIsParts
<1>7. Given = {}
  <2>1. \A i \in Blocks : mm.contiguous_blocks[i] = 0
    BY DEF MemInit, CreateMM, NoTable
  <2> QED BY <2>1 DEF Given, GivenBlocks, Heads
<1> QED BY <1>1, <1>2, <1>4, <1>6, <1>7 DEF HeldInv, GivenIsHeld

\* Every step keeps the invariant, and is one of the allocator or leaves it
\* alone.
LEMMA HeldSteps ==
  HeldInv /\ [MemNext]_memVars =>
    /\ HeldInv'
    /\ MMAlloc \/ MMFree \/ UNCHANGED mm
    /\ KernelFrees => Given' = Given \ {Plain(Head(job.frees))}
<1> SUFFICES ASSUME HeldInv, [MemNext]_memVars
             PROVE  /\ HeldInv'
                    /\ MMAlloc \/ MMFree \/ UNCHANGED mm
                    /\ KernelFrees => Given' = Given \ {Plain(Head(job.frees))}
  OBVIOUS
<1> DEFINE Goal == HeldInv' /\ (MMAlloc \/ MMFree \/ UNCHANGED mm)
<1>1. SUFFICES Goal
  BY KernelFreesHolds
<1>2. CASE CreateProcess
  BY <1>2, CreateProcessHolds DEF CreateProcess
<1>3. CASE KernelFrees
  BY <1>3, KernelFreesHolds
<1>4. CASE KernelAllocs
  BY <1>4, KernelAllocsHolds
<1>5. ASSUME NEW s \in ProcSlots, ProcessExits(s) \/ Reap(s)
      PROVE  Goal
  <2>1. CASE ProcessExits(s)
    BY <2>1, ProcessExitsHolds DEF ProcessExits
  <2>2. CASE Reap(s)
    BY <2>2, ReapHolds DEF Reap
  <2> QED BY <1>5, <2>1, <2>2
<1>6. CASE GetProcList
  BY <1>6, GetProcListHolds
<1>7. CASE FreeProcList
  BY <1>7, FreeProcListHolds
<1>8. CASE TestStarts
  <2>1. mm' = mm
    BY <1>8 DEF TestStarts, CreateMM, HeldInv, MMInv
  <2>2. UNCHANGED <<manager, job, owned, exited, list, mm_rqs, lost>>
    BY <1>8 DEF TestStarts
  <2> QED BY <2>1, <2>2, NothingHappens
<1>9. CASE TestAllocs
  BY <1>9, TestAllocsHolds
<1>10. CASE TestChecks
  BY <1>10, NothingHappens DEF TestChecks
<1>11. CASE TestFrees
  BY <1>11, TestFreesHolds
<1>12. CASE Kill
  BY <1>12, KillHolds DEF Kill
<1>13. CASE UNCHANGED memVars
  BY <1>13, NothingHappens DEF memVars
<1> QED BY <1>2, <1>3, <1>4, <1>5, <1>6, <1>7, <1>8, <1>9, <1>10, <1>11, <1>12, <1>13
        DEF MemNext

LEMMA HeldInvariant ==
  ASSUME Managers = {"bitmap"}
  PROVE  MemSpec => []HeldInv
<1>1. MemInit => HeldInv
  BY HeldStarts DEF MemInit
<1>2. HeldInv /\ [MemNext]_memVars => HeldInv'
  BY HeldSteps
<1> QED BY <1>1, <1>2, PTL DEF MemSpec

\* The tables of the first allocator and the pointers of everybody who calls
\* it agree on every block, for any number of slots and any requests: what
\* create_process() undoes half way, wait() gives back and ps and test-mm free
\* is what they were given, once, and what is lost with a killed program is all
\* that is lost.
THEOREM EveryBlockHasItsHolder ==
  ASSUME Managers = {"bitmap"}
  PROVE  MemSpec => []GivenIsHeld
<1>1. HeldInv => GivenIsHeld
  BY DEF HeldInv
<1> QED BY <1>1, HeldInvariant, PTL

\* free() takes back the block it is given and no other, when the kernel undoes
\* a process: the buddy allocator does not (the run buddy_wrap).
THEOREM BitmapFreesItsBlock ==
  ASSUME Managers = {"bitmap"}
  PROVE  MemSpec => FreesItsBlock
<1>1. HeldInv /\ [MemNext]_memVars =>
        [KernelFrees => Given' = Given \ {Plain(Head(job.frees))}]_memVars
  BY HeldSteps
<1> QED BY <1>1, HeldInvariant, PTL DEF MemSpec, FreesItsBlock

\* All of its callers at once see a heap: each block is a piece of its own, and
\* stays so until its holder gives it back.
THEOREM HeapForItsCallers ==
  ASSUME Managers = {"bitmap"}
  PROVE  MemSpec => BitmapHeap!Spec
<1> DEFINE g == IF manager = "bitmap" THEN Given ELSE {}
<1>1. MemInit => BitmapHeap!Init
  <2> SUFFICES ASSUME MemInit PROVE BitmapHeap!Init
    OBVIOUS
  <2>1. manager = "bitmap"
    BY DEF MemInit
  <2> QED BY <2>1, HeldStarts DEF BitmapHeap!Init
<1>2. HeldInv /\ [MemNext]_memVars =>
        [BitmapHeap!Give \/ BitmapHeap!TakeBack]_g
  <2> SUFFICES ASSUME HeldInv, [MemNext]_memVars
               PROVE  BitmapHeap!Give \/ BitmapHeap!TakeBack \/ UNCHANGED g
    OBVIOUS
  <2>1. MMInv /\ HeldInv' /\ (MMAlloc \/ MMFree \/ UNCHANGED mm)
    BY HeldSteps DEF HeldInv
  <2>2. g = MMGiven /\ g' = MMGiven'
    BY <2>1 DEF HeldInv, Given, MMGiven
  <2>3. CASE mm' = mm
    BY <2>2, <2>3 DEF MMGiven, GivenBlocks, Heads
  <2>4. CASE MMHeap!Give
    BY <2>2, <2>4 DEF MMHeap!Give, BitmapHeap!Give, MMHeap!Span, BitmapHeap!Span,
                      MMHeap!Apart, BitmapHeap!Apart, MMBytes
  <2>5. CASE MMHeap!TakeBack
    BY <2>2, <2>5 DEF MMHeap!TakeBack, BitmapHeap!TakeBack
  <2>6. CASE MMAlloc
    BY <2>1, <2>3, <2>4, <2>6, AllocTakes, TakeGives
  <2>7. CASE MMFree
    BY <2>1, <2>5, <2>7, FreeTakesBack DEF MMFree
  <2> QED BY <2>1, <2>3, <2>6, <2>7
<1> QED BY <1>1, <1>2, HeldInvariant, PTL DEF MemSpec, BitmapHeap!Spec

-----------------------------------------------------------------------------
(* alloc() refuses what does not fit, and nothing else.                    *)

\* The order of blocks is that of their first bytes.
LEMMA BytesOrder ==
  ASSUME NEW a \in Nat, NEW b \in Nat
  PROVE  a * BLOCK_SIZE <= b * BLOCK_SIZE <=> a <= b
<1>1. CASE a <= b
  BY <1>1, BytesGrow
<1>2. CASE ~(a <= b)
  <2>1. b + 1 <= a
    BY <1>2
  <2>2. (b + 1) * BLOCK_SIZE <= a * BLOCK_SIZE /\ a * BLOCK_SIZE \in Nat
        /\ b * BLOCK_SIZE \in Nat
    BY <2>1, BytesGrow
  <2>3. (b + 1) * BLOCK_SIZE = b * BLOCK_SIZE + BLOCK_SIZE
    BY BlocksAssumption
  <2> QED BY <1>2, <2>2, <2>3, BlocksAssumption
<1> QED BY <1>1, <1>2

LEMMA BlocksOfBlocks ==
  ASSUME NEW k \in Nat, k <= TOTAL_BLOCK_COUNT
  PROVE  BlocksFor(k * BLOCK_SIZE) = k
<1>1. /\ BLOCK_SIZE \in Nat \ {0} /\ k * BLOCK_SIZE \in Nat
      /\ UINT32_COUNT \in Nat /\ k < UINT32_COUNT
  BY BlocksAssumption
<1>2. (k * BLOCK_SIZE + BLOCK_SIZE - 1) \div BLOCK_SIZE = k
  BY <1>1
<1>3. k % UINT32_COUNT = k
  BY <1>1
<1> QED BY <1>2, <1>3 DEF BlocksFor

\* What the heap could hold is among the sizes.
LEMMA HeapIsSizes ==
  ASSUME NEW i \in 1 .. TOTAL_BLOCK_COUNT * BLOCK_SIZE
  PROVE  i \in CountedSizes
<1>1. /\ TOTAL_BLOCK_COUNT \in Nat /\ BLOCK_SIZE \in Nat
      /\ UINT32_COUNT - 1 \in Nat /\ TOTAL_BLOCK_COUNT <= UINT32_COUNT - 1
  BY BlocksAssumption
<1>2. /\ TOTAL_BLOCK_COUNT * BLOCK_SIZE <= (UINT32_COUNT - 1) * BLOCK_SIZE
      /\ TOTAL_BLOCK_COUNT * BLOCK_SIZE \in Nat
      /\ (UINT32_COUNT - 1) * BLOCK_SIZE \in Nat
  BY <1>1, BytesGrow
<1> QED BY <1>2 DEF CountedSizes

LEMMA BlocksForHeap ==
  ASSUME NEW i \in 1 .. TOTAL_BLOCK_COUNT * BLOCK_SIZE
  PROVE  BlocksFor(i) \in 1 .. TOTAL_BLOCK_COUNT
<1> DEFINE k == BlocksFor(i)
<1>1. TOTAL_BLOCK_COUNT \in Nat /\ BLOCK_SIZE \in Nat \ {0}
      /\ TOTAL_BLOCK_COUNT * BLOCK_SIZE \in Nat
  BY BlocksAssumption
<1>2. i \in Nat /\ i # 0 /\ i <= TOTAL_BLOCK_COUNT * BLOCK_SIZE
  BY <1>1
<1>3. k \in Nat \ {0} /\ k = (i + BLOCK_SIZE - 1) \div BLOCK_SIZE
  BY <1>2, HeapIsSizes, BlocksForIsPositive, SizesCounted
<1>4. k * BLOCK_SIZE <= i + BLOCK_SIZE - 1 /\ k * BLOCK_SIZE \in Nat
  BY <1>1, <1>2, <1>3
<1> HIDE DEF k
<1>5. k <= TOTAL_BLOCK_COUNT
  <2> SUFFICES ASSUME ~(k <= TOTAL_BLOCK_COUNT) PROVE FALSE
    OBVIOUS
  <2>1. TOTAL_BLOCK_COUNT + 1 <= k
    BY <1>1, <1>3
  <2>2. (TOTAL_BLOCK_COUNT + 1) * BLOCK_SIZE <= k * BLOCK_SIZE
    BY <1>1, <1>3, <2>1, BytesGrow
  <2>3. (TOTAL_BLOCK_COUNT + 1) * BLOCK_SIZE
          = TOTAL_BLOCK_COUNT * BLOCK_SIZE + BLOCK_SIZE
    BY <1>1
  <2> QED BY <1>1, <1>2, <1>4, <2>2, <2>3
<1> QED BY <1>1, <1>3, <1>5 DEF k

\* A run of k free blocks and no block handed out within reach of it are the
\* same thing.
LEMMA RoomIsRun ==
  ASSUME MMInv, NEW k \in Nat \ {0}, NEW i \in Nat, i + k <= TOTAL_BLOCK_COUNT
  PROVE  i \in Fits(mm, k) <=>
           \A b \in MMGiven : \/ b.at + b.size <= i * BLOCK_SIZE
                              \/ i * BLOCK_SIZE + k * BLOCK_SIZE <= b.at
<1>1. i \in Blocks /\ \A j \in i .. i + k - 1 : j \in Blocks
  BY BlocksAssumption DEF Blocks
<1>2. MMTypeOK /\ RunsAreWhole /\ \A j \in Blocks : mm.status[j] \in {FREE, USED}
  BY DEF MMInv, MMTypeOK, TableType
<1>3. ASSUME NEW h \in Heads(mm), NEW c \in Nat \ {0}, c = mm.contiguous_blocks[h]
      PROVE  /\ Piece(h, c).at = h * BLOCK_SIZE
             /\ (Piece(h, c).at + Piece(h, c).size <= i * BLOCK_SIZE) <=> (h + c <= i)
             /\ (i * BLOCK_SIZE + k * BLOCK_SIZE <= Piece(h, c).at) <=> (i + k <= h)
             /\ h \in Nat
  <2>1. h \in Nat
    BY <1>2, RunsLieInTable DEF Blocks
  <2>2. h * BLOCK_SIZE + c * BLOCK_SIZE = (h + c) * BLOCK_SIZE
        /\ i * BLOCK_SIZE + k * BLOCK_SIZE = (i + k) * BLOCK_SIZE
    BY <2>1, EndOfPiece
  <2>3. h + c \in Nat /\ i + k \in Nat
    BY <2>1
  <2> QED BY <2>1, <2>2, <2>3, BytesOrder DEF Piece
<1>4. ASSUME i \in Fits(mm, k), NEW b \in MMGiven
      PROVE  \/ b.at + b.size <= i * BLOCK_SIZE
             \/ i * BLOCK_SIZE + k * BLOCK_SIZE <= b.at
  <2>1. PICK h \in Heads(mm) : b = Piece(h, mm.contiguous_blocks[h])
    BY GivenAsPieces DEF GivenIsPieces
  <2>2. PICK c \in Nat \ {0} : c = mm.contiguous_blocks[h]
    BY <1>2, RunsLieInTable
  <2>3. h \in Nat /\ \A j \in h .. h + c - 1 : mm.status[j] = USED
    BY <1>2, <1>3, <2>2, RunsLieInTable DEF RunOf
  <2>4. \A j \in i .. i + k - 1 : mm.status[j] = FREE
    BY <1>4 DEF Fits
  <2>5. i \notin h .. h + c - 1 /\ h \notin i .. i + k - 1
    BY <2>3, <2>4 DEF FREE, USED
  <2>6. h + c <= i \/ i + k <= h
    BY <2>3, <2>5
  <2> QED BY <1>3, <2>1, <2>2, <2>6
<1>5. ASSUME \A b \in MMGiven : \/ b.at + b.size <= i * BLOCK_SIZE
                                \/ i * BLOCK_SIZE + k * BLOCK_SIZE <= b.at,
             NEW j \in i .. i + k - 1
      PROVE  mm.status[j] = FREE
  <2> SUFFICES ASSUME mm.status[j] # FREE PROVE FALSE
    OBVIOUS
  <2>1. PICK h \in Heads(mm) : j \in h .. h + mm.contiguous_blocks[h] - 1
    BY <1>1, <1>2 DEF RunsAreWhole
  <2>2. PICK c \in Nat \ {0} : c = mm.contiguous_blocks[h]
    BY <1>2, RunsLieInTable
  <2>3. Piece(h, c) \in MMGiven
    BY <2>2, GivenAsPieces DEF GivenIsPieces
  <2>4. h \in Nat /\ (h + c <= i \/ i + k <= h)
    BY <1>3, <1>5, <2>2, <2>3
  <2> QED BY <2>1, <2>2, <2>4
<1> QED BY <1>1, <1>4, <1>5 DEF Fits

\* alloc() never looks at the figure free_blocks in vain.
LEMMA AllocRefuses ==
  ASSUME manager = "bitmap", MMInv, NEW k \in Nat \ {0}, k <= TOTAL_BLOCK_COUNT
  PROVE  AllocResult(k * BLOCK_SIZE).at = NULL <=> Fits(mm, k) = {}
<1> DEFINE size == k * BLOCK_SIZE
           at == FirstFit(mm, k)
<1>1. size # 0 /\ BlocksFor(size) = k
  BY BlocksOfBlocks, BlocksAssumption
<1>2. CASE Fits(mm, k) = {}
  <2>1. at = NULL
    BY <1>2 DEF FirstFit
  <2> QED BY <1>1, <1>2, <2>1 DEF AllocResult, Alloc
<1>3. CASE Fits(mm, k) # {}
  <2>1. at \in Fits(mm, k) /\ at \in Blocks
    BY <1>3, LowestIsLowest DEF FirstFit, Fits
  <2>2. at \in Nat /\ at # NULL
    BY <2>1 DEF Blocks, NULL
  <2>3. ~(k > mm.free_blocks)
    <3> HIDE DEF at
    <3>1. /\ IsFiniteSet(at .. at + k - 1) /\ Cardinality(at .. at + k - 1) = k
      BY <2>1, RunLength
    <3>2. at .. at + k - 1 \subseteq FreeBlocks(mm)
      BY <2>1, <2>2, BlocksAssumption DEF Fits, FreeBlocks, Blocks
    <3>3. FreeBlocks(mm) \in SUBSET Blocks
      BY DEF FreeBlocks
    <3>4. /\ IsFiniteSet(FreeBlocks(mm)) /\ Cardinality(FreeBlocks(mm)) \in Nat
          /\ mm.free_blocks = Cardinality(FreeBlocks(mm))
      BY <3>3, BlocksFinite DEF MMInv, FreeBlocksCounted
    <3>5. Cardinality(at .. at + k - 1) <= Cardinality(FreeBlocks(mm))
      BY <3>2, <3>4, FS_Subset
    <3> QED BY <3>1, <3>4, <3>5
  <2>4. Alloc(mm, size).at = at * BLOCK_SIZE
    BY <1>1, <2>2, <2>3 DEF Alloc, MMInv
  <2>5. at * BLOCK_SIZE \in Nat
    BY <2>2, BlocksAssumption
  <2> HIDE DEF at, size
  <2>6. AllocResult(size).at = at * BLOCK_SIZE
    BY <2>4 DEF AllocResult
  <2> QED BY <1>3, <2>5, <2>6 DEF NULL, size
<1> QED BY <1>2, <1>3

LEMMA RoomForBlocks ==
  ASSUME HeldInv, NEW k \in Nat \ {0}, k <= TOTAL_BLOCK_COUNT
  PROVE  Room(k * BLOCK_SIZE) <=> Fits(mm, k) # {}
<1> DEFINE size == k * BLOCK_SIZE
           Clear(i) == \A b \in MMGiven : \/ b.at + b.size <= i * BLOCK_SIZE
                                          \/ i * BLOCK_SIZE + size <= b.at
<1>1. MMInv /\ manager = "bitmap" /\ Held = MMGiven
  BY DEF HeldInv, GivenIsHeld, Given, MMGiven
<1>2. TOTAL_BLOCK_COUNT \in Nat /\ BLOCK_SIZE \in Nat \ {0}
      /\ HeapBytes = TOTAL_BLOCK_COUNT * BLOCK_SIZE
  BY <1>1, BlocksAssumption DEF HeapBytes
<1>3. HeapBytes \div BLOCK_SIZE = TOTAL_BLOCK_COUNT
  BY <1>2
<1>4. Rounded(size) = size
  BY <1>1, BlocksOfBlocks DEF Rounded
<1>5. \A i \in Nat : i * BLOCK_SIZE + size <= HeapBytes <=> i + k <= TOTAL_BLOCK_COUNT
  <2> TAKE i \in Nat
  <2>1. i * BLOCK_SIZE + size = (i + k) * BLOCK_SIZE
    BY EndOfPiece
  <2>2. i + k \in Nat
    OBVIOUS
  <2> QED BY <1>2, <2>1, <2>2, BytesOrder
<1> HIDE DEF size
<1>6. Room(size) <=> \E i \in 0 .. TOTAL_BLOCK_COUNT :
                       i * BLOCK_SIZE + size <= HeapBytes /\ Clear(i)
  BY <1>1, <1>3, <1>4 DEF Room
<1> HIDE DEF Clear
<1>7. Room(size) <=> \E i \in Nat : i + k <= TOTAL_BLOCK_COUNT /\ Clear(i)
  <2>1. \A i \in Nat : i + k <= TOTAL_BLOCK_COUNT => i \in 0 .. TOTAL_BLOCK_COUNT
    BY <1>2
  <2>2. \A i \in 0 .. TOTAL_BLOCK_COUNT : i \in Nat
    OBVIOUS
  <2> QED BY <1>5, <1>6, <2>1, <2>2
<1>8. \A i \in Nat : i + k <= TOTAL_BLOCK_COUNT => (i \in Fits(mm, k) <=> Clear(i))
  BY <1>1, RoomIsRun DEF Clear, size
<1>9. \A i \in Fits(mm, k) : i \in Nat /\ i + k <= TOTAL_BLOCK_COUNT
  BY <1>2 DEF Fits, Blocks
<1>10. Room(size) <=> Fits(mm, k) # {}
  BY <1>7, <1>8, <1>9
<1> QED BY <1>10 DEF size

\* A request of anybody is refused only when there is no room for it between
\* the blocks that somebody holds: neither the hint the search starts from, nor
\* the blocks it jumps over, nor the figure it looks at first hides any.
THEOREM RefusedOnlyWithoutRoom ==
  ASSUME Managers = {"bitmap"}
  PROVE  MemSpec => []RoomIsFound
<1>1. HeldInv => RoomIsFound
  <2> SUFFICES ASSUME HeldInv, NEW i \in 1 .. HeapBytes
               PROVE  LET size == Rounded(i) IN
                        /\ manager = "bitmap" =>
                             Scan(mm, BlocksFor(size)) = FirstFit(mm, BlocksFor(size))
                        /\ (AllocResult(size).at = NULL) <=> ~Room(size)
    BY DEF RoomIsFound
  <2>1. MMInv /\ manager = "bitmap"
    BY DEF HeldInv
  <2>2. HeapBytes = TOTAL_BLOCK_COUNT * BLOCK_SIZE
    BY <2>1 DEF HeapBytes
  <2> DEFINE k == BlocksFor(i)
  <2>3. k \in 1 .. TOTAL_BLOCK_COUNT /\ Rounded(i) = k * BLOCK_SIZE
    BY <2>1, <2>2, BlocksForHeap DEF Rounded
  <2> HIDE DEF k
  <2>4. k \in Nat \ {0} /\ k <= TOTAL_BLOCK_COUNT
    BY <2>3, BlocksAssumption
  <2>5. BlocksFor(k * BLOCK_SIZE) = k
    BY <2>4, BlocksOfBlocks
  <2>6. Scan(mm, k) = FirstFit(mm, k)
    BY <2>1, <2>3, InvScans DEF ScanIsFirstFit, MMInv
  <2>7. AllocResult(k * BLOCK_SIZE).at = NULL <=> ~Room(k * BLOCK_SIZE)
    BY <2>1, <2>4, AllocRefuses, RoomForBlocks
  <2> QED BY <2>3, <2>5, <2>6, <2>7
<1> QED BY <1>1, HeldInvariant, PTL

-----------------------------------------------------------------------------
(* The sum that mem should print, over the blocks that are held, is a fold *)
(* over a finite set.  As the loop of alloc() it is the one solution of an *)
(* equation: two of them would differ at a smallest set.                   *)

Sum(S) == FoldSet(LAMBDA b, sum : sum + b.size, 0, S)

SumRound(S, f) ==
  [s \in SUBSET S |-> IF s = {} THEN 0
                      ELSE LET x == CHOOSE x \in s : TRUE IN f[s \ {x}] + x.size]

LEMMA SumIsRound ==
  ASSUME NEW S
  PROVE  Sum(S) = (CHOOSE f : f = SumRound(S, f))[S]
<1>1. Sum(S) = LET f[s \in SUBSET S] ==
                     IF s = {} THEN 0
                     ELSE LET x == CHOOSE x \in s : TRUE IN f[s \ {x}] + x.size
               IN f[S]
  BY DEF Sum, FoldSet, MapThenFoldSet
<1> QED BY <1>1 DEF SumRound

LEMMA SumHasOneValue ==
  ASSUME NEW S, IsFiniteSet(S), NEW w \in [SUBSET S -> Int],
         w[{}] = 0,
         \A s \in SUBSET S : \A x \in s : w[s] = w[s \ {x}] + x.size
  PROVE  Sum(S) = w[S]
<1> DEFINE f == CHOOSE f : f = SumRound(S, f)
           Wrong(n) == \E s \in SUBSET S : Cardinality(s) = n /\ f[s] # w[s]
           D == {n \in Nat : Wrong(n)}
<1>1. w = SumRound(S, w)
  <2>1. ASSUME NEW s \in SUBSET S
        PROVE  w[s] = IF s = {} THEN 0
                      ELSE LET x == CHOOSE x \in s : TRUE IN w[s \ {x}] + x.size
    <3>1. s # {} => (CHOOSE x \in s : TRUE) \in s
      OBVIOUS
    <3> QED BY <3>1
  <2> QED BY <2>1 DEF SumRound
<1>2. f = SumRound(S, f)
  BY <1>1
<1>3. \A s \in SUBSET S :
        f[s] = IF s = {} THEN 0
               ELSE LET x == CHOOSE x \in s : TRUE IN f[s \ {x}] + x.size
  <2>1. \A g : \A s \in SUBSET S :
          SumRound(S, g)[s] = IF s = {} THEN 0
                              ELSE LET x == CHOOSE x \in s : TRUE IN g[s \ {x}] + x.size
    BY DEF SumRound
  <2> HIDE DEF f
  <2>2. \A s \in SUBSET S : f[s] = SumRound(S, f)[s]
    BY <1>2, Zenon
  <2> QED BY <2>1, <2>2
<1> HIDE DEF f, Wrong
<1>4. D = {}
  <2> SUFFICES ASSUME D # {} PROVE FALSE
    OBVIOUS
  <2>1. PICK n \in D : \A m \in D : n <= m
    BY HasLowest
  <2>2. PICK s \in SUBSET S : Cardinality(s) = n /\ f[s] # w[s]
    BY <2>1 DEF Wrong
  <2>3. s # {}
    BY <1>3, <2>2
  <2>4. PICK x \in s : x = CHOOSE y \in s : TRUE
    BY <2>3
  <2>5. /\ s \ {x} \in SUBSET S
        /\ Cardinality(s \ {x}) = n - 1 /\ n - 1 \in Nat
    <3>1. IsFiniteSet(s)
      BY FS_Subset
    <3>2. IsFiniteSet(s \ {x}) /\ Cardinality(s \ {x}) = n - 1
      BY <2>2, <2>4, <3>1, FS_RemoveElement
    <3>3. Cardinality(s \ {x}) \in Nat
      BY <3>2, FS_CardinalityType
    <3> QED BY <3>2, <3>3
  <2>6. n - 1 \notin D
    BY <2>1, <2>5
  <2>7. f[s \ {x}] = w[s \ {x}]
    BY <2>5, <2>6 DEF Wrong
  <2>8. f[s] = f[s \ {x}] + x.size /\ w[s] = w[s \ {x}] + x.size
    BY <1>3, <2>3, <2>4
  <2> QED BY <2>2, <2>7, <2>8
<1>5. f[S] = w[S]
  BY <1>4, FS_CardinalityType DEF Wrong
<1> QED BY <1>5, SumIsRound DEF f

\* The blocks of the table that a set of pieces takes up.
Cover(s) == {j \in Blocks : \E h \in Heads(mm) :
               Piece(h, mm.contiguous_blocks[h]) \in s /\ j \in RunOf(mm, h)}

LEMMA GivenIsFinite ==
  ASSUME MMInv
  PROVE  IsFiniteSet(MMGiven)
<1> DEFINE f == [h \in Heads(mm) |-> Piece(h, mm.contiguous_blocks[h])]
<1>1. Heads(mm) \in SUBSET Blocks
  BY DEF Heads
<1>2. IsFiniteSet(Heads(mm))
  BY <1>1, BlocksFinite
<1>3. f \in [Heads(mm) -> MMGiven] /\ \A b \in MMGiven : \E h \in Heads(mm) : f[h] = b
  BY GivenAsPieces DEF GivenIsPieces
<1> HIDE DEF f
<1>4. f \in Surjection(Heads(mm), MMGiven)
  BY <1>3 DEF Surjection
<1> QED BY <1>2, <1>4, FS_Surjection

\* One piece more, and the sum grows by its blocks.
LEMMA CoverGrows ==
  ASSUME MMInv, NEW s \in SUBSET MMGiven, NEW x \in s
  PROVE  /\ Cardinality(Cover(s)) * BLOCK_SIZE
              = Cardinality(Cover(s \ {x})) * BLOCK_SIZE + x.size
         /\ Cardinality(Cover(s)) \in Nat
<1>1. MMTypeOK /\ RunsAreWhole
  BY DEF MMInv
<1>2. PICK h \in Heads(mm) : x = Piece(h, mm.contiguous_blocks[h])
  BY GivenAsPieces DEF GivenIsPieces
<1>3. PICK c \in Nat \ {0} : c = mm.contiguous_blocks[h]
  BY <1>1, RunsLieInTable
<1> DEFINE run == RunOf(mm, h)
           rest == Cover(s \ {x})
<1>4. h \in Blocks /\ run \subseteq Blocks /\ run = h .. h + c - 1
  BY <1>1, <1>3, RunsLieInTable DEF RunOf
<1>5. IsFiniteSet(run) /\ Cardinality(run) = c
  BY <1>3, <1>4, RunLength
<1>6. rest \in SUBSET Blocks /\ Cover(s) \in SUBSET Blocks
  BY DEF Cover
<1>7. IsFiniteSet(rest) /\ Cardinality(rest) \in Nat /\ Cardinality(Cover(s)) \in Nat
  BY <1>6, BlocksFinite
<1>8. \A k \in Heads(mm) : Piece(k, mm.contiguous_blocks[k]) = x => k = h
  BY <1>2, PiecesDiffer DEF Heads
<1>9. Cover(s) = rest \cup run
  <2>1. ASSUME NEW j \in Cover(s) PROVE j \in rest \cup run
    <3>1. PICK k \in Heads(mm) : /\ Piece(k, mm.contiguous_blocks[k]) \in s
                                 /\ j \in RunOf(mm, k) /\ j \in Blocks
      BY <2>1 DEF Cover
    <3>2. CASE k = h
      BY <3>1, <3>2
    <3>3. CASE k # h
      BY <1>8, <3>1, <3>3 DEF Cover
    <3> QED BY <3>2, <3>3
  <2>2. run \subseteq Cover(s)
    BY <1>2, <1>4 DEF Cover
  <2>3. rest \subseteq Cover(s)
    BY DEF Cover
  <2> QED BY <2>1, <2>2, <2>3
<1>10. rest \cap run = {}
  <2> SUFFICES ASSUME NEW j \in rest, j \in run PROVE FALSE
    OBVIOUS
  <2>1. PICK k \in Heads(mm) : /\ Piece(k, mm.contiguous_blocks[k]) \in s \ {x}
                               /\ j \in RunOf(mm, k)
    BY DEF Cover
  <2>2. k # h
    BY <1>2, <2>1
  <2>3. RunOf(mm, k) \cap RunOf(mm, h) = {}
    BY <1>1, <2>2, RunsAreDisjoint
  <2> QED BY <2>1, <2>3
<1> HIDE DEF run, rest
<1>11. Cardinality(Cover(s)) = Cardinality(rest) + c
  <2>1. Cardinality(rest \cup run) = Cardinality(rest) + Cardinality(run) - Cardinality({})
    BY <1>5, <1>7, <1>10, FS_Union
  <2> QED BY <1>5, <1>7, <1>9, <2>1, FS_EmptySet
<1>12. x.size = c * BLOCK_SIZE
  BY <1>2, <1>3 DEF Piece
<1>13. \A a, b \in Nat : (a + b) * BLOCK_SIZE = a * BLOCK_SIZE + b * BLOCK_SIZE
  BY BlocksAssumption
<1> QED BY <1>3, <1>7, <1>11, <1>12, <1>13 DEF rest

\* What mem prints as used is the bytes of the blocks that somebody holds: the
\* kernel for its processes, ps, test-mm, or nobody any more.
THEOREM MemPrintsWhatIsHeld ==
  ASSUME Managers = {"bitmap"}
  PROVE  MemSpec => []MemReportsHeld
<1>1. HeldInv => MemReportsHeld
  <2> SUFFICES ASSUME HeldInv PROVE UsedBytes(mm) = Sum(Held)
    BY DEF MemReportsHeld, Sum
  <2>1. MMInv /\ Held = MMGiven
    BY DEF HeldInv, GivenIsHeld, Given, MMGiven
  <2> DEFINE w == [s \in SUBSET MMGiven |-> Cardinality(Cover(s)) * BLOCK_SIZE]
  <2>2. \A s \in SUBSET MMGiven : Cover(s) \in SUBSET Blocks
    BY DEF Cover
  <2>3. w \in [SUBSET MMGiven -> Int]
    BY <2>2, BlocksFinite, BlocksAssumption
  <2>4. w[{}] = 0
    <3>1. Cover({}) = {}
      BY DEF Cover
    <3> QED BY <3>1, FS_EmptySet, BlocksAssumption
  <2>5. \A s \in SUBSET MMGiven : \A x \in s : w[s] = w[s \ {x}] + x.size
    BY <2>1, CoverGrows
  <2>6. w[MMGiven] = Cardinality(Cover(MMGiven)) * BLOCK_SIZE
    OBVIOUS
  <2> HIDE DEF w
  <2>7. Sum(MMGiven) = Cardinality(Cover(MMGiven)) * BLOCK_SIZE
    BY <2>1, <2>3, <2>4, <2>5, <2>6, GivenIsFinite, SumHasOneValue
  <2>8. Cover(MMGiven) = Blocks \ FreeBlocks(mm)
    <3>1. MMTypeOK /\ RunsAreWhole /\ \A j \in Blocks : mm.status[j] \in {FREE, USED}
      BY <2>1 DEF MMInv, MMTypeOK, TableType
    <3>2. \A h \in Heads(mm) : Piece(h, mm.contiguous_blocks[h]) \in MMGiven
      BY GivenAsPieces DEF GivenIsPieces
    <3>3. ASSUME NEW j \in Cover(MMGiven) PROVE j \in Blocks \ FreeBlocks(mm)
      BY <3>1, <3>3, RunsLieInTable DEF Cover, FreeBlocks, FREE, USED
    <3>4. ASSUME NEW j \in Blocks \ FreeBlocks(mm) PROVE j \in Cover(MMGiven)
      <4>1. mm.status[j] = USED
        BY <3>1, <3>4 DEF FreeBlocks
      <4>2. PICK h \in Heads(mm) : j \in RunOf(mm, h)
        BY <3>1, <3>4, <4>1 DEF RunsAreWhole, RunOf
      <4> QED BY <3>2, <3>4, <4>2 DEF Cover
    <3> QED BY <3>3, <3>4
  <2>9. Cardinality(Blocks \ FreeBlocks(mm)) = TOTAL_BLOCK_COUNT - mm.free_blocks
    <3>1. FreeBlocks(mm) \subseteq Blocks /\ mm.free_blocks = Cardinality(FreeBlocks(mm))
      BY <2>1 DEF FreeBlocks, MMInv, FreeBlocksCounted
    <3>2. Blocks \cap FreeBlocks(mm) = FreeBlocks(mm)
      BY <3>1
    <3>3. PICK F : F = FreeBlocks(mm)
      OBVIOUS
    <3>4. Cardinality(Blocks \ F) = Cardinality(Blocks) - Cardinality(Blocks \cap F)
      BY BlocksFinite, FS_Difference
    <3> QED BY <3>1, <3>2, <3>3, <3>4, BlocksFinite
  <2> QED BY <2>1, <2>7, <2>8, <2>9 DEF UsedBytes
<1> QED BY <1>1, HeldInvariant, PTL

===============================================================================
