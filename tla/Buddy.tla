-------------------------------- MODULE Buddy --------------------------------
(***************************************************************************)
(* The other allocator, Kernel/memory_management/buddy_memory_manager.c    *)
(* with libs/lib_buddy.c and libs/lib_bit.c, chosen by "make buddy": free  *)
(* blocks of size LEAF_SIZE * 2^k in one list per k.                       *)
(*                                                                         *)
(* A bit array is the set of the indices of its bits that are set, a list  *)
(* the sequence of the addresses on it.  An address is its offset from     *)
(* LINEAR_ALLOCATOR_START.  addr_to_bi() keeps the distance of a block to  *)
(* the base in a uint16_t, which has ADDR_RANGE values.                    *)
(*                                                                         *)
(* list_remove() of a block that is on no list writes through whatever its *)
(* first bytes are: what follows is outside of this model, intact tells.   *)
(***************************************************************************)
EXTENDS Integers, Sequences, SequencesExt

CONSTANTS NSIZES, LEAF_SIZE, ADDR_RANGE

ASSUME BuddyAssumption == NSIZES \in Nat \ {0} /\ LEAF_SIZE \in Nat \ {0}
                          /\ ADDR_RANGE \in Nat \ {0}

MAXSIZE == NSIZES - 1
Sizes == 0 .. MAXSIZE
BlkSize(k) == 2^k * LEAF_SIZE
NBlk(k) == 2^(MAXSIZE - k)
HEAP_SIZE == BlkSize(MAXSIZE)

NOTHING == -1  \* the NULL pointer

NoBuddy == [free |-> [k \in Sizes |-> <<>>], alloc |-> [k \in Sizes |-> {}],
            split |-> [k \in Sizes |-> {}], base |-> 0, allocated |-> 0,
            intact |-> TRUE]

Lowest(S) == CHOOSE i \in S : \A j \in S : i <= j

-----------------------------------------------------------------------------
(* lib_buddy.c                                                             *)

FirstPower(n) == Lowest({k \in 0 .. n : BlkSize(k) >= n})

AddrToBi(b, k, p) == ((p - b.base) % ADDR_RANGE) \div BlkSize(k)

BiToAddr(b, k, bi) == b.base + bi * BlkSize(k)

ListPush(b, k, p) == [b EXCEPT !.free[k] = <<p>> \o @]

ListRemove(b, p) ==
  [b EXCEPT !.free = [k \in Sizes |-> Remove(b.free[k], p)],
            !.intact = @ /\ \E k \in Sizes : Contains(b.free[k], p)]

-----------------------------------------------------------------------------
(* buddy_memory_manager.c                                                  *)

\* linearMalloc() of the bit arrays: never given back.
BitmapBytes(K) == LET bytes[k \in {-1} \cup Sizes] ==
                        IF k = -1 THEN 0
                        ELSE bytes[k - 1]
                             + (IF k \in K THEN (NBlk(k) + 7) \div 8 ELSE 0)
                  IN bytes[MAXSIZE]

\* create_mm(), each time with a heap behind the one before.
BuddyCreateMM(b) ==
  ListPush([NoBuddy EXCEPT
              !.base = b.allocated,
              !.allocated = b.allocated + HEAP_SIZE
                            + BitmapBytes(Sizes) + BitmapBytes(Sizes \ {0}),
              !.intact = b.intact],
           MAXSIZE, b.allocated)

\* block_size(): the size below the first split block around p; a block that is
\* the whole heap has none.
BlockSize(b, p) ==
  LET below == {k \in 0 .. MAXSIZE - 1 : AddrToBi(b, k + 1, p) \in b.split[k + 1]}
  IN IF below = {} THEN 0 ELSE Lowest(below)

\* alloc(): the first free block of the smallest size that will do is split down
\* to the size asked for, each upper half on its list.
BuddyAlloc(b, nbytes) ==
  LET power == FirstPower(nbytes)
      ks == {k \in power .. MAXSIZE : b.free[k] # <<>>}
  IN IF ks = {} THEN [b |-> b, at |-> NOTHING]
     ELSE LET k == Lowest(ks)
              p == Head(b.free[k])
          IN [at |-> p,
              b  |-> [b EXCEPT
                !.free = [j \in Sizes |-> IF j = k THEN Tail(@[j])
                                          ELSE IF j \in power .. k - 1
                                          THEN <<p + BlkSize(j)>> \o @[j] ELSE @[j]],
                !.alloc = [j \in Sizes |-> IF j \in power .. k
                                           THEN @[j] \cup {AddrToBi(b, j, p)} ELSE @[j]],
                !.split = [j \in Sizes |-> IF j \in power + 1 .. k
                                           THEN @[j] \cup {AddrToBi(b, j, p)} ELSE @[j]]]]

\* Mutant: one merge at most.
MergeUp_Once(x) ==
  LET k == x.k
      bi == AddrToBi(x.b, k, x.p)
      c == [x.b EXCEPT !.alloc[k] = @ \ {bi}]
      buddy == IF bi % 2 = 0 THEN bi + 1 ELSE bi - 1
      q == BiToAddr(c, k, buddy)
      p == IF buddy % 2 = 0 THEN q ELSE x.p
      d == ListRemove(c, q)
  IN IF buddy \in c.alloc[k] THEN [x EXCEPT !.b = c, !.stop = TRUE]
     ELSE [b |-> [d EXCEPT !.split[k + 1] = @ \ {AddrToBi(d, k + 1, p)}],
           p |-> p, k |-> k + 1, stop |-> TRUE]

\* One turn of the loop of free(): p of size 2^k and its buddy become one.
MergeUp(x) ==
  LET k == x.k
      bi == AddrToBi(x.b, k, x.p)
      c == [x.b EXCEPT !.alloc[k] = @ \ {bi}]
      buddy == IF bi % 2 = 0 THEN bi + 1 ELSE bi - 1
      q == BiToAddr(c, k, buddy)
      p == IF buddy % 2 = 0 THEN q ELSE x.p
      d == ListRemove(c, q)
  IN IF buddy \in c.alloc[k] THEN [x EXCEPT !.b = c, !.stop = TRUE]
     ELSE [b |-> [d EXCEPT !.split[k + 1] = @ \ {AddrToBi(d, k + 1, p)}],
           p |-> p, k |-> k + 1, stop |-> FALSE]

BuddyFree(b, p) ==
  LET first == [b |-> b, p |-> p, k |-> BlockSize(b, p), stop |-> FALSE]
      turn[i \in Sizes] == IF i = 0 THEN first
                           ELSE LET x == turn[i - 1]
                                IN IF x.stop \/ x.k = MAXSIZE THEN x ELSE MergeUp(x)
      last == turn[MAXSIZE]
  IN ListPush(last.b, last.k, last.p)

-----------------------------------------------------------------------------

BuddyBlock(b, k, bi) == [at |-> BiToAddr(b, k, bi), size |-> BlkSize(k)]

\* The blocks on the lists, and those that are handed out.  The bit of the whole
\* heap stays set when it is merged again.
ListedBlocks(b) == UNION {{[at |-> p, size |-> BlkSize(k)] : p \in ToSet(b.free[k])}
                          : k \in Sizes}

BuddyGiven(b) == (UNION {{BuddyBlock(b, k, bi) : bi \in b.alloc[k] \ b.split[k]}
                         : k \in Sizes}) \ ListedBlocks(b)

=============================================================================
