\* Two process slots and test-mm over 6 blocks of 2 bytes; the buddy allocator
\* with 16 leaves, all of them within the reach of addr_to_bi().
SPECIFICATION MemSpec
CONSTANTS
  TOTAL_BLOCK_COUNT = 6
  BLOCK_SIZE = 2
  UINT32_COUNT = 16
  NSIZES = 5
  LEAF_SIZE = 1
  ADDR_RANGE = 16
  Managers = {"bitmap", "buddy"}
  ProcSlots = {1, 2}
  Requests <- SmallRequests
  LIST_SIZE = 3
  MAX_MEMORY = 3
  MAX_BLOCKS = 2
  MaxLost = 1
INVARIANTS GivenIsHeld RoomIsFound MemReportsHeld BuddyIsTidy
PROPERTIES ImplementsHeap
