\* Two process slots over the buddy allocator with 16 leaves, of which
\* addr_to_bi() tells 8 apart (in the code 4096 of 2^25).
SPECIFICATION MemSpec
CONSTANTS
  TOTAL_BLOCK_COUNT = 6
  BLOCK_SIZE = 2
  UINT32_COUNT = 16
  NSIZES = 5
  LEAF_SIZE = 1
  ADDR_RANGE = 8
  Managers = {"buddy"}
  ProcSlots = {1, 2}
  Requests <- SmallRequests
  LIST_SIZE = 3
  MAX_MEMORY = 3
  MAX_BLOCKS = 2
  MaxLost = 1
PROPERTIES FreesItsBlock
