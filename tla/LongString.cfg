CONSTANTS
  BufSize <- gu_mem_buf_size
  MAX_ALIGN = 16
  UINT16_MAX = 65535
  PoolHeader = 32
  ChunkHeader = 8
  LocalSize = 128
  gu_mem_pool_initial_size = 192
  gu_mem_chunk_max_size = 8192
  gu_mem_max_shared_alloc = 512
  Requests <- MCRequests
  NodeRequest <- MCNodeRequest
  MaxAllocs = 2
  ElemSizes = {24}
  Counts = {4}
  WordSize = 8
  BufRequest <- MCBufRequest
  NULL = NULL
  MaxBufs = 0
  MaxLen = 8
  MaxSeqs = 0
  StrLens = {255, 256}
  Variants <- MCVariants
  MaxWords = 2
SPECIFICATION TagSpec
INVARIANT TagsKept
CHECK_DEADLOCK FALSE
