\* An entry's size field is 2 bytes, the rest of an entry 3.
SPECIFICATION BootSpec
CONSTANTS
  UINT32_MAX = 63
  UINT64_MAX = 79
  SizeOfSize = 2
  MULTIBOOT_MEMORY_MAP_BASE_SIZE = 3
  MEMORY_MAX_REGIONS = 2
  Infos <- MCInfos
  InfoAddresses = {0, 5, 34}
  Sizes = {0, 2, 3, 4, 61, 62, 63}
  Bases = {0, 26, 79}
  Lengths = {0, 2, 38, 53}
  PageSize = 4
  EntryCount = 4
  DirectoryEntryCount = 4
  IdentityMappedBytes = 32
  LowReservedBytes = 4
  MaxFrames = 16
  BitmapBytes = 2
  InfoBytes = 2
  VideoBytes = {3}
  kernel_start = 8
  bss_end = 25
  HeapBytes = 4
  pmm_bitmap_at = 8
  pmm_allocated_bitmap_at = 10
  paging_directory_at = 12
  paging_tables_at = 16
INVARIANTS
  ReadsStayInTheMap
  ReadyMapIsUsable
  FramesAreNobodyElses
  ServicesStartOnReadyKernel
PROPERTIES
  CursorAdvances
  AccessesAreMapped
CHECK_DEADLOCK FALSE
