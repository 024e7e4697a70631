\* Kernel image 9..12 with the bitmaps inside it, low memory 0..3.
SPECIFICATION Spec
CONSTANTS
  FrameSize = 4
  MaxFrames = 8
  U64Max = 47
  LowReservedBytes = 4
  KernelStart = 9
  KernelEnd = 13
  BitmapStart = 10
  AllocBitmapStart = 11
  BitmapBytes = 1
  InfoBytes = 2
  BootInfos <- Boots
INVARIANTS
  TypeOK
  CountersMatchBitmap
  AllocatedIsMarkedUsed
  NoFreeFrameBelowSearch
  PoolIsSafeMemory
PROPERTIES
  PoolNeverChanges
  RefinesFrameAllocator
