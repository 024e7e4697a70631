-------------------------------- MODULE Boot --------------------------------
(***************************************************************************)
(* kernel_main up to the interrupt services, which KernelLoop takes from   *)
(* there: the memory map (MemoryMap), the frame allocator (Pmm), paging    *)
(* and its generic layer (vmm.c), the heap's backing region (heap.c) and   *)
(* the layout of the image (kernel.ld).  Interrupts are off and nothing    *)
(* runs beside kernel_main.  The console, the log and the GDT keep their   *)
(* state in Terminal, Serial and InterruptEntry.                           *)
(***************************************************************************)
EXTENDS MemoryMap, Sequences, FiniteSets

CONSTANTS
  PageSize,             \* I386_PAGING_PAGE_SIZE = PMM_FRAME_SIZE
  EntryCount,           \* I386_PAGE_TABLE_ENTRY_COUNT
  DirectoryEntryCount,  \* I386_PAGE_DIRECTORY_ENTRY_COUNT
  IdentityMappedBytes,  \* I386_PAGING_IDENTITY_MAPPED_BYTES
  LowReservedBytes,     \* PMM_LOW_MEMORY_RESERVED_BYTES
  MaxFrames,            \* PMM_MAX_FRAMES
  BitmapBytes, InfoBytes,
  VideoBytes,           \* the addresses of the VGA text buffer
  kernel_start, bss_end, HeapBytes, \* kernel.ld: 2M, the end of .bss, 256K
  pmm_bitmap_at, pmm_allocated_bitmap_at,     \* objects in .bss
  paging_directory_at, paging_tables_at

AlignUp(address) == ((address + PageSize - 1) \div PageSize) * PageSize

(* kernel.ld: the heap follows .bss, and the image ends after it.          *)
kernel_heap_start == AlignUp(bss_end)
kernel_heap_end == AlignUp(kernel_heap_start + HeapBytes)

(* Mutation: the image ends before the heap.                               *)
KernelEndBeforeHeap == kernel_heap_start

kernel_end == kernel_heap_end

TableCount == IdentityMappedBytes \div (PageSize * EntryCount)

(* The two paging structures are page-aligned objects of .bss, which the   *)
(* heap of whole pages follows; an address leaves room for the flags.      *)
ASSUME BootConstants ==
  /\ {PageSize, EntryCount, MaxFrames, HeapBytes, bss_end}
       \subseteq Nat \ {0}
  /\ {DirectoryEntryCount, IdentityMappedBytes, LowReservedBytes,
      BitmapBytes, InfoBytes, kernel_start, pmm_bitmap_at,
      pmm_allocated_bitmap_at, paging_directory_at, paging_tables_at}
       \subseteq Nat
  /\ PageSize % 4 = 0 /\ HeapBytes % PageSize = 0
  /\ paging_directory_at % PageSize = 0 /\ paging_tables_at % PageSize = 0
  /\ kernel_start <= paging_directory_at
  /\ paging_directory_at + PageSize <= bss_end
  /\ kernel_start <= paging_tables_at
  /\ paging_tables_at + TableCount * PageSize <= bss_end
  /\ TableCount <= DirectoryEntryCount
  /\ IdentityMappedBytes % (PageSize * EntryCount) = 0
  /\ MaxFrames * PageSize = UINT32_MAX + 1
  /\ PageSize <= LowReservedBytes
  /\ kernel_end <= IdentityMappedBytes
  /\ VideoBytes \subseteq 0 .. IdentityMappedBytes - 1

VARIABLES
  position,             \* the call of BootOrder that kernel_main is in
  panic,                \* which message kernel_panic got; "none" before
  multiboot_info_address,
  pmm_status, pmm_initialized, pmm_total_frames, marks,
  pmm_allocated_bitmap, pmm_next_search_frame, answer,   \* as in Pmm
  paging_directory, paging_tables, paging_initialized, vmm_initialized,
  cr3, cr0_paging,
  heap_initialized, heap_start_address, heap_end_address, heap_capacity

pmmVars == <<pmm_status, pmm_initialized, pmm_total_frames, marks,
             pmm_allocated_bitmap, pmm_next_search_frame, answer>>
pagingVars == <<paging_directory, paging_tables, paging_initialized,
                vmm_initialized, cr3, cr0_paging>>
heapVars == <<heap_initialized, heap_start_address, heap_end_address,
              heap_capacity>>
mainVars == <<position, panic>>
bootVars == <<vars, mainVars, multiboot_info_address, pmmVars, pagingVars,
              heapVars>>

(* What pmm_initialize reads: memory.c's regions through                   *)
(* memory_get_region, and the map's place in multiboot_info_t.             *)
HandOver ==
  [ready |-> memory_initialized,
   regions |-> [i \in 1 .. memory_region_count |->
                  [base |-> memory_regions[i - 1].base_address,
                   length |-> memory_regions[i - 1].length,
                   usable |-> memory_regions[i - 1].type
                                = MEMORY_REGION_USABLE]],
   info_address |-> multiboot_info_address,
   mmap_addr |-> IF info.has_memory_map THEN info.mmap_addr ELSE 0,
   mmap_length |-> info.mmap_length]

P == INSTANCE Pmm WITH
       FrameSize <- PageSize, U64Max <- UINT64_MAX,
       KernelStart <- kernel_start, KernelEnd <- kernel_end,
       BitmapStart <- pmm_bitmap_at,
       AllocBitmapStart <- pmm_allocated_bitmap_at,
       BootInfos <- {}, boot <- HandOver, status <- pmm_status

-----------------------------------------------------------------------------
(* kernel_main.                                                            *)

(* Mutation: paging is on before the boot loader's data has been read.     *)
PagingBeforeMemory ==
  <<"console_initialize", "klog_initialize", "gdt_initialize",
    "vmm_initialize", "memory_initialize", "pmm_initialize",
    "heap_initialize", "interrupts_initialize">>

BootOrder ==
  <<"console_initialize", "klog_initialize", "memory_initialize",
    "pmm_initialize", "gdt_initialize", "vmm_initialize",
    "heap_initialize", "interrupts_initialize">>

Calling(call) == panic = "none" /\ BootOrder[position] = call

(* Mutation: the status is not looked at.                                  *)
RequireIgnored(status_, panic_message) ==
  /\ position' = position + 1
  /\ UNCHANGED panic

kernel_require(status_, panic_message) ==
  IF status_ = "OK"
  THEN position' = position + 1 /\ UNCHANGED panic
  ELSE panic' = panic_message /\ UNCHANGED position

(* The checks of magic and address come before the log is initialised.     *)
CheckMultiboot(magic_matches) ==
  /\ Calling("console_initialize")
  /\ \/ /\ ~magic_matches
        /\ panic' = "invalid_magic"
        /\ UNCHANGED position
     \/ /\ magic_matches
        /\ kernel_require(IF multiboot_info_address = 0 THEN "zero" ELSE "OK",
                          "address_is_zero")
  /\ UNCHANGED <<vars, multiboot_info_address, pmmVars, pagingVars, heapVars>>

(* A missing serial port is only warned about; the GDT cannot fail.        *)
CannotFail ==
  /\ Calling("klog_initialize") \/ Calling("gdt_initialize")
  /\ position' = position + 1
  /\ UNCHANGED <<vars, panic, multiboot_info_address, pmmVars, pagingVars,
                 heapVars>>

InitializeMemory ==
  /\ Calling("memory_initialize")
  /\ \/ memory_initialize(multiboot_info_address, info)
        /\ UNCHANGED mainVars
     \/ (ReadEntry \/ Finish) /\ UNCHANGED mainVars
     \/ /\ status \notin {"uncalled", "reading"}
        /\ kernel_require(status, "memory_map_failed")
        /\ UNCHANGED vars
  /\ UNCHANGED <<multiboot_info_address, pmmVars, pagingVars, heapVars>>

InitializePmm ==
  /\ Calling("pmm_initialize")
  /\ UNCHANGED <<vars, multiboot_info_address, pagingVars, heapVars>>
  /\ P!pmm_initialize
  /\ kernel_require(pmm_status', "pmm_failed")

-----------------------------------------------------------------------------
(* paging.c.  An entry is its aligned address with the flags or-ed in.     *)

I386_PAGE_PRESENT == 1
I386_PAGE_WRITABLE == 2
I386_PAGE_FLAGS == I386_PAGE_PRESENT + I386_PAGE_WRITABLE

TableAddress(table) == paging_tables_at + table * PageSize

(* Clearing and building: every table entry is built, the directory's      *)
(* entries past the last table stay clear.                                 *)
i386_paging_build_identity_map ==
  /\ paging_tables' =
       [table \in 0 .. TableCount - 1 |-> [page \in 0 .. EntryCount - 1 |->
          (table * EntryCount + page) * PageSize + I386_PAGE_FLAGS]]
  /\ paging_directory' =
       [table \in 0 .. DirectoryEntryCount - 1 |->
          IF table < TableCount
          THEN TableAddress(table) + I386_PAGE_FLAGS ELSE 0]

(* A processor may leave CR0.PG clear: vmm_initialize checks for it.       *)
i386_paging_initialize_identity(paging_works) ==
  /\ i386_paging_build_identity_map
  /\ cr3' = paging_directory_at
  /\ cr0_paging' = paging_works
  /\ paging_initialized' = cr0_paging'

vmm_initialize(paging_works) ==
  /\ Calling("vmm_initialize")
  /\ i386_paging_initialize_identity(paging_works)
  /\ vmm_initialized' = cr0_paging'
  /\ kernel_require(IF vmm_initialized' THEN "OK" ELSE "HARDWARE_FAILURE",
                    "vmm_failed")
  /\ UNCHANGED <<vars, multiboot_info_address, pmmVars, heapVars>>

vmm_is_enabled == vmm_initialized /\ cr0_paging

vmm_get_identity_mapped_bytes ==
  IF paging_initialized THEN IdentityMappedBytes ELSE 0

HeapStatus ==
  IF heap_initialized THEN "ALREADY_INITIALIZED"
  ELSE IF \/ kernel_heap_start = 0 \/ kernel_heap_end <= kernel_heap_start
          \/ kernel_heap_start % PageSize # 0
          \/ kernel_heap_end % PageSize # 0
  THEN "INVALID_ARGUMENT" ELSE "OK"

heap_initialize ==
  /\ Calling("heap_initialize")
  /\ IF HeapStatus = "OK"
     THEN /\ heap_start_address' = kernel_heap_start
          /\ heap_end_address' = kernel_heap_end
          /\ heap_capacity' = kernel_heap_end - kernel_heap_start
          /\ heap_initialized' = TRUE
     ELSE UNCHANGED heapVars
  /\ kernel_require(HeapStatus, "heap_failed")
  /\ UNCHANGED <<vars, multiboot_info_address, pmmVars, pagingVars>>

-----------------------------------------------------------------------------
BootInit ==
  /\ Init
  /\ position = 1 /\ panic = "none"
  /\ multiboot_info_address \in InfoAddresses
  /\ pmm_status = "uncalled" /\ pmm_initialized = FALSE
  /\ pmm_total_frames = 0 /\ pmm_next_search_frame = 0
  /\ marks = [bitmap |-> {}, free |-> 0, used |-> 0]
  /\ pmm_allocated_bitmap = {}
  /\ answer = P!Answer("none", FALSE, P!NoFrame)
  /\ paging_directory = [entry \in 0 .. DirectoryEntryCount - 1 |-> 0]
  /\ paging_tables = [table \in 0 .. TableCount - 1 |->
                        [page \in 0 .. EntryCount - 1 |-> 0]]
  /\ paging_initialized = FALSE /\ vmm_initialized = FALSE
  /\ cr3 = 0 /\ cr0_paging = FALSE
  /\ heap_initialized = FALSE
  /\ heap_start_address = 0 /\ heap_end_address = 0 /\ heap_capacity = 0

BootNext ==
  \/ \E matches \in BOOLEAN : CheckMultiboot(matches)
  \/ CannotFail
  \/ InitializeMemory
  \/ InitializePmm
  \/ \E works \in BOOLEAN : vmm_initialize(works)
  \/ heap_initialize

BootSpec == BootInit /\ [][BootNext]_bootVars

-----------------------------------------------------------------------------
(* Properties.                                                             *)

(* The MMU's walk from CR3; -1 is a page fault, which before the IDT is    *)
(* loaded resets the machine.                                              *)
Fault == -1
Present(entry) == entry % 2 = I386_PAGE_PRESENT

Translate(address) ==
  LET slot == address \div (PageSize * EntryCount)
      pde == IF cr3 = paging_directory_at THEN paging_directory[slot] ELSE 0
      tables == {t \in 0 .. TableCount - 1 :
                   TableAddress(t) = pde - (pde % PageSize)}
      pte(t) == paging_tables[t][(address \div PageSize) % EntryCount]
      hits == {t \in tables : Present(pte(t))}
  IN  IF ~cr0_paging THEN address
      ELSE IF Present(pde) /\ hits # {}
      THEN LET t == CHOOSE t \in hits : TRUE
           IN  pte(t) - (pte(t) % PageSize) + (address % PageSize)
      ELSE Fault

ByteRange(from, to) == from .. to - 1

(* The boot loader's data that a step reads.                               *)
BootDataRead ==
  (IF Calling("pmm_initialize")
      \/ (Calling("memory_initialize") /\ status = "uncalled")
   THEN ByteRange(multiboot_info_address, multiboot_info_address + InfoBytes)
   ELSE {})
  \cup (IF dereferenced' # dereferenced
        THEN ByteRange(dereferenced'.from, dereferenced'.to) ELSE {})

(* Everything kernel_main touches in a step translates to itself when the  *)
(* step is over: the image with its stack, tables and heap, the VGA        *)
(* buffer, and the boot loader's data, which may lie above the identity    *)
(* map and so may be read only before vmm_initialize.                      *)
AccessesAreMapped ==
  [][\A byte \in ByteRange(kernel_start, kernel_end) \cup VideoBytes
                 \cup BootDataRead :
       Translate(byte)' = byte]_bootVars

(* The frames the PMM may hand out, with the map that memory.c really      *)
(* passes on, are usable memory and no byte of them is the heap's, the     *)
(* page tables' or anything else the kernel still uses.                    *)
FramesAreNobodyElses ==
  /\ P!PoolIsSafeMemory
  /\ \A frame \in P!Pool : \A byte \in P!Bytes(frame) :
       /\ byte \notin ByteRange(heap_start_address, heap_end_address)
       /\ byte \notin ByteRange(cr3, cr3 + PageSize)
       /\ byte \notin ByteRange(TableAddress(0), TableAddress(TableCount))

(* kernel_main reaches the interrupt services only when every memory       *)
(* service succeeded: whatever the boot loader passed and whichever        *)
(* service failed, it panics first; and it panics only then.               *)
ServicesStartOnReadyKernel ==
  /\ Calling("interrupts_initialize") =>
       /\ memory_initialized /\ ~memory_map_truncated
       /\ pmm_initialized /\ marks.free > 0
       /\ vmm_is_enabled
       /\ vmm_get_identity_mapped_bytes >= kernel_end
       /\ heap_initialized /\ heap_capacity = HeapBytes
  /\ panic # "none" =>
       ~(memory_initialized /\ pmm_initialized /\ vmm_is_enabled)
=============================================================================
