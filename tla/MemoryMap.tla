----------------------------- MODULE MemoryMap -----------------------------
(***************************************************************************)
(* The normalized memory map, src/kernel/memory.c: memory_initialize walks *)
(* the boot loader's map once, at boot, one entry a step.  The map is      *)
(* whatever lies in memory: each field is chosen when it is read, and no   *)
(* address is read twice.                                                  *)
(***************************************************************************)
EXTENDS Integers

CONSTANTS
  UINT32_MAX, UINT64_MAX,
  SizeOfSize,           \* sizeof(entry->size)
  MULTIBOOT_MEMORY_MAP_BASE_SIZE,
  MEMORY_MAX_REGIONS,
  Infos,                \* the multiboot_info_t the boot loader may pass
  InfoAddresses,        \* the values of multiboot_info_address
  Sizes, Bases, Lengths \* the values an entry's fields may have

ASSUME MemoryMapConstants ==
  /\ {SizeOfSize, MULTIBOOT_MEMORY_MAP_BASE_SIZE, MEMORY_MAX_REGIONS}
       \subseteq Nat \ {0}
  /\ UINT32_MAX \in Nat /\ UINT64_MAX \in Nat /\ UINT32_MAX < UINT64_MAX
  /\ InfoAddresses \subseteq 0 .. UINT32_MAX
  /\ SizeOfSize <= UINT32_MAX
  /\ Sizes \subseteq 0 .. UINT32_MAX
  /\ Bases \subseteq 0 .. UINT64_MAX
  /\ Lengths \subseteq 0 .. UINT64_MAX
  /\ \A info \in Infos : info.mmap_addr \in 0 .. UINT32_MAX
                         /\ info.mmap_length \in 0 .. UINT32_MAX

VARIABLES
  status,               \* memory_initialize's: uncalled, reading, or its result
  info,
  memory_initialized, memory_basic_available, memory_map_available,
  memory_map_truncated,
  memory_lower_kb, memory_upper_kb,
  memory_usable_region_count, memory_reserved_region_count,
  memory_total_usable_bytes, memory_total_reserved_bytes,
  memory_regions, memory_region_count,
  current_address, end_address,
  dereferenced          \* history: [from, to) of the last access to the map

flagVars == <<memory_initialized, memory_basic_available,
              memory_map_available>>
basicVars == <<memory_lower_kb, memory_upper_kb>>
regionVars == <<memory_map_truncated, memory_usable_region_count,
                memory_reserved_region_count, memory_total_usable_bytes,
                memory_total_reserved_bytes, memory_regions,
                memory_region_count>>
cursorVars == <<current_address, end_address, dereferenced>>
vars == <<status, info, flagVars, basicVars, regionVars, cursorVars>>

MEMORY_REGION_USABLE == "usable"
MEMORY_REGION_RESERVED == "reserved"

Nothing == [from |-> 0, to |-> 0]

ResetRegions ==
  [i \in 0 .. MEMORY_MAX_REGIONS - 1 |->
     [base_address |-> 0, length |-> 0, type |-> MEMORY_REGION_RESERVED]]

(* memory_initialize sets the basic fields that this resets first.         *)
memory_reset_summary ==
  /\ memory_initialized' = FALSE
  /\ memory_map_available' = FALSE
  /\ memory_map_truncated' = FALSE
  /\ memory_usable_region_count' = 0
  /\ memory_reserved_region_count' = 0
  /\ memory_total_usable_bytes' = 0
  /\ memory_total_reserved_bytes' = 0
  /\ memory_regions' = ResetRegions
  /\ memory_region_count' = 0

(* Mutation: an empty region takes a slot.                                 *)
AddRegionEvenEmpty(base_address, length, type) ==
  /\ memory_usable_region_count' = memory_usable_region_count
       + (IF type = MEMORY_REGION_USABLE THEN 1 ELSE 0)
  /\ memory_reserved_region_count' = memory_reserved_region_count
       + (IF type = MEMORY_REGION_USABLE THEN 0 ELSE 1)
  /\ memory_map_truncated' =
       (memory_map_truncated \/ memory_region_count >= MEMORY_MAX_REGIONS)
  /\ IF memory_region_count >= MEMORY_MAX_REGIONS
     THEN UNCHANGED <<memory_regions, memory_region_count>>
     ELSE /\ memory_regions' =
               [memory_regions EXCEPT ![memory_region_count] =
                  [base_address |-> base_address, length |-> length,
                   type |-> type]]
          /\ memory_region_count' = memory_region_count + 1
  /\ UNCHANGED <<memory_total_usable_bytes, memory_total_reserved_bytes>>

(* The totals and counts include the region that no longer fits.           *)
memory_add_region(base_address, length, type) ==
  \/ /\ length = 0
     /\ UNCHANGED regionVars
  \/ /\ length # 0
     /\ IF type = MEMORY_REGION_USABLE
        THEN /\ memory_usable_region_count' = memory_usable_region_count + 1
             /\ memory_total_usable_bytes' =
                  (memory_total_usable_bytes + length) % (UINT64_MAX + 1)
             /\ UNCHANGED <<memory_reserved_region_count,
                            memory_total_reserved_bytes>>
        ELSE /\ memory_reserved_region_count' =
                  memory_reserved_region_count + 1
             /\ memory_total_reserved_bytes' =
                  (memory_total_reserved_bytes + length) % (UINT64_MAX + 1)
             /\ UNCHANGED <<memory_usable_region_count,
                            memory_total_usable_bytes>>
     /\ IF memory_region_count >= MEMORY_MAX_REGIONS
        THEN /\ memory_map_truncated' = TRUE
             /\ UNCHANGED <<memory_regions, memory_region_count>>
        ELSE /\ memory_regions' =
                  [memory_regions EXCEPT ![memory_region_count] =
                     [base_address |-> base_address, length |-> length,
                      type |-> type]]
             /\ memory_region_count' = memory_region_count + 1
             /\ UNCHANGED memory_map_truncated

-----------------------------------------------------------------------------
(* memory_initialize up to the loop; the address check comes before info   *)
(* is read, the flags before the fields they vouch for.                    *)
LengthOverflows(i) == i.mmap_length > UINT32_MAX - i.mmap_addr

memory_initialize(multiboot_info_address, i) ==
  /\ status = "uncalled"
  /\ info' = i
  /\ memory_reset_summary
  /\ LET basic == multiboot_info_address # 0 /\ i.has_memory
     IN  /\ memory_basic_available' = basic
         /\ memory_lower_kb' = IF basic THEN i.mem_lower ELSE 0
         /\ memory_upper_kb' = IF basic THEN i.mem_upper ELSE 0
  /\ status' =
       IF multiboot_info_address = 0 THEN "INVALID_ARGUMENT"
       ELSE IF ~i.has_memory_map \/ i.mmap_addr = 0 \/ i.mmap_length = 0
       THEN "UNAVAILABLE"
       ELSE IF LengthOverflows(i) THEN "MALFORMED_DATA" ELSE "reading"
  /\ IF status' = "reading"
     THEN /\ current_address' = i.mmap_addr
          /\ end_address' = i.mmap_addr + i.mmap_length
     ELSE UNCHANGED <<current_address, end_address>>
  /\ UNCHANGED dereferenced

(* The body of memory_read_multiboot_map's loop.                           *)
Reading == status = "reading" /\ current_address < end_address

remaining_bytes == end_address - current_address
EntryTotalSize(size) == (SizeOfSize + size) % (UINT32_MAX + 1)
RangeOverflows(base, length) == length # 0 /\ base > UINT64_MAX - length

(* Mutation: the test that the size's own bytes do not overflow is gone.   *)
SizeAcceptedUnchecked(size) ==
  /\ size >= MULTIBOOT_MEMORY_MAP_BASE_SIZE
  /\ EntryTotalSize(size) <= remaining_bytes

(* Mutation: an entry may be shorter than its fields.                      *)
SizeAcceptedShort(size) ==
  /\ size <= UINT32_MAX - SizeOfSize
  /\ EntryTotalSize(size) <= remaining_bytes

SizeAccepted(size) ==
  /\ size >= MULTIBOOT_MEMORY_MAP_BASE_SIZE
  /\ size <= UINT32_MAX - SizeOfSize
  /\ EntryTotalSize(size) <= remaining_bytes

Return(result) ==
  /\ status' = result
  /\ UNCHANGED <<info, flagVars, basicVars, current_address, end_address>>

Dereference(bytes) ==
  dereferenced' = [from |-> current_address, to |-> current_address + bytes]

NoRoomForSize ==
  /\ Reading
  /\ remaining_bytes < SizeOfSize
  /\ Return("MALFORMED_DATA")
  /\ UNCHANGED <<regionVars, dereferenced>>

BadSize(size) ==
  /\ Reading
  /\ remaining_bytes >= SizeOfSize
  /\ ~SizeAccepted(size)
  /\ Dereference(SizeOfSize)
  /\ Return("MALFORMED_DATA")
  /\ UNCHANGED regionVars

BadRange(size, base, length) ==
  /\ Reading
  /\ remaining_bytes >= SizeOfSize
  /\ SizeAccepted(size)
  /\ RangeOverflows(base, length)
  /\ Dereference(SizeOfSize + MULTIBOOT_MEMORY_MAP_BASE_SIZE)
  /\ Return("MALFORMED_DATA")
  /\ UNCHANGED regionVars

AddEntry(size, base, length, type) ==
  /\ Reading
  /\ remaining_bytes >= SizeOfSize
  /\ SizeAccepted(size)
  /\ ~RangeOverflows(base, length)
  /\ Dereference(SizeOfSize + MULTIBOOT_MEMORY_MAP_BASE_SIZE)
  /\ memory_add_region(base, length, type)
  /\ IF memory_map_truncated'
     THEN Return("MALFORMED_DATA")
     ELSE /\ current_address' =
               (current_address + EntryTotalSize(size)) % (UINT32_MAX + 1)
          /\ UNCHANGED <<status, info, flagVars, basicVars, end_address>>

(* After the loop, and the end of memory_initialize.                       *)
Finish ==
  /\ status = "reading"
  /\ current_address >= end_address
  /\ status' = IF memory_region_count = 0 THEN "MALFORMED_DATA" ELSE "OK"
  /\ memory_map_available' = (memory_region_count # 0)
  /\ memory_initialized' = (memory_region_count # 0)
  /\ UNCHANGED <<info, memory_basic_available, basicVars, regionVars,
                 cursorVars>>

-----------------------------------------------------------------------------
Init ==
  /\ status = "uncalled"
  /\ info \in Infos
  /\ memory_initialized = FALSE
  /\ memory_basic_available = FALSE
  /\ memory_map_available = FALSE
  /\ memory_map_truncated = FALSE
  /\ memory_lower_kb = 0 /\ memory_upper_kb = 0
  /\ memory_usable_region_count = 0 /\ memory_reserved_region_count = 0
  /\ memory_total_usable_bytes = 0 /\ memory_total_reserved_bytes = 0
  /\ memory_regions = ResetRegions
  /\ memory_region_count = 0
  /\ current_address = 0 /\ end_address = 0
  /\ dereferenced = Nothing

ReadEntry ==
  \/ NoRoomForSize
  \/ \E size \in Sizes : BadSize(size)
  \/ \E size \in Sizes, base \in Bases, length \in Lengths :
       \/ BadRange(size, base, length)
       \/ \E type \in {MEMORY_REGION_USABLE, MEMORY_REGION_RESERVED} :
            AddEntry(size, base, length, type)

Next ==
  \/ \E address \in InfoAddresses : memory_initialize(address, info)
  \/ ReadEntry
  \/ Finish

Spec == Init /\ [][Next]_vars

-----------------------------------------------------------------------------
(* Properties.                                                             *)

Stored == {memory_regions[i] : i \in 0 .. memory_region_count - 1}

TypeOK ==
  /\ status \in {"uncalled", "reading", "OK", "INVALID_ARGUMENT",
                 "UNAVAILABLE", "MALFORMED_DATA"}
  /\ memory_region_count \in 0 .. MEMORY_MAX_REGIONS
  /\ DOMAIN memory_regions = 0 .. MEMORY_MAX_REGIONS - 1
  /\ memory_total_usable_bytes \in 0 .. UINT64_MAX
  /\ memory_total_reserved_bytes \in 0 .. UINT64_MAX
  /\ current_address \in 0 .. UINT32_MAX
  /\ end_address \in 0 .. UINT32_MAX

(* memory_read_multiboot_map never reads outside the map the boot loader   *)
(* described, whatever sizes its entries claim.                            *)
ReadsStayInTheMap ==
  dereferenced # Nothing =>
    /\ info.mmap_addr <= dereferenced.from
    /\ dereferenced.to <= info.mmap_addr + info.mmap_length

(* Every entry moves the cursor on, and never past the end or back by      *)
(* wrapping: the walk ends for every map.                                  *)
CursorAdvances ==
  [][status = "reading" /\ status' = "reading" =>
       /\ current_address' > current_address
       /\ current_address' <= end_address]_vars

(* What the PMM relies on: a map that is declared ready was read to its    *)
(* end, lists every non-empty region within the array, and none of them    *)
(* runs past the end of the address space.                                 *)
ReadyMapIsUsable ==
  memory_initialized =>
    /\ status = "OK" /\ ~memory_map_truncated
    /\ current_address = info.mmap_addr + info.mmap_length
    /\ memory_region_count =
         memory_usable_region_count + memory_reserved_region_count
    /\ memory_region_count \in 1 .. MEMORY_MAX_REGIONS
    /\ \A region \in Stored :
         /\ region.length > 0
         /\ region.base_address + region.length <= UINT64_MAX
=============================================================================
