----------------------------- MODULE BootProofs -----------------------------
(***************************************************************************)
(* Theorems about Boot, for every map the boot loader may pass, every      *)
(* layout of the image and every page size: the walk over the map stays    *)
(* inside it and ends, the frames handed out are nobody else's, the kernel *)
(* stays mapped when paging is switched on, and the interrupt services     *)
(* start only on a kernel whose memory services succeeded.                 *)
(***************************************************************************)
EXTENDS Boot, SequenceTheorems, TLAPS

-----------------------------------------------------------------------------
(* The memory map.                                                         *)

Region == [base_address : 0 .. UINT64_MAX, length : 0 .. UINT64_MAX,
           type : {MEMORY_REGION_USABLE, MEMORY_REGION_RESERVED}]

MapTypes ==
  /\ info \in Infos
  /\ status \in {"uncalled", "reading", "OK", "INVALID_ARGUMENT",
                 "UNAVAILABLE", "MALFORMED_DATA"}
  /\ memory_initialized \in BOOLEAN /\ memory_map_truncated \in BOOLEAN
  /\ memory_region_count \in 0 .. MEMORY_MAX_REGIONS
  /\ memory_usable_region_count \in Nat
  /\ memory_reserved_region_count \in Nat
  /\ memory_regions \in [0 .. MEMORY_MAX_REGIONS - 1 -> Region]

(* While the map is read, the cursor is inside it.                         *)
CursorInMap ==
  status = "reading" =>
    /\ current_address \in Nat /\ end_address \in Nat
    /\ info.mmap_addr <= current_address /\ current_address <= end_address
    /\ end_address = info.mmap_addr + info.mmap_length
    /\ end_address <= UINT32_MAX

(* Until a region no longer fits, the array holds all that were counted.   *)
RegionsCounted ==
  ~memory_map_truncated =>
    memory_region_count =
      memory_usable_region_count + memory_reserved_region_count

(* What is stored lies below the end of the address space.                 *)
RegionsBounded ==
  \A i \in 0 .. memory_region_count - 1 :
    /\ memory_regions[i].length > 0
    /\ memory_regions[i].base_address + memory_regions[i].length
         <= UINT64_MAX

(* The map is declared ready only by the last step.                        *)
ReadyAtEnd ==
  /\ status = "uncalled" => memory_region_count = 0
  /\ status \in {"uncalled", "reading"} => ~memory_map_truncated
  /\ memory_initialized <=> status = "OK"
  /\ memory_initialized =>
       /\ ~memory_map_truncated
       /\ memory_region_count # 0
       /\ current_address = info.mmap_addr + info.mmap_length

MapInv ==
  /\ MapTypes /\ CursorInMap /\ RegionsCounted /\ RegionsBounded
  /\ ReadyAtEnd /\ ReadsStayInTheMap

(* The parser's constants, one by one.                                     *)
LEMMA MapConstants ==
  /\ SizeOfSize \in Nat \ {0}
  /\ MULTIBOOT_MEMORY_MAP_BASE_SIZE \in Nat \ {0}
  /\ MEMORY_MAX_REGIONS \in Nat \ {0}
  /\ UINT32_MAX \in Nat /\ UINT64_MAX \in Nat /\ UINT32_MAX < UINT64_MAX
  /\ SizeOfSize <= UINT32_MAX
BY MemoryMapConstants

(* The types of the fields of the boot information.                        *)
LEMMA InfoTypes ==
  ASSUME info \in Infos
  PROVE  info.mmap_addr \in 0 .. UINT32_MAX
         /\ info.mmap_length \in 0 .. UINT32_MAX
BY MemoryMapConstants

(* 32-bit arithmetic below the limit does not wrap.                        *)
LEMMA NoWrap ==
  ASSUME NEW n \in 0 .. UINT32_MAX PROVE n % (UINT32_MAX + 1) = n
BY MapConstants, Z3

(* The empty region table has the table's type.                            *)
LEMMA ResetRegionsType ==
  ResetRegions \in [0 .. MEMORY_MAX_REGIONS - 1 -> Region]
BY MapConstants DEF ResetRegions, Region

(* Before the first call the parser's invariant holds.                     *)
LEMMA InitEstablishesMapInv == Init => MapInv
<1>. SUFFICES ASSUME Init PROVE MapInv
  OBVIOUS
<1>1. MapTypes
  <2>1. memory_regions \in [0 .. MEMORY_MAX_REGIONS - 1 -> Region]
    BY ResetRegionsType DEF Init
  <2>2. /\ info \in Infos
        /\ memory_initialized \in BOOLEAN
        /\ memory_map_truncated \in BOOLEAN
        /\ memory_region_count = 0 /\ memory_usable_region_count = 0
        /\ memory_reserved_region_count = 0
        /\ status = "uncalled"
    BY DEF Init
  <2>. QED BY <2>1, <2>2, MapConstants DEF MapTypes
<1>2. CursorInMap /\ ReadyAtEnd /\ RegionsCounted /\ ReadsStayInTheMap
  BY DEF Init, CursorInMap, ReadyAtEnd, RegionsCounted, ReadsStayInTheMap
<1>3. RegionsBounded
  BY DEF Init, RegionsBounded
<1>. QED BY <1>1, <1>2, <1>3 DEF MapInv

(* The checks of the boot information, each of its early returns included, *)
(* keep the parser's invariant.                                            *)
LEMMA BeginKeepsMapInv ==
  ASSUME MapInv, NEW address \in InfoAddresses,
         memory_initialize(address, info)
  PROVE  MapInv'
<1>. USE DEF memory_initialize, memory_reset_summary
<1>1. /\ status = "uncalled" /\ info' = info /\ info \in Infos
      /\ info.mmap_addr \in 0 .. UINT32_MAX
      /\ info.mmap_length \in 0 .. UINT32_MAX
      /\ status' \in {"INVALID_ARGUMENT", "UNAVAILABLE", "MALFORMED_DATA",
                      "reading"}
      /\ UNCHANGED dereferenced
  BY InfoTypes DEF MapInv, MapTypes
<1>2. MapTypes'
  <2>1. memory_regions' \in [0 .. MEMORY_MAX_REGIONS - 1 -> Region]
    BY ResetRegionsType
  <2>2. /\ info' \in Infos
        /\ memory_initialized' \in BOOLEAN
        /\ memory_map_truncated' \in BOOLEAN
        /\ memory_region_count' = 0 /\ memory_usable_region_count' = 0
        /\ memory_reserved_region_count' = 0
    BY <1>1
  <2>. QED BY <1>1, <2>1, <2>2, MapConstants DEF MapTypes
<1>3. CursorInMap'
  <2>. SUFFICES ASSUME status' = "reading" PROVE CursorInMap'
    BY DEF CursorInMap
  <2>1. ~LengthOverflows(info)
    OBVIOUS
  <2>2. /\ current_address' = info.mmap_addr
        /\ end_address' = info.mmap_addr + info.mmap_length
    OBVIOUS
  <2>. QED BY <1>1, <2>1, <2>2, MapConstants DEF CursorInMap, LengthOverflows
<1>4. RegionsCounted' /\ ReadyAtEnd'
  BY <1>1 DEF RegionsCounted, ReadyAtEnd
<1>5. RegionsBounded'
  BY DEF RegionsBounded
<1>6. ReadsStayInTheMap'
  BY <1>1 DEF MapInv, ReadsStayInTheMap
<1>. QED BY <1>2, <1>3, <1>4, <1>5, <1>6 DEF MapInv

(* What an accepted entry's size says: the entry fits, and is not empty.   *)
LEMMA AcceptedSize ==
  ASSUME MapInv, Reading, NEW size \in Sizes, SizeAccepted(size)
  PROVE  /\ EntryTotalSize(size) = SizeOfSize + size
         /\ size \in Nat
         /\ current_address + SizeOfSize + size <= end_address
         /\ SizeOfSize + MULTIBOOT_MEMORY_MAP_BASE_SIZE <= SizeOfSize + size
<1>1. size \in 0 .. UINT32_MAX
  BY MemoryMapConstants
<1>2. SizeOfSize + size \in 0 .. UINT32_MAX
  BY <1>1, MapConstants DEF SizeAccepted
<1>3. EntryTotalSize(size) = SizeOfSize + size
  BY <1>2, NoWrap DEF EntryTotalSize
<1>4. current_address \in Nat /\ end_address \in Nat
  BY DEF Reading, MapInv, CursorInMap
<1>. QED BY <1>1, <1>3, <1>4, MapConstants DEF SizeAccepted, remaining_bytes

(* The reads of the loop's body.                                           *)
LEMMA DereferenceInMap ==
  ASSUME MapInv, Reading, NEW bytes \in Nat, Dereference(bytes),
         current_address + bytes <= end_address, UNCHANGED info
  PROVE  ReadsStayInTheMap'
BY DEF Dereference, ReadsStayInTheMap, MapInv, CursorInMap, Reading

(* An entry that the parser refuses keeps the invariant.                   *)
LEMMA BadEntryKeepsMapInv ==
  ASSUME MapInv,
         \/ NoRoomForSize
         \/ \E size \in Sizes : BadSize(size)
         \/ \E size \in Sizes, base \in Bases, length \in Lengths :
              BadRange(size, base, length)
  PROVE  MapInv'
<1>1. /\ Reading /\ status = "reading" /\ status' = "MALFORMED_DATA"
      /\ UNCHANGED <<info, flagVars, regionVars, current_address,
                     end_address>>
  BY DEF NoRoomForSize, BadSize, BadRange, Return, Reading
<1>2. MapTypes' /\ CursorInMap' /\ RegionsCounted' /\ RegionsBounded'
      /\ ReadyAtEnd'
  BY <1>1 DEF MapInv, MapTypes, CursorInMap, RegionsCounted, RegionsBounded,
              ReadyAtEnd, flagVars, regionVars
<1>3. ReadsStayInTheMap'
  <2>0. current_address \in Nat /\ end_address \in Nat
    BY <1>1 DEF MapInv, CursorInMap
  <2>1. CASE NoRoomForSize
    BY <1>1, <2>1 DEF NoRoomForSize, MapInv, ReadsStayInTheMap
  <2>2. CASE \E size \in Sizes : BadSize(size)
    <3>1. Dereference(SizeOfSize) /\ remaining_bytes >= SizeOfSize
      BY <2>2 DEF BadSize
    <3>. QED BY <1>1, <2>0, <3>1, MapConstants, DereferenceInMap
             DEF remaining_bytes
  <2>3. CASE \E size \in Sizes, base \in Bases, length \in Lengths :
               BadRange(size, base, length)
    <3>1. PICK size \in Sizes : SizeAccepted(size)
               /\ Dereference(SizeOfSize + MULTIBOOT_MEMORY_MAP_BASE_SIZE)
      BY <2>3 DEF BadRange
    <3>2. /\ size \in Nat
          /\ current_address + SizeOfSize + size <= end_address
          /\ SizeOfSize + MULTIBOOT_MEMORY_MAP_BASE_SIZE <= SizeOfSize + size
      BY <1>1, <3>1, AcceptedSize
    <3>3. /\ SizeOfSize + MULTIBOOT_MEMORY_MAP_BASE_SIZE \in Nat
          /\ current_address + (SizeOfSize + MULTIBOOT_MEMORY_MAP_BASE_SIZE)
               <= end_address
      BY <2>0, <3>2, MapConstants
    <3>. QED BY <1>1, <3>1, <3>3, DereferenceInMap
  <2>. QED BY <2>1, <2>2, <2>3
<1>. QED BY <1>2, <1>3 DEF MapInv

(* A non-empty region is counted, and stored while there is room.          *)
LEMMA AddRegionKeeps ==
  ASSUME MapInv, NEW base \in Bases, NEW length \in Lengths,
         NEW type \in {MEMORY_REGION_USABLE, MEMORY_REGION_RESERVED},
         ~RangeOverflows(base, length),
         memory_add_region(base, length, type)
  PROVE  /\ memory_region_count' \in 0 .. MEMORY_MAX_REGIONS
         /\ memory_map_truncated' \in BOOLEAN
         /\ memory_usable_region_count' \in Nat
         /\ memory_reserved_region_count' \in Nat
         /\ memory_regions' \in [0 .. MEMORY_MAX_REGIONS - 1 -> Region]
         /\ RegionsCounted' \/ memory_map_truncated'
         /\ RegionsBounded'
<1>1. base \in 0 .. UINT64_MAX /\ length \in 0 .. UINT64_MAX
  BY MemoryMapConstants
<1>2. CASE length = 0
  BY <1>2 DEF memory_add_region, regionVars, MapInv, MapTypes,
              RegionsCounted, RegionsBounded
<1>3. CASE length # 0
  <2>. DEFINE region == [base_address |-> base, length |-> length,
                         type |-> type]
  <2>1. /\ region \in Region /\ region.length > 0
        /\ region.base_address + region.length <= UINT64_MAX
    BY <1>1, <1>3, MapConstants DEF Region, RangeOverflows
  <2>2. /\ memory_usable_region_count' \in Nat
        /\ memory_reserved_region_count' \in Nat
        /\ memory_usable_region_count' + memory_reserved_region_count' =
             memory_usable_region_count + memory_reserved_region_count + 1
    BY <1>3 DEF memory_add_region, MapInv, MapTypes
  <2>3. CASE memory_region_count >= MEMORY_MAX_REGIONS
    BY <1>3, <2>2, <2>3 DEF memory_add_region, MapInv, MapTypes,
                            RegionsBounded
  <2>4. CASE ~(memory_region_count >= MEMORY_MAX_REGIONS)
    <3>1. /\ memory_regions' =
               [memory_regions EXCEPT ![memory_region_count] = region]
          /\ memory_region_count' = memory_region_count + 1
          /\ memory_map_truncated' = memory_map_truncated
      BY <1>3, <2>4 DEF memory_add_region
    <3>. HIDE DEF region
    <3>2. /\ memory_region_count \in 0 .. MEMORY_MAX_REGIONS - 1
          /\ memory_regions \in [0 .. MEMORY_MAX_REGIONS - 1 -> Region]
      BY <2>4, MapConstants DEF MapInv, MapTypes
    <3>3. memory_regions' \in [0 .. MEMORY_MAX_REGIONS - 1 -> Region]
      BY <2>1, <3>1, <3>2
    <3>4. RegionsBounded'
      <4>. SUFFICES ASSUME NEW i \in 0 .. memory_region_count
                    PROVE  /\ memory_regions'[i].length > 0
                           /\ memory_regions'[i].base_address
                                + memory_regions'[i].length <= UINT64_MAX
        BY <3>1, <3>2, MapConstants DEF RegionsBounded
      <4>1. CASE i = memory_region_count
        BY <2>1, <3>1, <3>2, <4>1
      <4>2. CASE i # memory_region_count
        <5>1. i \in 0 .. memory_region_count - 1
              /\ memory_regions'[i] = memory_regions[i]
          BY <3>1, <3>2, <4>2, MapConstants
        <5>. QED BY <5>1 DEF MapInv, RegionsBounded
      <4>. QED BY <4>1, <4>2
    <3>5. RegionsCounted' /\ memory_map_truncated' \in BOOLEAN
      BY <2>2, <3>1, <3>2 DEF MapInv, MapTypes, RegionsCounted
    <3>. QED BY <2>2, <3>1, <3>2, <3>3, <3>4, <3>5, MapConstants
  <2>. QED BY <2>3, <2>4
<1>. QED BY <1>2, <1>3

(* An entry that goes into the table keeps the invariant.                  *)
LEMMA AddEntryKeepsMapInv ==
  ASSUME MapInv, NEW size \in Sizes, NEW base \in Bases,
         NEW length \in Lengths,
         NEW type \in {MEMORY_REGION_USABLE, MEMORY_REGION_RESERVED},
         AddEntry(size, base, length, type)
  PROVE  /\ MapInv'
         /\ status' = "reading" => /\ current_address' > current_address
                                   /\ current_address' <= end_address
<1>. USE DEF AddEntry
<1>1. /\ Reading /\ status = "reading" /\ UNCHANGED <<info, flagVars>>
      /\ status' \in {"reading", "MALFORMED_DATA"}
      /\ UNCHANGED end_address
  BY DEF Reading, Return
<1>2. /\ EntryTotalSize(size) = SizeOfSize + size /\ size \in Nat
      /\ current_address + SizeOfSize + size <= end_address
      /\ SizeOfSize + MULTIBOOT_MEMORY_MAP_BASE_SIZE <= SizeOfSize + size
  BY AcceptedSize
<1>3. /\ memory_region_count' \in 0 .. MEMORY_MAX_REGIONS
      /\ memory_map_truncated' \in BOOLEAN
      /\ memory_usable_region_count' \in Nat
      /\ memory_reserved_region_count' \in Nat
      /\ memory_regions' \in [0 .. MEMORY_MAX_REGIONS - 1 -> Region]
      /\ RegionsCounted' \/ memory_map_truncated'
      /\ RegionsBounded'
  BY AddRegionKeeps
<1>4. /\ current_address \in Nat /\ end_address \in 0 .. UINT32_MAX
      /\ info.mmap_addr <= current_address
      /\ end_address = info.mmap_addr + info.mmap_length
  BY <1>1, MapConstants DEF MapInv, CursorInMap
<1>5. ReadsStayInTheMap'
  <2>1. /\ SizeOfSize + MULTIBOOT_MEMORY_MAP_BASE_SIZE \in Nat
        /\ current_address + (SizeOfSize + MULTIBOOT_MEMORY_MAP_BASE_SIZE)
             <= end_address
    BY <1>2, <1>4, MapConstants
  <2>. QED BY <1>1, <2>1, DereferenceInMap
<1>6. CASE memory_map_truncated'
  <2>1. status' = "MALFORMED_DATA"
    BY <1>6 DEF Return
  <2>2. MapTypes' /\ CursorInMap' /\ RegionsCounted' /\ ReadyAtEnd'
    BY <1>1, <1>3, <1>6, <2>1
       DEF MapInv, MapTypes, CursorInMap, RegionsCounted, ReadyAtEnd,
           flagVars
  <2>. QED BY <1>3, <1>5, <2>1, <2>2 DEF MapInv
<1>7. CASE ~memory_map_truncated'
  <2>1. /\ status' = "reading"
        /\ current_address' =
             (current_address + (SizeOfSize + size)) % (UINT32_MAX + 1)
    BY <1>1, <1>2, <1>7
  <2>2. current_address + (SizeOfSize + size) \in 0 .. UINT32_MAX
    BY <1>2, <1>4, MapConstants
  <2>3. current_address' = current_address + (SizeOfSize + size)
    BY <2>1, <2>2, NoWrap
  <2>4. CursorInMap' /\ current_address' > current_address
        /\ current_address' <= end_address
    <3>1. info.mmap_addr \in Nat
      BY InfoTypes DEF MapInv, MapTypes
    <3>. QED BY <1>1, <1>2, <1>4, <2>3, <3>1, MapConstants DEF CursorInMap
  <2>5. MapTypes' /\ RegionsCounted' /\ ReadyAtEnd'
    BY <1>1, <1>3, <1>7, <2>1
       DEF MapInv, MapTypes, RegionsCounted, ReadyAtEnd, flagVars
  <2>. QED BY <1>3, <1>5, <2>4, <2>5 DEF MapInv
<1>. QED BY <1>6, <1>7

(* The end of the map keeps the invariant.                                 *)
LEMMA FinishKeepsMapInv == ASSUME MapInv, Finish PROVE MapInv'
<1>1. /\ status = "reading" /\ UNCHANGED <<info, regionVars, cursorVars>>
      /\ status' = IF memory_region_count = 0 THEN "MALFORMED_DATA" ELSE "OK"
      /\ memory_initialized' = (memory_region_count # 0)
  BY DEF Finish
<1>2. current_address = info.mmap_addr + info.mmap_length
  BY DEF Finish, MapInv, CursorInMap
<1>3. MapTypes' /\ CursorInMap' /\ RegionsCounted' /\ RegionsBounded'
  BY <1>1 DEF MapInv, MapTypes, CursorInMap, RegionsCounted,
              RegionsBounded, regionVars, cursorVars
<1>4. ReadyAtEnd' /\ ReadsStayInTheMap'
  BY <1>1, <1>2 DEF MapInv, ReadyAtEnd, ReadsStayInTheMap, regionVars,
                    cursorVars
<1>. QED BY <1>3, <1>4 DEF MapInv

(* The invariant, and that the walk's cursor moves on, for every step.     *)
LEMMA MapStep ==
  ASSUME MapInv, [Next]_vars
  PROVE  /\ MapInv'
         /\ status = "reading" /\ status' = "reading" /\ ~UNCHANGED vars =>
              /\ current_address' > current_address
              /\ current_address' <= end_address
<1>1. CASE \E address \in InfoAddresses : memory_initialize(address, info)
  BY <1>1, BeginKeepsMapInv DEF memory_initialize
<1>2. CASE \/ NoRoomForSize
           \/ \E size \in Sizes : BadSize(size)
           \/ \E size \in Sizes, base \in Bases, length \in Lengths :
                BadRange(size, base, length)
  <2>1. status' = "MALFORMED_DATA"
    BY <1>2 DEF NoRoomForSize, BadSize, BadRange, Return
  <2>. QED BY <1>2, <2>1, BadEntryKeepsMapInv
<1>3. ASSUME NEW size \in Sizes, NEW base \in Bases, NEW length \in Lengths,
             NEW type \in {MEMORY_REGION_USABLE, MEMORY_REGION_RESERVED},
             AddEntry(size, base, length, type)
      PROVE  /\ MapInv'
             /\ status' = "reading" =>
                  /\ current_address' > current_address
                  /\ current_address' <= end_address
  BY <1>3, AddEntryKeepsMapInv
<1>4. CASE Finish
  BY <1>4, FinishKeepsMapInv DEF Finish
<1>5. CASE UNCHANGED vars
  BY <1>5 DEF vars, flagVars, regionVars, cursorVars, MapInv, MapTypes,
              CursorInMap, RegionsCounted, RegionsBounded, ReadyAtEnd,
              ReadsStayInTheMap
<1>. QED BY <1>1, <1>2, <1>3, <1>4, <1>5 DEF Next, ReadEntry

(* The invariant implies what a caller may expect of a ready map.          *)
LEMMA MapInvIsUsable == MapInv => ReadyMapIsUsable
<1>. SUFFICES ASSUME MapInv, memory_initialized PROVE ReadyMapIsUsable
  BY DEF ReadyMapIsUsable
<1>1. \A region \in Stored : /\ region.length > 0
                             /\ region.base_address + region.length
                                  <= UINT64_MAX
  BY DEF Stored, MapInv, RegionsBounded
<1>. QED BY <1>1, MapConstants
     DEF MapInv, MapTypes, RegionsCounted, ReadyAtEnd, ReadyMapIsUsable

-----------------------------------------------------------------------------
(* The page tables.                                                        *)

(* Division with remainder, and that quotient and remainder are unique.    *)
LEMMA DivMod ==
  ASSUME NEW a \in Nat, NEW b \in Nat \ {0}
  PROVE  /\ a \div b \in Nat /\ a % b \in 0 .. b - 1
         /\ a = b * (a \div b) + (a % b)
BY Z3

(* A quotient is determined by its remainder's bounds.                     *)
LEMMA DivUnique ==
  ASSUME NEW b \in Nat \ {0}, NEW q \in Nat, NEW r \in 0 .. b - 1
  PROVE  (b * q + r) \div b = q /\ (b * q + r) % b = r
<1>. DEFINE a == b * q + r
<1>1. a \in Nat
  OBVIOUS
<1>2. /\ a \div b \in Nat /\ a % b \in 0 .. b - 1
      /\ a = b * (a \div b) + (a % b)
  BY <1>1, DivMod
<1>. DEFINE k == a \div b  s == a % b
<1>3. k \in Nat /\ s \in 0 .. b - 1 /\ b * k + s = b * q + r
  BY <1>2
<1>. HIDE DEF k, s
<1>4. ~(k < q)
  <2>. SUFFICES ASSUME k < q PROVE FALSE
    OBVIOUS
  <2>1. b * (k + 1) <= b * q
    BY <1>3, Z3
  <2>2. b * (k + 1) = b * k + b
    BY <1>3
  <2>. QED BY <1>3, <2>1, <2>2
<1>5. ~(q < k)
  <2>. SUFFICES ASSUME q < k PROVE FALSE
    OBVIOUS
  <2>1. b * (q + 1) <= b * k
    BY <1>3, Z3
  <2>2. b * (q + 1) = b * q + b
    OBVIOUS
  <2>. QED BY <1>3, <2>1, <2>2
<1>6. k = q /\ s = r
  BY <1>3, <1>4, <1>5
<1>. QED BY <1>6 DEF k, s

(* The constants of paging, one by one.                                    *)
LEMMA PageConstants ==
  /\ PageSize \in Nat \ {0} /\ PageSize >= 4
  /\ EntryCount \in Nat \ {0} /\ PageSize * EntryCount \in Nat \ {0}
  /\ TableCount \in Nat /\ DirectoryEntryCount \in Nat
  /\ TableCount <= DirectoryEntryCount
  /\ paging_tables_at \in Nat /\ paging_directory_at \in Nat
  /\ IdentityMappedBytes = (PageSize * EntryCount) * TableCount
<1>1. PageSize \in Nat \ {0} /\ EntryCount \in Nat \ {0}
      /\ IdentityMappedBytes \in Nat /\ PageSize % 4 = 0
      /\ IdentityMappedBytes % (PageSize * EntryCount) = 0
  BY BootConstants
<1>2. PageSize >= 4
  BY <1>1
<1>3. PageSize * EntryCount \in Nat \ {0}
  BY <1>1, Z3
<1>4. TableCount \in Nat
      /\ IdentityMappedBytes = (PageSize * EntryCount) * TableCount + 0
  BY <1>1, <1>3, DivMod DEF TableCount
<1>. QED BY <1>1, <1>2, <1>3, <1>4, BootConstants

(* An entry built from a page number holds that page's address and is      *)
(* present.                                                                *)
LEMMA EntryDecodes ==
  ASSUME NEW n \in Nat
  PROVE  LET entry == n * PageSize + I386_PAGE_FLAGS
         IN  Present(entry) /\ entry - (entry % PageSize) = n * PageSize
<1>. DEFINE entry == n * PageSize + I386_PAGE_FLAGS
<1>1. entry = PageSize * n + 3
  BY PageConstants
     DEF I386_PAGE_FLAGS, I386_PAGE_PRESENT, I386_PAGE_WRITABLE
<1>2. entry % PageSize = 3
  <2>1. 3 \in 0 .. PageSize - 1
    BY PageConstants
  <2>2. (PageSize * n + 3) % PageSize = 3
    BY <2>1, PageConstants, DivUnique
  <2>. QED BY <1>1, <2>2
<1>3. PageSize = 4 * (PageSize \div 4) /\ PageSize \div 4 \in Nat
  <2>1. PageSize = 4 * (PageSize \div 4) + (PageSize % 4)
        /\ PageSize \div 4 \in Nat
    BY PageConstants, DivMod
  <2>. QED BY <2>1, BootConstants
<1>4. Present(entry)
  <2>. DEFINE m == PageSize \div 4
  <2>1. m * n \in Nat
    BY <1>3
  <2>2. entry = 4 * (m * n) + 3
    <3>1. PageSize = 4 * m /\ m \in Nat
      BY <1>3
    <3>. HIDE DEF m
    <3>2. (4 * m) * n = 4 * (m * n)
      BY <3>1, Z3
    <3>. QED BY <1>1, <3>1, <3>2
  <2>. DEFINE k == m * n
  <2>. HIDE DEF k, m, entry
  <2>3. entry = 4 * k + 3 /\ k \in Nat
    BY <2>1, <2>2 DEF k
  <2>. QED BY <2>3 DEF Present, I386_PAGE_PRESENT
<1>. QED BY <1>1, <1>2, <1>4, PageConstants

(* The place of an address: its table, its page, its offset.               *)
LEMMA AddressSplits ==
  ASSUME NEW address \in 0 .. IdentityMappedBytes - 1
  PROVE  LET slot == address \div (PageSize * EntryCount)
             page == (address \div PageSize) % EntryCount
         IN  /\ slot \in 0 .. TableCount - 1 /\ page \in 0 .. EntryCount - 1
             /\ address = (slot * EntryCount + page) * PageSize
                            + (address % PageSize)
<1>. DEFINE slot == address \div (PageSize * EntryCount)
            page == (address \div PageSize) % EntryCount
            quotient == address \div PageSize
            high == quotient \div EntryCount
            offset == address % PageSize
<1>1. address \in Nat /\ address < (PageSize * EntryCount) * TableCount
  BY PageConstants
<1>2. /\ quotient \in Nat /\ offset \in 0 .. PageSize - 1
      /\ address = PageSize * quotient + offset
  BY <1>1, PageConstants, DivMod
<1>. HIDE DEF quotient, offset
<1>3. /\ high \in Nat /\ page \in 0 .. EntryCount - 1
      /\ quotient = EntryCount * high + page
  BY <1>2, PageConstants, DivMod DEF quotient
<1>. HIDE DEF high, page
<1>4. address = (PageSize * EntryCount) * high + (PageSize * page + offset)
  <2>1. PageSize * (EntryCount * high + page)
          = (PageSize * EntryCount) * high + PageSize * page
    BY <1>3, PageConstants, Z3
  <2>. QED BY <1>2, <1>3, <2>1, PageConstants
<1>5. PageSize * page + offset \in 0 .. (PageSize * EntryCount) - 1
  <2>1. page + 1 <= EntryCount /\ page \in Nat
    BY <1>3, PageConstants
  <2>2. PageSize * (page + 1) <= PageSize * EntryCount
    BY <2>1, PageConstants, Z3
  <2>3. PageSize * (page + 1) = PageSize * page + PageSize
        /\ PageSize * page \in Nat
    BY <2>1, PageConstants, Z3
  <2>. QED BY <1>2, <2>2, <2>3, PageConstants
<1>6. slot = high
  BY <1>3, <1>4, <1>5, PageConstants, DivUnique
<1>7. high < TableCount
  <2>. SUFFICES ASSUME high >= TableCount PROVE FALSE
    BY <1>3, PageConstants
  <2>1. (PageSize * EntryCount) * high >= (PageSize * EntryCount) * TableCount
    BY <1>3, PageConstants, Z3
  <2>. QED BY <1>1, <1>3, <1>4, <1>5, <2>1, PageConstants
<1>8. address = (high * EntryCount + page) * PageSize + offset
  BY <1>2, <1>3, PageConstants
<1>. HIDE DEF slot
<1>9. /\ slot \in 0 .. TableCount - 1 /\ page \in 0 .. EntryCount - 1
      /\ address = (slot * EntryCount + page) * PageSize + offset
  BY <1>3, <1>6, <1>7, <1>8, PageConstants
<1>. QED BY <1>9, Zenon DEF slot, page, offset

Built ==
  /\ cr3 = paging_directory_at
  /\ paging_tables =
       [table \in 0 .. TableCount - 1 |-> [page \in 0 .. EntryCount - 1 |->
          (table * EntryCount + page) * PageSize + I386_PAGE_FLAGS]]
  /\ paging_directory =
       [table \in 0 .. DirectoryEntryCount - 1 |->
          IF table < TableCount
          THEN TableAddress(table) + I386_PAGE_FLAGS ELSE 0]

IdentityMapped ==
  \A address \in 0 .. IdentityMappedBytes - 1 : Translate(address) = address

(* The tables that paging.c builds map the first IdentityMappedBytes to    *)
(* themselves.                                                             *)
LEMMA BuiltIsIdentity == Built => IdentityMapped
<1>. SUFFICES ASSUME Built, NEW address \in 0 .. IdentityMappedBytes - 1,
                     cr0_paging
              PROVE  Translate(address) = address
  BY DEF IdentityMapped, Translate
<1>. DEFINE slot == address \div (PageSize * EntryCount)
            page == (address \div PageSize) % EntryCount
            pde == IF cr3 = paging_directory_at
                   THEN paging_directory[slot] ELSE 0
            tables == {t \in 0 .. TableCount - 1 :
                         TableAddress(t) = pde - (pde % PageSize)}
            pte(t) == paging_tables[t][page]
            hits == {t \in tables : Present(pte(t))}
<1>1. /\ slot \in 0 .. TableCount - 1 /\ page \in 0 .. EntryCount - 1
      /\ address = (slot * EntryCount + page) * PageSize
                     + (address % PageSize)
  BY AddressSplits
<1>. HIDE DEF slot, page
<1>2. \A t \in 0 .. TableCount - 1 :
        \E n \in Nat : TableAddress(t) = n * PageSize
  <2>. SUFFICES ASSUME NEW t \in 0 .. TableCount - 1
                PROVE  \E n \in Nat : TableAddress(t) = n * PageSize
    OBVIOUS
  <2>. DEFINE k == paging_tables_at \div PageSize
  <2>1. k \in Nat /\ paging_tables_at = PageSize * k
    <3>1. /\ k \in Nat
          /\ paging_tables_at = PageSize * k + (paging_tables_at % PageSize)
      BY PageConstants, DivMod
    <3>2. paging_tables_at % PageSize = 0
      BY BootConstants
    <3>. QED BY <3>1, <3>2, PageConstants
  <2>. HIDE DEF k
  <2>2. k + t \in Nat /\ paging_tables_at + t * PageSize = (k + t) * PageSize
    BY <2>1, PageConstants
  <2>. QED BY <2>2 DEF TableAddress
<1>3. pde = TableAddress(slot) + I386_PAGE_FLAGS
  BY <1>1, PageConstants DEF Built
<1>4. Present(pde) /\ pde - (pde % PageSize) = TableAddress(slot)
  BY <1>1, <1>2, <1>3, EntryDecodes
<1>5. tables = {slot}
  <2>1. ASSUME NEW t \in 0 .. TableCount - 1,
               TableAddress(t) = TableAddress(slot)
        PROVE  t = slot
    <3>1. t * PageSize = slot * PageSize
      BY <1>1, <2>1, PageConstants DEF TableAddress
    <3>. QED BY <1>1, <3>1, PageConstants, Z3
  <2>. QED BY <1>1, <1>4, <2>1
<1>6. pte(slot) = (slot * EntryCount + page) * PageSize + I386_PAGE_FLAGS
  BY <1>1 DEF Built
<1>7. slot * EntryCount + page \in Nat
  BY <1>1, PageConstants
<1>8. /\ Present(pte(slot))
      /\ pte(slot) - (pte(slot) % PageSize)
           = (slot * EntryCount + page) * PageSize
  BY <1>6, <1>7, EntryDecodes
<1>9. hits = {slot} /\ (CHOOSE t \in hits : TRUE) = slot
  BY <1>5, <1>8
<1>10. Translate(address) =
         pte(CHOOSE t \in hits : TRUE)
           - (pte(CHOOSE t \in hits : TRUE) % PageSize)
           + (address % PageSize)
  <2>1. hits # {} /\ Present(pde)
    BY <1>4, <1>9
  <2>. QED BY <2>1 DEF Translate, slot, page
<1>. QED BY <1>1, <1>8, <1>9, <1>10

-----------------------------------------------------------------------------
(* The frame allocator, as kernel_main calls it.  PmmProofs is used with   *)
(* every hand-over its types allow.                                        *)

PP == INSTANCE PmmProofs WITH
        FrameSize <- PageSize, U64Max <- UINT64_MAX,
        KernelStart <- kernel_start, KernelEnd <- kernel_end,
        BitmapStart <- pmm_bitmap_at,
        AllocBitmapStart <- pmm_allocated_bitmap_at,
        BootInfos <- P!BootInfo, boot <- HandOver, status <- pmm_status

(* The heap is made of whole pages behind .bss.                            *)
LEMMA HeapConstants ==
  /\ kernel_heap_start \in Nat /\ kernel_heap_end \in Nat
  /\ kernel_end \in Nat /\ kernel_end = kernel_heap_end
  /\ bss_end <= kernel_heap_start /\ kernel_heap_start > 0
  /\ kernel_heap_end = kernel_heap_start + HeapBytes
  /\ kernel_heap_start % PageSize = 0 /\ kernel_heap_end % PageSize = 0
<1>. DEFINE n == (bss_end + PageSize - 1) \div PageSize
            m == HeapBytes \div PageSize
<1>1. /\ PageSize \in Nat \ {0} /\ bss_end \in Nat \ {0}
      /\ HeapBytes \in Nat \ {0} /\ HeapBytes % PageSize = 0
  BY BootConstants
<1>2. /\ n \in Nat
      /\ bss_end + PageSize - 1 =
           PageSize * n + ((bss_end + PageSize - 1) % PageSize)
      /\ (bss_end + PageSize - 1) % PageSize \in 0 .. PageSize - 1
  <2>. DEFINE d == bss_end + PageSize - 1
  <2>1. d \in Nat
    BY <1>1
  <2>. HIDE DEF d
  <2>2. /\ d \div PageSize \in Nat /\ d % PageSize \in 0 .. PageSize - 1
        /\ d = PageSize * (d \div PageSize) + (d % PageSize)
    BY <1>1, <2>1, DivMod
  <2>. QED BY <2>2 DEF d
<1>3. m \in Nat /\ HeapBytes = PageSize * m
  BY <1>1, DivMod
<1>. HIDE DEF n, m
<1>4. kernel_heap_start = PageSize * n
  BY <1>1, <1>2 DEF kernel_heap_start, AlignUp, n
<1>5. kernel_heap_start \in Nat /\ bss_end <= kernel_heap_start
  BY <1>1, <1>2, <1>4
<1>6. kernel_heap_start + HeapBytes = PageSize * (n + m) /\ n + m \in Nat
  BY <1>1, <1>2, <1>3, <1>4
<1>7. kernel_heap_end = PageSize * (n + m)
  <2>1. PageSize - 1 \in 0 .. PageSize - 1
    BY <1>1
  <2>2. (PageSize * (n + m) + (PageSize - 1)) \div PageSize = n + m
    BY <1>1, <1>6, <2>1, DivUnique
  <2>3. kernel_heap_start + HeapBytes + PageSize - 1
          = PageSize * (n + m) + (PageSize - 1)
    BY <1>1, <1>5, <1>6
  <2>. QED BY <1>1, <1>6, <2>2, <2>3 DEF kernel_heap_end, AlignUp
<1>8. /\ (PageSize * n + 0) % PageSize = 0
      /\ (PageSize * (n + m) + 0) % PageSize = 0
  <2>1. 0 \in 0 .. PageSize - 1
    BY <1>1
  <2>. QED BY <1>1, <1>2, <1>6, <2>1, DivUnique
<1>9. PageSize * n + 0 = PageSize * n
      /\ PageSize * (n + m) + 0 = PageSize * (n + m)
  BY <1>1, <1>2, <1>6
<1>10. kernel_heap_start > 0
  BY <1>1, <1>5
<1>11. kernel_heap_start % PageSize = 0 /\ kernel_heap_end % PageSize = 0
  BY <1>4, <1>7, <1>8, <1>9
<1>12. kernel_heap_end = kernel_heap_start + HeapBytes
       /\ kernel_heap_end \in Nat
  BY <1>1, <1>5, <1>6, <1>7
<1>. QED BY <1>5, <1>10, <1>11, <1>12 DEF kernel_end

(* The assumption of PmmProofs holds of the instance that Boot makes.      *)
LEMMA PmmAssumption ==
  /\ PageSize \in Nat \ {0}
  /\ MaxFrames \in Nat \ {0}
  /\ UINT64_MAX \in Nat
  /\ MaxFrames * PageSize <= UINT64_MAX
  /\ {LowReservedBytes, kernel_start, kernel_end, pmm_bitmap_at,
      pmm_allocated_bitmap_at, BitmapBytes, InfoBytes} \subseteq Nat
BY BootConstants, MapConstants, HeapConstants

(* What the parser leaves has the type that PmmProofs asks of the          *)
(* hand-over.                                                              *)
LEMMA HandOverAssumption == P!BootInfo \subseteq PP!BootInfo
BY DEF P!BootInfo, PP!BootInfo, P!Region, PP!Region

(* The two instances of Pmm define the same.                               *)
LEMMA SamePmm ==
  /\ P!pmm_initialize => PP!pmm_initialize
  /\ P!Pool = PP!Pool
  /\ PP!PoolIsSafeMemory => P!PoolIsSafeMemory
<1>1. P!pmm_initialize => PP!pmm_initialize
  <2>1. /\ \A v : P!pmm_align_down(v) = PP!pmm_align_down(v)
        /\ \A v : P!pmm_align_up(v) = PP!pmm_align_up(v)
        /\ \A b, l : P!pmm_range_end(b, l) = PP!pmm_range_end(b, l)
    BY DEF P!pmm_align_up, PP!pmm_align_up, P!pmm_align_down,
           PP!pmm_align_down, P!pmm_range_end, PP!pmm_range_end
  <2>2. \A b : P!TotalFrames(b) = PP!TotalFrames(b)
    BY Zenon DEF P!TotalFrames, PP!TotalFrames, P!pmm_align_up,
       PP!pmm_align_up, P!pmm_align_down, PP!pmm_align_down,
       P!pmm_range_end, PP!pmm_range_end
  <2>3. \A b, t : P!pmm_release_usable_memory_regions(b, t)
                    = PP!pmm_release_usable_memory_regions(b, t)
    BY <2>1 DEF P!pmm_release_usable_memory_regions, P!FramesInside,
                PP!pmm_release_usable_memory_regions, PP!FramesInside
  <2>4. \A b, t : P!ReservedFrames(b, t) = PP!ReservedFrames(b, t)
    BY <2>1 DEF P!ReservedFrames, PP!ReservedFrames, P!ReservedRanges,
                PP!ReservedRanges, P!FramesTouched, PP!FramesTouched
  <2>5. /\ \A m, f : P!pmm_mark_frame_free(m, f) = PP!pmm_mark_frame_free(m, f)
        /\ \A m, f : P!pmm_mark_frame_used(m, f) = PP!pmm_mark_frame_used(m, f)
    <3>1. /\ \A c, n : P!Decrease(c, n) = PP!Decrease(c, n)
          /\ \A S : P!Cardinality(S) = PP!Cardinality(S)
      BY Zenon DEF P!Decrease, PP!Decrease, P!Cardinality, PP!Cardinality
    <3>2. ASSUME NEW m, NEW f
          PROVE  P!pmm_mark_frame_free(m, f) = PP!pmm_mark_frame_free(m, f)
      BY <3>1 DEF P!pmm_mark_frame_free, PP!pmm_mark_frame_free
    <3>3. ASSUME NEW m, NEW f
          PROVE  P!pmm_mark_frame_used(m, f) = PP!pmm_mark_frame_used(m, f)
      BY <3>1 DEF P!pmm_mark_frame_used, PP!pmm_mark_frame_used
    <3>. QED BY <3>2, <3>3
  <2>6. \A b, t : P!InitialMarks(b, t) = PP!InitialMarks(b, t)
    BY <2>3, <2>4, <2>5, Zenon DEF P!InitialMarks, PP!InitialMarks
  <2>. QED BY <2>2, <2>6 DEF P!pmm_initialize, PP!pmm_initialize, P!Answer,
                             PP!Answer, P!NoFrame, PP!NoFrame
<1>2. P!Pool = PP!Pool
  BY DEF P!Pool, PP!Pool, P!Tracked, PP!Tracked
<1>3. PP!PoolIsSafeMemory => P!PoolIsSafeMemory
  BY <1>2 DEF P!PoolIsSafeMemory, PP!PoolIsSafeMemory, P!Bytes, PP!Bytes,
              P!Holds, PP!Holds
<1>. QED BY <1>1, <1>2, <1>3

(* What memory.c passes on is a hand-over the frame allocator expects.     *)
LEMMA HandOverType ==
  ASSUME MapInv, multiboot_info_address \in InfoAddresses
  PROVE  HandOver \in P!BootInfo
<1>1. HandOver.regions \in Seq(P!Region)
  <2>. DEFINE R(i) == [base |-> memory_regions[i - 1].base_address,
                       length |-> memory_regions[i - 1].length,
                       usable |-> memory_regions[i - 1].type
                                    = MEMORY_REGION_USABLE]
  <2>1. memory_region_count \in Nat
    BY MapConstants DEF MapInv, MapTypes
  <2>2. \A i \in 1 .. memory_region_count : R(i) \in P!Region
    <3>. SUFFICES ASSUME NEW i \in 1 .. memory_region_count
                  PROVE  R(i) \in P!Region
      OBVIOUS
    <3>1. /\ i - 1 \in 0 .. memory_region_count - 1
          /\ i - 1 \in 0 .. MEMORY_MAX_REGIONS - 1
      BY <2>1, MapConstants DEF MapInv, MapTypes
    <3>2. /\ memory_regions[i - 1] \in Region
          /\ memory_regions[i - 1].length > 0
      BY <3>1 DEF MapInv, MapTypes, RegionsBounded
    <3>. QED BY <3>2, MapConstants DEF Region, P!Region
  <2>. HIDE DEF R
  <2>3. [i \in 1 .. memory_region_count |-> R(i)]
          \in [1 .. memory_region_count -> P!Region]
    BY <2>2
  <2>4. [i \in 1 .. memory_region_count |-> R(i)] \in Seq(P!Region)
    BY <2>1, <2>3, SeqDef
  <2>. QED BY <2>4 DEF HandOver, R
<1>2. /\ multiboot_info_address \in Nat
      /\ info.mmap_addr \in Nat /\ info.mmap_length \in Nat
      /\ memory_initialized \in BOOLEAN
  BY MemoryMapConstants, InfoTypes, MapConstants DEF MapInv, MapTypes
<1>. QED BY <1>1, <1>2 DEF HandOver, P!BootInfo

-----------------------------------------------------------------------------
(* kernel_main.  Each service's state is tied to the call kernel_main is   *)
(* in: initial before the service's turn, ready after it.                  *)

PmmAtRest ==
  /\ pmm_status = "uncalled" /\ pmm_initialized = FALSE
  /\ pmm_total_frames = 0 /\ pmm_next_search_frame = 0
  /\ marks = [bitmap |-> {}, free |-> 0, used |-> 0]
  /\ pmm_allocated_bitmap = {}
  /\ answer = P!Answer("none", FALSE, P!NoFrame)

MapPhase ==
  /\ position < 3 => status = "uncalled"
  /\ position > 3 => memory_initialized
  /\ position = 3 /\ panic # "none" => ~memory_initialized

PmmPhase ==
  /\ position < 4 => PmmAtRest
  /\ position = 4 /\ panic = "none" => PmmAtRest
  /\ position = 4 /\ panic # "none" => ~pmm_initialized
  /\ position > 4 => pmm_initialized /\ marks.free > 0

PagingPhase ==
  /\ position <= 6 => ~cr0_paging /\ ~vmm_initialized
  /\ position < 6 => cr3 = 0
  /\ cr3 \in {0, paging_directory_at}
  /\ position > 6 => /\ cr0_paging /\ vmm_initialized /\ paging_initialized
                     /\ Built

HeapPhase ==
  /\ position <= 7 => /\ ~heap_initialized
                      /\ heap_start_address = 0 /\ heap_end_address = 0
  /\ position > 7 => /\ heap_initialized /\ heap_capacity = HeapBytes
                     /\ heap_start_address = kernel_heap_start
                     /\ heap_end_address = kernel_heap_end

(* A service that can fail is the one kernel_main panics in.               *)
PanicPhase ==
  /\ position \in 1 .. 8
  /\ panic # "none" => position \in {1, 3, 4, 6}

BootInv ==
  /\ MapInv
  /\ multiboot_info_address \in InfoAddresses
  /\ PanicPhase /\ MapPhase /\ PmmPhase /\ PagingPhase /\ HeapPhase
  /\ P!PoolIsSafeMemory

(* Each call has its own place in kernel_main.                             *)
LEMMA CallPositions ==
  ASSUME PanicPhase
  PROVE  /\ Calling("console_initialize") => position = 1 /\ panic = "none"
         /\ Calling("klog_initialize") => position = 2 /\ panic = "none"
         /\ Calling("memory_initialize") => position = 3 /\ panic = "none"
         /\ Calling("pmm_initialize") => position = 4 /\ panic = "none"
         /\ Calling("gdt_initialize") => position = 5 /\ panic = "none"
         /\ Calling("vmm_initialize") => position = 6 /\ panic = "none"
         /\ Calling("heap_initialize") => position = 7 /\ panic = "none"
         /\ Calling("interrupts_initialize") =>
              position = 8 /\ panic = "none"
<1>1. /\ BootOrder[1] = "console_initialize"
      /\ BootOrder[2] = "klog_initialize"
      /\ BootOrder[3] = "memory_initialize"
      /\ BootOrder[4] = "pmm_initialize"
      /\ BootOrder[5] = "gdt_initialize"
      /\ BootOrder[6] = "vmm_initialize"
      /\ BootOrder[7] = "heap_initialize"
      /\ BootOrder[8] = "interrupts_initialize"
  BY DEF BootOrder
<1>2. position \in {1, 2, 3, 4, 5, 6, 7, 8}
  BY DEF PanicPhase
<1>. QED BY <1>1, <1>2 DEF Calling

(* A pool that is empty is safe.                                           *)
LEMMA NoPoolIsSafe == ~pmm_initialized => P!PoolIsSafeMemory
BY DEF P!PoolIsSafeMemory, P!Pool

(* Safety of the pool is about what memory.c holds and the bitmaps.        *)
LEMMA PoolStaysSafe ==
  ASSUME P!PoolIsSafeMemory, UNCHANGED <<vars, multiboot_info_address, pmmVars>>
  PROVE  P!PoolIsSafeMemory'
<1>1. HandOver' = HandOver
  BY DEF HandOver, vars, flagVars, regionVars
<1>2. P!Pool' = P!Pool
  BY DEF P!Pool, P!Tracked, pmmVars
<1>. QED BY <1>1, <1>2 DEF P!PoolIsSafeMemory, P!Bytes, P!Holds

(* The machine the boot loader starts satisfies the invariant.             *)
LEMMA InitEstablishesBootInv == BootInit => BootInv
<1>. SUFFICES ASSUME BootInit PROVE BootInv
  OBVIOUS
<1>1. MapInv /\ multiboot_info_address \in InfoAddresses
  BY InitEstablishesMapInv DEF BootInit
<1>2. PanicPhase /\ MapPhase
  BY DEF BootInit, PanicPhase, MapPhase, Init
<1>3. PmmPhase
  <2>1. PmmAtRest /\ position = 1
    BY DEF BootInit, PmmAtRest
  <2>. QED BY <2>1 DEF PmmPhase
<1>4. PagingPhase /\ HeapPhase
  BY DEF BootInit, PagingPhase, HeapPhase
<1>5. P!PoolIsSafeMemory
  BY NoPoolIsSafe DEF BootInit
<1>. QED BY <1>1, <1>2, <1>3, <1>4, <1>5 DEF BootInv

(* kernel_main touches memory.c's state only through memory_initialize.    *)
LEMMA BootStepIsMapStep ==
  ASSUME multiboot_info_address \in InfoAddresses, [BootNext]_bootVars
  PROVE  [Next]_vars
<1>1. CASE InitializeMemory
  BY <1>1 DEF InitializeMemory, Next
<1>. QED BY <1>1 DEF BootNext, bootVars, CheckMultiboot, CannotFail,
                     InitializePmm, vmm_initialize, heap_initialize

(* A step that starts no service keeps what the services' states say.      *)
LEMMA QuietStep ==
  ASSUME BootInv, panic = "none",
         UNCHANGED <<vars, multiboot_info_address, pmmVars, pagingVars,
                     heapVars>>,
         \/ position = 1 /\ position' = 1 /\ panic' # "none"
         \/ position = 1 /\ position' = 2 /\ panic' = "none"
         \/ position = 2 /\ position' = 3 /\ panic' = "none"
         \/ position = 5 /\ position' = 6 /\ panic' = "none"
  PROVE  BootInv'
<1>1. MapInv'
  BY MapStep DEF BootInv
<1>2. P!PoolIsSafeMemory'
  BY PoolStaysSafe DEF BootInv
<1>3. UNCHANGED <<status, memory_initialized>>
  BY DEF vars, flagVars
<1>4. PanicPhase' /\ MapPhase'
  <2>1. position' = 3 => ~memory_initialized /\ panic' = "none"
    BY DEF BootInv, MapPhase, MapInv, ReadyAtEnd
  <2>. QED BY <1>3, <2>1 DEF BootInv, PanicPhase, MapPhase
<1>5. PmmPhase'
  <2>1. /\ PmmAtRest' <=> PmmAtRest
        /\ UNCHANGED <<pmm_initialized, marks>>
    BY DEF PmmAtRest, pmmVars
  <2>. QED BY <2>1 DEF BootInv, PmmPhase
<1>6. PagingPhase' /\ HeapPhase'
  BY DEF BootInv, PagingPhase, HeapPhase, pagingVars, heapVars
<1>7. multiboot_info_address' \in InfoAddresses
  BY DEF BootInv
<1>. QED BY <1>1, <1>2, <1>4, <1>5, <1>6, <1>7 DEF BootInv

(* The checks of kernel_main keep the invariant.                           *)
LEMMA CheckKeepsBootInv ==
  ASSUME BootInv, NEW matches \in BOOLEAN, CheckMultiboot(matches)
  PROVE  BootInv'
<1>1. position = 1 /\ panic = "none"
  BY CallPositions DEF BootInv, CheckMultiboot
<1>2. \/ position' = 1 /\ panic' # "none"
      \/ position' = 2 /\ panic' = "none"
  BY <1>1 DEF CheckMultiboot, kernel_require
<1>3. UNCHANGED <<vars, multiboot_info_address, pmmVars, pagingVars, heapVars>>
  BY DEF CheckMultiboot
<1>. QED BY <1>1, <1>2, <1>3, QuietStep

(* No service fails here, and none is started.                             *)
LEMMA CannotFailKeepsBootInv ==
  ASSUME BootInv, CannotFail
  PROVE  BootInv'
<1>1. /\ panic = "none" /\ panic' = "none"
      /\ \/ position = 2 /\ position' = 3
         \/ position = 5 /\ position' = 6
  BY CallPositions DEF BootInv, CannotFail
<1>2. UNCHANGED <<vars, multiboot_info_address, pmmVars, pagingVars, heapVars>>
  BY DEF CannotFail
<1>. QED BY <1>1, <1>2, QuietStep

(* memory_initialize, step by step, keeps the invariant.                   *)
LEMMA MemoryKeepsBootInv ==
  ASSUME BootInv, InitializeMemory
  PROVE  BootInv'
<1>1. /\ position = 3 /\ panic = "none"
      /\ UNCHANGED <<multiboot_info_address, pmmVars, pagingVars, heapVars>>
  BY CallPositions DEF BootInv, InitializeMemory
<1>2. MapInv'
  BY BootStepIsMapStep, MapStep DEF BootInv, BootNext
<1>3. \/ position' = 3 /\ panic' = "none"
      \/ /\ position' = 4 /\ panic' = "none"
         /\ status = "OK" /\ memory_initialized' = memory_initialized
      \/ /\ position' = 3 /\ panic' # "none"
         /\ status # "OK" /\ memory_initialized' = memory_initialized
  BY <1>1 DEF InitializeMemory, kernel_require, mainVars, vars, flagVars
<1>4. memory_initialized <=> status = "OK"
  BY DEF BootInv, MapInv, ReadyAtEnd
<1>5. PanicPhase' /\ MapPhase'
  BY <1>3, <1>4 DEF PanicPhase, MapPhase
<1>6. PmmAtRest /\ PmmAtRest'
  BY <1>1 DEF BootInv, PmmPhase, PmmAtRest, pmmVars
<1>7. PmmPhase'
  BY <1>3, <1>6 DEF PmmPhase
<1>8. PagingPhase' /\ HeapPhase'
  BY <1>1, <1>3 DEF BootInv, PagingPhase, HeapPhase, pagingVars, heapVars
<1>9. P!PoolIsSafeMemory'
  <2>1. ~pmm_initialized'
    BY <1>6 DEF PmmAtRest
  <2>2. (~pmm_initialized => P!PoolIsSafeMemory)'
    BY NoPoolIsSafe, PTL
  <2>. QED BY <2>1, <2>2
<1>. QED BY <1>1, <1>2, <1>5, <1>7, <1>8, <1>9 DEF BootInv

(* What PmmProofs shows of pmm_initialize, here with memory.c's own map.   *)
LEMMA PmmKeepsBootInv ==
  ASSUME BootInv, InitializePmm
  PROVE  BootInv'
<1>1. /\ position = 4 /\ panic = "none"
      /\ UNCHANGED <<vars, multiboot_info_address, pagingVars, heapVars>>
      /\ PmmAtRest /\ P!pmm_initialize /\ PP!pmm_initialize
  BY CallPositions, SamePmm DEF BootInv, InitializePmm, PmmPhase
<1>2. PP!Init
  <2>1. HandOver \in P!BootInfo
    BY HandOverType DEF BootInv
  <2>. QED BY <1>1, <2>1 DEF PP!Init, PmmAtRest, P!Answer, PP!Answer,
                              P!NoFrame, PP!NoFrame
<1>3. PP!IInv
  BY <1>2, PP!InitEstablishesIInv, PmmAssumption, HandOverAssumption
<1>4. PP!PoolIsSafeMemory' /\ PP!IInv'
  BY <1>1, <1>3, PP!InitialPoolIsSafe, PP!InitializeKeepsIInv,
     PmmAssumption, HandOverAssumption
<1>5. P!PoolIsSafeMemory'
  <2>1. (PP!PoolIsSafeMemory => P!PoolIsSafeMemory)'
    BY SamePmm, PTL
  <2>. QED BY <1>4, <2>1
<1>6. marks'.free \in Nat
  BY <1>4 DEF PP!IInv, PP!TypeOK, PP!Marks
<1>7. /\ pmm_status' = "OK" => pmm_initialized' /\ marks'.free # 0
      /\ pmm_status' # "OK" => ~pmm_initialized'
  <2>1. pmm_initialized' <=> pmm_status' = "OK"
    BY <1>4 DEF PP!IInv, PP!TypeOK
  <2>2. pmm_status' = "OK" => marks'.free # 0
    BY <1>1 DEF P!pmm_initialize
  <2>. QED BY <2>1, <2>2
<1>8. \/ position' = 5 /\ panic' = "none" /\ pmm_status' = "OK"
      \/ position' = 4 /\ panic' # "none" /\ pmm_status' # "OK"
  BY <1>1 DEF InitializePmm, kernel_require
<1>9. PmmPhase'
  BY <1>6, <1>7, <1>8 DEF PmmPhase
<1>10. MapInv' /\ MapPhase' /\ PanicPhase'
  <2>1. MapInv'
    BY <1>1, MapStep DEF BootInv
  <2>2. UNCHANGED <<status, memory_initialized>>
    BY <1>1 DEF vars, flagVars
  <2>. QED BY <1>1, <1>8, <2>1, <2>2 DEF BootInv, MapPhase, PanicPhase
<1>11. PagingPhase' /\ HeapPhase'
  BY <1>1, <1>8 DEF BootInv, PagingPhase, HeapPhase, pagingVars, heapVars
<1>. QED BY <1>1, <1>5, <1>9, <1>10, <1>11 DEF BootInv

(* vmm_initialize, paging included, keeps the invariant.                   *)
LEMMA VmmKeepsBootInv ==
  ASSUME BootInv, NEW works \in BOOLEAN, vmm_initialize(works)
  PROVE  BootInv'
<1>1. /\ position = 6 /\ panic = "none"
      /\ UNCHANGED <<vars, multiboot_info_address, pmmVars, heapVars>>
  BY CallPositions DEF BootInv, vmm_initialize
<1>2. /\ Built'
      /\ cr3' = paging_directory_at
  BY DEF vmm_initialize, i386_paging_initialize_identity, Built,
         i386_paging_build_identity_map, TableAddress
<1>3. \/ /\ position' = 7 /\ panic' = "none"
         /\ cr0_paging' /\ vmm_initialized' /\ paging_initialized'
      \/ /\ position' = 6 /\ panic' # "none"
         /\ ~cr0_paging' /\ ~vmm_initialized'
  <2>1. CASE works = TRUE
    BY <1>1, <2>1 DEF vmm_initialize, i386_paging_initialize_identity,
                      kernel_require
  <2>2. CASE works = FALSE
    BY <1>1, <2>2 DEF vmm_initialize, i386_paging_initialize_identity,
                      kernel_require
  <2>. QED BY <2>1, <2>2
<1>4. PagingPhase'
  BY <1>2, <1>3 DEF PagingPhase
<1>5. MapInv' /\ MapPhase' /\ PanicPhase'
  <2>1. MapInv'
    BY <1>1, MapStep DEF BootInv
  <2>2. UNCHANGED <<status, memory_initialized>>
    BY <1>1 DEF vars, flagVars
  <2>. QED BY <1>1, <1>3, <2>1, <2>2 DEF BootInv, MapPhase, PanicPhase
<1>6. PmmPhase' /\ HeapPhase'
  <2>1. UNCHANGED <<pmm_initialized, marks, heap_initialized,
                    heap_start_address, heap_end_address>>
    BY <1>1 DEF pmmVars, heapVars
  <2>. QED BY <1>1, <1>3, <2>1 DEF BootInv, PmmPhase, HeapPhase
<1>7. P!PoolIsSafeMemory'
  BY <1>1, PoolStaysSafe DEF BootInv
<1>. QED BY <1>1, <1>4, <1>5, <1>6, <1>7 DEF BootInv

(* heap_initialize keeps the invariant.                                    *)
LEMMA HeapKeepsBootInv ==
  ASSUME BootInv, heap_initialize
  PROVE  BootInv'
<1>1. /\ position = 7 /\ panic = "none"
      /\ UNCHANGED <<vars, multiboot_info_address, pmmVars, pagingVars>>
  BY CallPositions DEF BootInv, heap_initialize
<1>2. HeapStatus = "OK"
  <2>1. ~heap_initialized
    BY <1>1 DEF BootInv, HeapPhase
  <2>2. ~(kernel_heap_end <= kernel_heap_start)
    BY HeapConstants, BootConstants
  <2>. QED BY <2>1, <2>2, HeapConstants DEF HeapStatus
<1>3. /\ position' = 8 /\ panic' = "none"
      /\ heap_start_address' = kernel_heap_start
      /\ heap_end_address' = kernel_heap_end
      /\ heap_capacity' = kernel_heap_end - kernel_heap_start
      /\ heap_initialized'
  BY <1>1, <1>2 DEF heap_initialize, kernel_require
<1>4. heap_capacity' = HeapBytes
  BY <1>3, HeapConstants, BootConstants
<1>5. HeapPhase'
  BY <1>3, <1>4 DEF HeapPhase
<1>6. MapInv' /\ MapPhase' /\ PanicPhase'
  <2>1. MapInv'
    BY <1>1, MapStep DEF BootInv
  <2>2. UNCHANGED <<status, memory_initialized>>
    BY <1>1 DEF vars, flagVars
  <2>. QED BY <1>1, <1>3, <2>1, <2>2 DEF BootInv, MapPhase, PanicPhase
<1>7. PmmPhase' /\ PagingPhase'
  <2>1. UNCHANGED <<pmm_initialized, marks, pagingVars>>
    BY <1>1 DEF pmmVars
  <2>. QED BY <1>1, <1>3, <2>1 DEF BootInv, PmmPhase, PagingPhase,
              pagingVars, Built
<1>8. P!PoolIsSafeMemory'
  BY <1>1, PoolStaysSafe DEF BootInv
<1>. QED BY <1>1, <1>5, <1>6, <1>7, <1>8 DEF BootInv

(* Every step of kernel_main keeps the invariant.                          *)
LEMMA BootStep == BootInv /\ [BootNext]_bootVars => BootInv'
<1>. SUFFICES ASSUME BootInv, [BootNext]_bootVars PROVE BootInv'
  OBVIOUS
<1>1. CASE UNCHANGED bootVars
  <2>1. MapInv'
    BY <1>1, MapStep DEF BootInv, bootVars
  <2>2. P!PoolIsSafeMemory'
    BY <1>1, PoolStaysSafe DEF BootInv, bootVars
  <2>3. UNCHANGED <<status, memory_initialized, position, panic,
                    multiboot_info_address>>
    BY <1>1 DEF bootVars, vars, flagVars, mainVars
  <2>4. UNCHANGED <<pmmVars, pagingVars, heapVars>>
    BY <1>1 DEF bootVars
  <2>5. PanicPhase' /\ MapPhase'
    BY <2>3 DEF BootInv, PanicPhase, MapPhase
  <2>6. PmmPhase'
    <3>1. /\ PmmAtRest' <=> PmmAtRest
          /\ UNCHANGED <<pmm_initialized, marks>>
      BY <2>4 DEF PmmAtRest, pmmVars
    <3>. QED BY <2>3, <3>1 DEF BootInv, PmmPhase
  <2>7. PagingPhase' /\ HeapPhase'
    BY <2>3, <2>4 DEF BootInv, PagingPhase, HeapPhase, pagingVars, heapVars,
                      Built
  <2>. QED BY <2>1, <2>2, <2>3, <2>5, <2>6, <2>7 DEF BootInv
<1>. QED BY <1>1, CheckKeepsBootInv, CannotFailKeepsBootInv,
            MemoryKeepsBootInv, PmmKeepsBootInv, VmmKeepsBootInv,
            HeapKeepsBootInv DEF BootNext

-----------------------------------------------------------------------------
(* The theorems.                                                           *)

(* kernel_main keeps the invariant: each service is untouched before its   *)
(* turn and ready after it.                                                *)
THEOREM BootInvariant == BootSpec => []BootInv
<1>. QED BY InitEstablishesBootInv, BootStep, PTL DEF BootSpec

(* memory_read_multiboot_map reads nothing outside the map, whatever the   *)
(* sizes in its entries.                                                   *)
THEOREM BootReadsStayInTheMap == BootSpec => []ReadsStayInTheMap
<1>1. BootInv => ReadsStayInTheMap
  BY DEF BootInv, MapInv
<1>. QED BY <1>1, BootInvariant, PTL

(* A map that memory_initialize declares ready was read to its end, lists  *)
(* every region, and none of them leaves the address space.                *)
THEOREM BootReadyMapIsUsable == BootSpec => []ReadyMapIsUsable
<1>1. BootInv => ReadyMapIsUsable
  BY MapInvIsUsable DEF BootInv
<1>. QED BY <1>1, BootInvariant, PTL

(* Every entry of the map moves the cursor on and never past the end: the  *)
(* loop of memory_read_multiboot_map ends for every map.                   *)
THEOREM BootCursorAdvances == BootSpec => CursorAdvances
<1>1. BootInv /\ [BootNext]_bootVars =>
        [status = "reading" /\ status' = "reading" =>
           /\ current_address' > current_address
           /\ current_address' <= end_address]_vars
  BY BootStepIsMapStep, MapStep DEF BootInv
<1>. QED BY <1>1, BootInvariant, PTL DEF BootSpec, CursorAdvances

(* The frames that pmm_initialize puts into the pool, from the map that    *)
(* memory.c passes on, hold no byte of the heap, of the page directory or  *)
(* of the page tables.                                                     *)
THEOREM BootFramesAreNobodyElses == BootSpec => []FramesAreNobodyElses
<1>1. BootInv => FramesAreNobodyElses
  <2>. SUFFICES ASSUME BootInv, NEW frame \in P!Pool,
                       NEW byte \in P!Bytes(frame)
       PROVE  /\ byte \notin ByteRange(heap_start_address, heap_end_address)
              /\ byte \notin ByteRange(cr3, cr3 + PageSize)
              /\ byte \notin ByteRange(TableAddress(0),
                                       TableAddress(TableCount))
    BY DEF BootInv, FramesAreNobodyElses
  <2>1. byte \in Int
    BY DEF P!Bytes
  <2>2. /\ ~(0 <= byte /\ byte < 0 + LowReservedBytes)
        /\ ~(/\ kernel_start <= byte
             /\ byte < kernel_start + (kernel_end - kernel_start))
    BY DEF BootInv, P!PoolIsSafeMemory, P!Holds
  <2>3. /\ LowReservedBytes \in Nat /\ kernel_start \in Nat
        /\ bss_end \in Nat /\ PageSize <= LowReservedBytes
        /\ bss_end <= kernel_end
        /\ kernel_start <= paging_directory_at
        /\ paging_directory_at + PageSize <= bss_end
        /\ kernel_start <= paging_tables_at
        /\ paging_tables_at + TableCount * PageSize <= bss_end
    BY BootConstants, HeapConstants
  <2>4. byte < kernel_start \/ kernel_end <= byte
    BY <2>1, <2>2, <2>3, HeapConstants
  <2>5. byte \notin ByteRange(heap_start_address, heap_end_address)
    <3>1. \/ heap_start_address = 0 /\ heap_end_address = 0
          \/ /\ heap_start_address = kernel_heap_start
             /\ heap_end_address = kernel_heap_end
      BY DEF BootInv, HeapPhase, PanicPhase
    <3>. QED BY <2>1, <2>3, <2>4, <3>1, HeapConstants, PageConstants
             DEF ByteRange
  <2>6. byte \notin ByteRange(cr3, cr3 + PageSize)
    <3>1. cr3 = 0 \/ cr3 = paging_directory_at
      BY DEF BootInv, PagingPhase
    <3>. QED BY <2>1, <2>2, <2>3, <2>4, <3>1, HeapConstants, PageConstants
             DEF ByteRange
  <2>7. byte \notin ByteRange(TableAddress(0), TableAddress(TableCount))
    <3>. DEFINE size == TableCount * PageSize
    <3>1. /\ TableAddress(0) = paging_tables_at
          /\ TableAddress(TableCount) = paging_tables_at + size
          /\ size \in Nat
      BY PageConstants DEF TableAddress
    <3>2. paging_tables_at + size <= bss_end
      BY <2>3
    <3>. HIDE DEF size
    <3>. QED BY <2>1, <2>3, <2>4, <3>1, <3>2, HeapConstants, PageConstants
             DEF ByteRange
  <2>. QED BY <2>5, <2>6, <2>7
<1>. QED BY <1>1, BootInvariant, PTL

(* kernel_main reaches interrupts_initialize only with every memory        *)
(* service ready, and panics only while one of them is not.                *)
THEOREM BootServicesStartOnReadyKernel ==
  BootSpec => []ServicesStartOnReadyKernel
<1>1. BootInv => ServicesStartOnReadyKernel
  <2>. SUFFICES ASSUME BootInv PROVE ServicesStartOnReadyKernel
    OBVIOUS
  <2>1. ASSUME Calling("interrupts_initialize")
        PROVE  /\ memory_initialized /\ ~memory_map_truncated
               /\ pmm_initialized /\ marks.free > 0
               /\ vmm_is_enabled
               /\ vmm_get_identity_mapped_bytes >= kernel_end
               /\ heap_initialized /\ heap_capacity = HeapBytes
    <3>1. position = 8
      BY <2>1, CallPositions DEF BootInv
    <3>2. memory_initialized /\ ~memory_map_truncated
      BY <3>1 DEF BootInv, MapPhase, MapInv, ReadyAtEnd
    <3>3. pmm_initialized /\ marks.free > 0
      BY <3>1 DEF BootInv, PmmPhase
    <3>4. vmm_is_enabled /\ vmm_get_identity_mapped_bytes >= kernel_end
      BY <3>1, BootConstants, HeapConstants DEF BootInv, PagingPhase,
         vmm_is_enabled, vmm_get_identity_mapped_bytes
    <3>5. heap_initialized /\ heap_capacity = HeapBytes
      BY <3>1 DEF BootInv, HeapPhase
    <3>. QED BY <3>2, <3>3, <3>4, <3>5
  <2>2. ASSUME panic # "none"
        PROVE  ~(memory_initialized /\ pmm_initialized /\ vmm_is_enabled)
    <3>1. position = 1 \/ position = 3 \/ position = 4 \/ position = 6
      BY <2>2 DEF BootInv, PanicPhase
    <3>. QED BY <3>1 DEF BootInv, PagingPhase, vmm_is_enabled
  <2>. QED BY <2>1, <2>2 DEF ServicesStartOnReadyKernel
<1>. QED BY <1>1, BootInvariant, PTL

(* Whatever kernel_main touches in a step translates to itself when the    *)
(* step is over: the image, the VGA buffer, and the boot loader's data,    *)
(* which nothing reads any more once paging is on.                         *)
THEOREM BootAccessesAreMapped == BootSpec => AccessesAreMapped
<1>1. BootInv /\ BootInv' /\ (Built => IdentityMapped)'
        /\ [BootNext]_bootVars =>
        [\A byte \in ByteRange(kernel_start, kernel_end) \cup VideoBytes
                     \cup BootDataRead :
           Translate(byte)' = byte]_bootVars
  <2>. SUFFICES ASSUME BootInv, BootInv', (Built => IdentityMapped)',
                       BootNext,
                       NEW byte \in ByteRange(kernel_start, kernel_end)
                                    \cup VideoBytes \cup BootDataRead
                PROVE  Translate(byte)' = byte
    OBVIOUS
  <2>1. CASE ~cr0_paging'
    BY <2>1 DEF Translate
  <2>2. CASE cr0_paging'
    <3>1. IdentityMapped' /\ position' > 6
      BY <2>2 DEF BootInv, PagingPhase, PanicPhase
    <3>2. position \in {6, 7} /\ UNCHANGED vars
      <4>1. ASSUME NEW matches \in BOOLEAN, CheckMultiboot(matches)
            PROVE  position' \in {1, 2}
        BY <4>1, CallPositions DEF BootInv, CheckMultiboot, kernel_require
      <4>2. CASE CannotFail
        BY <3>1, <4>2, CallPositions DEF BootInv, CannotFail
      <4>3. CASE InitializeMemory
        BY <3>1, <4>3, CallPositions DEF BootInv, InitializeMemory,
                                         kernel_require, mainVars
      <4>4. CASE InitializePmm
        BY <3>1, <4>4, CallPositions DEF BootInv, InitializePmm,
                                         kernel_require
      <4>5. ASSUME NEW works \in BOOLEAN, vmm_initialize(works)
            PROVE  position = 6 /\ UNCHANGED vars
        BY <4>5, CallPositions DEF BootInv, vmm_initialize
      <4>6. CASE heap_initialize
        BY <4>6, CallPositions DEF BootInv, heap_initialize
      <4>. QED BY <3>1, <4>1, <4>2, <4>3, <4>4, <4>5, <4>6 DEF BootNext
    <3>3. BootDataRead = {}
      <4>1. ~Calling("pmm_initialize") /\ ~Calling("memory_initialize")
        BY <3>2, CallPositions DEF BootInv
      <4>2. dereferenced' = dereferenced
        BY <3>2 DEF vars, cursorVars
      <4>. QED BY <4>1, <4>2 DEF BootDataRead
    <3>4. byte \in 0 .. IdentityMappedBytes - 1
      BY <3>3, BootConstants, HeapConstants DEF ByteRange
    <3>. QED BY <3>1, <3>4 DEF IdentityMapped
  <2>. QED BY <2>1, <2>2
<1>. QED BY <1>1, BootInvariant, BuiltIsIdentity, PTL
         DEF BootSpec, AccessesAreMapped
=============================================================================
