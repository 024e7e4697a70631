-------------------------------- MODULE Pmm --------------------------------
(***************************************************************************)
(* The bitmap physical memory manager, src/mm/pmm.c.                       *)
(*                                                                         *)
(* The two bitmaps are the sets of the frame indices whose bit is 1; the   *)
(* word/bit split of an index is left out.  The range loops of             *)
(* initialisation become one set operation each, with the counters moving  *)
(* by the number of bits that really change, as the per-frame early        *)
(* returns make them do.  Nothing in interrupt context calls the manager,  *)
(* so every call is one step.                                              *)
(***************************************************************************)
EXTENDS Integers, FiniteSets, Sequences

CONSTANTS
  FrameSize,          \* PMM_FRAME_SIZE
  MaxFrames,          \* PMM_MAX_FRAMES
  U64Max,             \* UINT64_MAX
  LowReservedBytes,   \* PMM_LOW_MEMORY_RESERVED_BYTES
  KernelStart,        \* &_kernel_start
  KernelEnd,          \* &_kernel_end
  BitmapStart,        \* pmm_bitmap
  AllocBitmapStart,   \* pmm_allocated_bitmap
  BitmapBytes,        \* sizeof(pmm_bitmap) = sizeof(pmm_allocated_bitmap)
  InfoBytes,          \* sizeof(multiboot_info_t)
  BootInfos           \* what the bootloader and memory.c may hand over

(* A region of the normalized memory map (memory_region_t).                *)
Region == [base : Nat, length : Nat \ {0}, usable : BOOLEAN]

(* One hand-over: the state of memory.c, the address of the Multiboot      *)
(* information and the map buffer it names (mmap_length = 0: no map).      *)
BootInfo == [ready : BOOLEAN, regions : Seq(Region), info_address : Nat,
             mmap_addr : Nat, mmap_length : Nat]

ASSUME PmmConstants ==
  /\ FrameSize \in Nat \ {0}
  /\ MaxFrames \in Nat \ {0}
  /\ U64Max \in Nat
  /\ MaxFrames * FrameSize <= U64Max
  /\ {LowReservedBytes, KernelStart, KernelEnd, BitmapStart,
      AllocBitmapStart, BitmapBytes, InfoBytes} \subseteq Nat

ASSUME BootInfosAssumption == BootInfos \subseteq BootInfo

VARIABLES
  boot,                    \* the hand-over this boot got (never changes)
  status,                  \* what pmm_initialize returned; "uncalled" before
  pmm_initialized,
  pmm_total_frames,
  marks,                   \* pmm_bitmap, pmm_free_frames, pmm_used_frames
  pmm_allocated_bitmap,
  pmm_next_search_frame,
  answer                   \* what the last call returned

vars == <<boot, status, pmm_initialized, pmm_total_frames, marks,
          pmm_allocated_bitmap, pmm_next_search_frame, answer>>

NoFrame == MaxFrames       \* no index reaches it

Tracked == 0 .. pmm_total_frames - 1

Answer(op, ok, frame) == [op |-> op, ok |-> ok, frame |-> frame]

-----------------------------------------------------------------------------
(* Address arithmetic (64 bit, saturating at UINT64_MAX).                  *)

pmm_align_down(value) == (value \div FrameSize) * FrameSize

pmm_align_up(value) ==
  IF value % FrameSize = 0 THEN value
  ELSE IF value > U64Max - (FrameSize - 1) THEN pmm_align_down(U64Max)
  ELSE pmm_align_down(value + FrameSize - 1)

pmm_range_end(base, length) ==
  IF base > U64Max - length THEN U64Max ELSE base + length

(* The frames a usable range frees: only those it covers completely.       *)
FramesInside(base, length, total) ==
  {f \in 0 .. total - 1 :
     /\ pmm_align_up(base) \div FrameSize <= f
     /\ f < pmm_align_down(pmm_range_end(base, length)) \div FrameSize}

(* Mutation: the partial last frame of a reserved range is left out.       *)
FramesTouchedRoundsDown(base, length, total) ==
  {f \in 0 .. total - 1 :
     /\ pmm_align_down(base) \div FrameSize <= f
     /\ f < pmm_align_down(pmm_range_end(base, length)) \div FrameSize}

(* The frames a reserved range takes: all those it touches.                *)
FramesTouched(base, length, total) ==
  {f \in 0 .. total - 1 :
     /\ pmm_align_down(base) \div FrameSize <= f
     /\ f < pmm_align_up(pmm_range_end(base, length)) \div FrameSize}

-----------------------------------------------------------------------------
(* Marking.  m = [bitmap, free, used]; decrements stop at zero.            *)

Decrease(counter, n) == IF counter >= n THEN counter - n ELSE 0

(* Mutation: counts frames that were marked already.                       *)
MarkUsedCountsAll(m, frames) ==
  [bitmap |-> m.bitmap \cup frames,
   free   |-> Decrease(m.free, Cardinality(frames)),
   used   |-> m.used + Cardinality(frames)]

pmm_mark_frame_used(m, frames) ==
  LET changed == frames \ m.bitmap
  IN  [bitmap |-> m.bitmap \cup frames,
       free   |-> Decrease(m.free, Cardinality(changed)),
       used   |-> m.used + Cardinality(changed)]

pmm_mark_frame_free(m, frames) ==
  LET changed == frames \cap m.bitmap
  IN  [bitmap |-> m.bitmap \ frames,
       free   |-> m.free + Cardinality(changed),
       used   |-> Decrease(m.used, Cardinality(changed))]

-----------------------------------------------------------------------------
(* Initialisation.                                                         *)

(* Mutation: the limit of the bitmap is not applied.                       *)
TotalFramesUnlimited(b) ==
  LET ends == {pmm_range_end(b.regions[i].base, b.regions[i].length) :
                 i \in DOMAIN b.regions}
      highest == CHOOSE h \in ends \cup {0} : \A e \in ends : e <= h
  IN  pmm_align_up(highest) \div FrameSize

(* pmm_align_up(min(highest end of any region, 4 GiB)) / frame size.       *)
TotalFrames(b) ==
  LET ends == {pmm_range_end(b.regions[i].base, b.regions[i].length) :
                 i \in DOMAIN b.regions}
      limit == MaxFrames * FrameSize
      highest == CHOOSE h \in ends \cup {0} : \A e \in ends : e <= h
  IN  pmm_align_up(IF highest > limit THEN limit ELSE highest) \div FrameSize

pmm_release_usable_memory_regions(b, total) ==
  UNION {FramesInside(b.regions[i].base, b.regions[i].length, total) :
           i \in {j \in DOMAIN b.regions : b.regions[j].usable}}

(* The ranges reserved after the release, in the order of the code: low    *)
(* memory, the kernel image, both bitmaps, the Multiboot structures.       *)
ReservedRanges(b) ==
  {<<0, LowReservedBytes>>,
   <<BitmapStart, BitmapBytes>>,
   <<AllocBitmapStart, BitmapBytes>>,
   <<b.info_address, InfoBytes>>}
  \cup (IF KernelEnd > KernelStart
        THEN {<<KernelStart, KernelEnd - KernelStart>>} ELSE {})
  \cup (IF b.mmap_addr # 0 /\ b.mmap_length > 0
        THEN {<<b.mmap_addr, b.mmap_length>>} ELSE {})

ReservedFrames(b, total) ==
  UNION {FramesTouched(r[1], r[2], total) : r \in ReservedRanges(b)}

(* Bitmap all ones, every tracked frame counted as used; then release,     *)
(* then reserve.                                                           *)
InitialMarks(b, total) ==
  LET reset == [bitmap |-> 0 .. MaxFrames - 1, free |-> 0, used |-> total]
      released == pmm_mark_frame_free(reset,
                    pmm_release_usable_memory_regions(b, total))
  IN  pmm_mark_frame_used(released, ReservedFrames(b, total))

(* kernel_main calls pmm_initialize once.  It clears the counters first;   *)
(* each early return then leaves the state as far as the code had got.     *)
pmm_initialize ==
  LET cleared(bitmap) == [bitmap |-> bitmap, free |-> 0, used |-> 0]
  IN  /\ status = "uncalled"
      /\ pmm_next_search_frame' = 0
      /\ \/ /\ boot.info_address = 0
            /\ status' = "INVALID_ARGUMENT"
            /\ pmm_total_frames' = 0
            /\ marks' = cleared(marks.bitmap)
            /\ UNCHANGED pmm_allocated_bitmap
         \/ /\ boot.info_address # 0
            /\ ~boot.ready
            /\ status' = "NOT_READY"
            /\ pmm_total_frames' = 0
            /\ marks' = cleared(marks.bitmap)
            /\ UNCHANGED pmm_allocated_bitmap
         \/ /\ boot.info_address # 0
            /\ boot.ready
            /\ pmm_total_frames' = TotalFrames(boot)
            /\ pmm_allocated_bitmap' = {}
            /\ IF pmm_total_frames' = 0
               THEN /\ status' = "UNAVAILABLE"
                    /\ marks' = cleared(0 .. MaxFrames - 1)
               ELSE /\ marks' = InitialMarks(boot, pmm_total_frames')
                    /\ status' =
                         IF marks'.free = 0 THEN "OUT_OF_MEMORY" ELSE "OK"
      /\ pmm_initialized' = (status' = "OK")
      /\ answer' = Answer("initialize", status' = "OK", NoFrame)
      /\ UNCHANGED boot

-----------------------------------------------------------------------------
(* Allocation.                                                             *)

(* The frame one search loop over lo .. hi-1 stops at, if there is one.    *)
FirstUnused(lo, hi) ==
  {f \in lo .. hi - 1 :
     f \notin marks.bitmap /\ \A g \in lo .. f - 1 : g \in marks.bitmap}

(* From the search position to the end, then from 0 to the position.       *)
FoundFrame ==
  LET forward == FirstUnused(pmm_next_search_frame, pmm_total_frames)
  IN  IF ~pmm_initialized THEN {}
      ELSE IF forward # {} THEN forward
      ELSE FirstUnused(0, pmm_next_search_frame)

pmm_allocate_frame ==
  \/ /\ \E frame \in FoundFrame :
          /\ marks' = pmm_mark_frame_used(marks, {frame})
          /\ pmm_allocated_bitmap' = pmm_allocated_bitmap \cup {frame}
          /\ pmm_next_search_frame' = frame + 1
          /\ answer' = Answer("allocate", TRUE, frame)
     /\ UNCHANGED <<boot, status, pmm_initialized, pmm_total_frames>>
  \/ /\ FoundFrame = {}
     /\ answer' = Answer("allocate", FALSE, NoFrame)
     /\ UNCHANGED <<boot, status, pmm_initialized, pmm_total_frames, marks,
                    pmm_allocated_bitmap, pmm_next_search_frame>>

(* Mutation: frees whatever is marked used.                                *)
FreeAcceptsReserved(physical_address) ==
  /\ pmm_initialized
  /\ physical_address % FrameSize = 0
  /\ physical_address \div FrameSize < pmm_total_frames
  /\ physical_address \div FrameSize \in marks.bitmap

(* Is the address one that pmm_free_frame accepts?                         *)
FreeAccepted(physical_address) ==
  /\ pmm_initialized
  /\ physical_address % FrameSize = 0
  /\ physical_address \div FrameSize < pmm_total_frames
  /\ physical_address \div FrameSize \in pmm_allocated_bitmap

(* Mutation: the ownership bit survives the free.                          *)
FreeKeepsOwnership(physical_address) ==
  /\ FreeAccepted(physical_address)
  /\ marks' = pmm_mark_frame_free(marks, {physical_address \div FrameSize})
  /\ answer' = Answer("free", TRUE, physical_address \div FrameSize)
  /\ UNCHANGED <<boot, status, pmm_initialized, pmm_total_frames,
                 pmm_allocated_bitmap, pmm_next_search_frame>>

(* Mutation: the search position stays where it was.                       *)
FreeKeepsSearchPosition(physical_address) ==
  /\ FreeAccepted(physical_address)
  /\ pmm_allocated_bitmap' =
       pmm_allocated_bitmap \ {physical_address \div FrameSize}
  /\ marks' = pmm_mark_frame_free(marks, {physical_address \div FrameSize})
  /\ answer' = Answer("free", TRUE, physical_address \div FrameSize)
  /\ UNCHANGED <<boot, status, pmm_initialized, pmm_total_frames,
                 pmm_next_search_frame>>

pmm_free_frame(physical_address) ==
  LET frame == physical_address \div FrameSize
  IN  \/ /\ FreeAccepted(physical_address)
         /\ pmm_allocated_bitmap' = pmm_allocated_bitmap \ {frame}
         /\ marks' = pmm_mark_frame_free(marks, {frame})
         /\ pmm_next_search_frame' = IF frame < pmm_next_search_frame
                                     THEN frame ELSE pmm_next_search_frame
         /\ answer' = Answer("free", TRUE, frame)
         /\ UNCHANGED <<boot, status, pmm_initialized, pmm_total_frames>>
      \/ /\ ~FreeAccepted(physical_address)
         /\ answer' = Answer("free", FALSE, NoFrame)
         /\ UNCHANGED <<boot, status, pmm_initialized, pmm_total_frames,
                        marks, pmm_allocated_bitmap, pmm_next_search_frame>>

-----------------------------------------------------------------------------
(* The shell's pmm_test command: allocate, look, free, look again.  A      *)
(* failed look returns at once and leaves the frame allocated.             *)

LooksTaken(before, taken, frame) ==
  /\ frame \in taken.bitmap
  /\ taken.free = before.free - 1
  /\ taken.used = before.used + 1

pmm_run_basic_self_test ==
  \/ /\ \E frame \in FoundFrame :
          LET taken == pmm_mark_frame_used(marks, {frame})
              back  == pmm_mark_frame_free(taken, {frame})
          IN  IF LooksTaken(marks, taken, frame)
              THEN /\ marks' = back
                   /\ pmm_allocated_bitmap' = pmm_allocated_bitmap \ {frame}
                   /\ pmm_next_search_frame' = frame
                   /\ answer' = Answer("self_test",
                                  /\ back.free = marks.free
                                  /\ back.used = marks.used, NoFrame)
              ELSE /\ marks' = taken
                   /\ pmm_allocated_bitmap' = pmm_allocated_bitmap \cup {frame}
                   /\ pmm_next_search_frame' = frame + 1
                   /\ answer' = Answer("self_test", FALSE, NoFrame)
     /\ UNCHANGED <<boot, status, pmm_initialized, pmm_total_frames>>
  \/ /\ FoundFrame = {}
     /\ answer' = Answer("self_test", FALSE, NoFrame)
     /\ UNCHANGED <<boot, status, pmm_initialized, pmm_total_frames, marks,
                    pmm_allocated_bitmap, pmm_next_search_frame>>

-----------------------------------------------------------------------------
(* Before pmm_initialize the static variables hold their initialisers.     *)
Init ==
  /\ boot \in BootInfos
  /\ status = "uncalled"
  /\ pmm_initialized = FALSE
  /\ pmm_total_frames = 0
  /\ marks = [bitmap |-> {}, free |-> 0, used |-> 0]
  /\ pmm_allocated_bitmap = {}
  /\ pmm_next_search_frame = 0
  /\ answer = Answer("none", FALSE, NoFrame)

(* Any 32-bit address may be passed to pmm_free_frame.                     *)
Addresses == 0 .. MaxFrames * FrameSize - 1

Next ==
  \/ pmm_initialize
  \/ pmm_allocate_frame
  \/ \E physical_address \in Addresses : pmm_free_frame(physical_address)
  \/ pmm_run_basic_self_test

Spec == Init /\ [][Next]_vars
-----------------------------------------------------------------------------
(* Properties.                                                             *)

Statuses == {"uncalled", "INVALID_ARGUMENT", "NOT_READY", "UNAVAILABLE",
             "OUT_OF_MEMORY", "OK"}

Marks == [bitmap : SUBSET (0 .. MaxFrames - 1), free : Nat, used : Nat]

(* Type invariant; also: the manager answers calls only after a successful *)
(* pmm_initialize, and never tracks more frames than the bitmap has bits.  *)
TypeOK ==
  /\ boot \in BootInfos
  /\ status \in Statuses
  /\ pmm_initialized \in BOOLEAN /\ (pmm_initialized <=> status = "OK")
  /\ pmm_total_frames \in 0 .. MaxFrames
  /\ marks \in Marks
  /\ pmm_allocated_bitmap \subseteq 0 .. MaxFrames - 1
  /\ pmm_next_search_frame \in 0 .. MaxFrames
  /\ answer.frame \in 0 .. MaxFrames

(* The free and used counters, which pmm_print_summary shows and the       *)
(* self-test compares, always agree with the bitmap, although they are     *)
(* kept by increments and by decrements that silently stop at zero, and    *)
(* although ranges of the memory map and reservations overlap.             *)
CountersMatchBitmap ==
  /\ marks.free = Cardinality(Tracked \ marks.bitmap)
  /\ marks.used = Cardinality(Tracked \cap marks.bitmap)

(* A frame that a caller owns is never free in the usage bitmap, whatever  *)
(* the order of allocations, frees, refused frees and self-tests: the two  *)
(* bitmaps cannot drift apart.  Nothing is owned before initialisation.    *)
AllocatedIsMarkedUsed ==
  /\ pmm_allocated_bitmap \subseteq (Tracked \cap marks.bitmap)
  /\ ~pmm_initialized => pmm_allocated_bitmap = {}

(* No frame below the search position is free.  So the first search loop   *)
(* of pmm_allocate_frame finds the lowest free frame, and the second loop  *)
(* never finds one.                                                        *)
NoFreeFrameBelowSearch ==
  /\ 0 .. pmm_next_search_frame - 1 \subseteq marks.bitmap
  /\ pmm_next_search_frame <= pmm_total_frames

(* The inductive invariant of the proofs.                                  *)
IInv ==
  /\ TypeOK
  /\ CountersMatchBitmap
  /\ AllocatedIsMarkedUsed
  /\ NoFreeFrameBelowSearch

Bytes(frame) == frame * FrameSize .. frame * FrameSize + FrameSize - 1

Holds(base, length, byte) == base <= byte /\ byte < base + length

(* Frames the manager may hand out or has handed out.                      *)
Pool == IF pmm_initialized
        THEN (Tracked \ marks.bitmap) \cup pmm_allocated_bitmap ELSE {}

(* Every BYTE of every frame that is free or owned by a caller lies in a   *)
(* usable region of the memory map and outside low memory, the kernel      *)
(* image (the heap is part of it), both bitmaps, the Multiboot information *)
(* and the map it points to: the rounding of unaligned and saturated       *)
(* ranges never lets a caller overwrite any of them.                       *)
PoolIsSafeMemory ==
  \A frame \in Pool : \A byte \in Bytes(frame) :
    /\ \E i \in DOMAIN boot.regions :
         /\ boot.regions[i].usable
         /\ Holds(boot.regions[i].base, boot.regions[i].length, byte)
    /\ ~Holds(0, LowReservedBytes, byte)
    /\ ~Holds(KernelStart, KernelEnd - KernelStart, byte)
    /\ ~Holds(BitmapStart, BitmapBytes, byte)
    /\ ~Holds(AllocBitmapStart, BitmapBytes, byte)
    /\ ~Holds(boot.info_address, InfoBytes, byte)
    /\ boot.mmap_addr # 0 => ~Holds(boot.mmap_addr, boot.mmap_length, byte)

(* The pool is fixed by pmm_initialize: no later call adds a frame to it   *)
(* or loses one, so what was safe at boot stays safe, and no frame leaks.  *)
PoolNeverChanges == [][pmm_initialized => Pool' = Pool]_vars

(* The bitmaps, the counters and the search position implement the simple  *)
(* promise of FrameAllocator: the lowest free frame, failure only when     *)
(* none is left, frees of owned frames only, a self-test that passes       *)
(* exactly when a frame is free and leaves no trace.                       *)
FA == INSTANCE FrameAllocator WITH
        up    <- pmm_initialized,
        free  <- IF pmm_initialized THEN Tracked \ marks.bitmap ELSE {},
        owned <- pmm_allocated_bitmap

RefinesFrameAllocator == FA!FASpec
=============================================================================
