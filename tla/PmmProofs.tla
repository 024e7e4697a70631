----------------------------- MODULE PmmProofs -----------------------------
(***************************************************************************)
(* Theorems about Pmm, for every frame size, bitmap size, memory layout    *)
(* and memory map: the inductive invariant, the byte-level safety of the   *)
(* pool, and the refinement of FrameAllocator.                             *)
(***************************************************************************)
EXTENDS Pmm, TLAPS, FiniteSetTheorems, WellFoundedInduction

-----------------------------------------------------------------------------
(* Arithmetic.                                                             *)

(* Division with remainder, the form the provers use below.                *)
LEMMA DivMod ==
  ASSUME NEW a \in Nat, NEW b \in Nat \ {0}
  PROVE  /\ a \div b \in Nat
         /\ a % b \in 0 .. b - 1
         /\ a = b * (a \div b) + (a % b)
BY Z3

(* A quotient lies below every multiple that bounds the dividend.          *)
LEMMA DivAtMost ==
  ASSUME NEW a \in Nat, NEW b \in Nat \ {0}, NEW m \in Nat, a <= m * b
  PROVE  a \div b <= m
<1>1. a = b * (a \div b) + (a % b) /\ (a % b) >= 0 /\ a \div b \in Nat
  BY DivMod
<1>2. b * (a \div b) <= m * b
  BY <1>1
<1>. QED BY <1>1, <1>2, Z3

(* ... and at or above every multiple the dividend reaches.                *)
LEMMA DivAtLeast ==
  ASSUME NEW a \in Nat, NEW b \in Nat \ {0}, NEW m \in Nat, m * b <= a
  PROVE  m <= a \div b
<1>1. /\ a = b * (a \div b) + (a % b)
      /\ a % b \in 0 .. b - 1
      /\ a \div b \in Nat
  BY DivMod
<1>2. m * b < b * (a \div b) + b
  BY <1>1
<1>. QED BY <1>1, <1>2, Z3

(* A dividend below a multiple has a smaller quotient.                     *)
LEMMA DivBelow ==
  ASSUME NEW a \in Nat, NEW b \in Nat \ {0}, NEW m \in Nat, a < m * b
  PROVE  a \div b < m
<1>1. a = b * (a \div b) + (a % b) /\ (a % b) >= 0 /\ a \div b \in Nat
  BY DivMod
<1>2. b * (a \div b) < m * b
  BY <1>1
<1>. QED BY <1>1, <1>2, Z3

(* Rounding an unaligned value up reaches the next quotient.               *)
LEMMA DivUp ==
  ASSUME NEW a \in Nat, NEW b \in Nat \ {0}, a % b # 0
  PROVE  (a + b - 1) \div b = (a \div b) + 1
<1>1. /\ a = b * (a \div b) + (a % b)
      /\ a % b \in 0 .. b - 1
      /\ a \div b \in Nat
  BY DivMod
<1>2. /\ a + b - 1 = b * ((a + b - 1) \div b) + ((a + b - 1) % b)
      /\ (a + b - 1) % b \in 0 .. b - 1
  BY DivMod
<1>. QED BY <1>1, <1>2, Z3

(* Dividing a multiple is exact.                                           *)
LEMMA DivExact ==
  ASSUME NEW k \in Nat, NEW b \in Nat \ {0}
  PROVE  (k * b) \div b = k
<1>1. k * b \in Nat
  OBVIOUS
<1>2. (k * b) \div b \in Nat /\ (k * b) \div b <= k /\ k <= (k * b) \div b
  BY <1>1, DivMod, DivAtMost, DivAtLeast
<1>. QED BY <1>2

(* A nonempty set of naturals has a least element.                         *)
LEMMA Smallest ==
  ASSUME NEW S \in SUBSET Nat, S # {}
  PROVE  \E m \in S : \A s \in S : m <= s
<1>. DEFINE R == {ss \in Nat \X Nat : ss[1] < ss[2]}
<1>1. IsWellFoundedOn(R, Nat)
  BY NatLessThanWellFounded, Zenon DEF OpToRel
<1>. HIDE DEF R
<1>2. PICK x \in S : \A y \in S : ~ (<<y, x>> \in R)
  BY WFMin, <1>1, Zenon
<1>3. \A y \in S : ~(y < x)
  BY <1>2 DEF R
<1>. QED BY <1>3

(* A nonempty bounded set of naturals has a largest element.               *)
LEMMA Largest ==
  ASSUME NEW S \in SUBSET Nat, S # {}, NEW b \in Nat, \A s \in S : s <= b
  PROVE  \E m \in S : \A s \in S : s <= m
<1>. DEFINE T == {t \in Nat : b - t \in S}
<1>1. T # {}
  <2>1. PICK s \in S : TRUE
    OBVIOUS
  <2>2. b - s \in Nat /\ b - (b - s) = s
    BY <2>1
  <2>. QED BY <2>1, <2>2
<1>2. T \in SUBSET Nat
  OBVIOUS
<1>. HIDE DEF T
<1>3. PICK x \in T : \A y \in T : x <= y
  BY Smallest, <1>1, <1>2, Zenon
<1>4. ASSUME NEW s \in S PROVE s <= b - x
  <2>1. b - s \in T
    BY DEF T
  <2>. QED BY <2>1, <1>2, <1>3
<1>5. b - x \in S
  BY <1>3 DEF T
<1>. QED BY <1>4, <1>5

-----------------------------------------------------------------------------
(* Addresses and frames.                                                   *)

(* Frame number of a rounded-down address.                                 *)
LEMMA AlignDownFrame ==
  ASSUME NEW value \in Nat
  PROVE  /\ pmm_align_down(value) \in Nat
         /\ pmm_align_down(value) \div FrameSize = value \div FrameSize
<1>1. FrameSize \in Nat \ {0} /\ value \div FrameSize \in Nat
  BY PmmConstants, DivMod
<1>2. (value \div FrameSize) * FrameSize \in Nat
  BY <1>1
<1>. QED BY <1>1, <1>2, DivExact DEF pmm_align_down

(* No frame the bitmap can describe starts after the last 64-bit address.  *)
LEMMA LimitIsAddressable == MaxFrames <= U64Max \div FrameSize
BY PmmConstants, DivAtLeast

(* Frame number of a rounded-up address: exact, saturated or next.         *)
LEMMA AlignUpFrame ==
  ASSUME NEW value \in Nat
  PROVE  /\ pmm_align_up(value) \in Nat
         /\ \/ /\ value % FrameSize = 0
               /\ pmm_align_up(value) \div FrameSize = value \div FrameSize
            \/ pmm_align_up(value) \div FrameSize = U64Max \div FrameSize
            \/ /\ value % FrameSize # 0
               /\ pmm_align_up(value) \div FrameSize
                    = (value \div FrameSize) + 1
<1>1. FrameSize \in Nat \ {0} /\ U64Max \in Nat
  BY PmmConstants
<1>2. CASE value % FrameSize = 0
  BY <1>2 DEF pmm_align_up
<1>3. CASE value % FrameSize # 0 /\ value > U64Max - (FrameSize - 1)
  BY <1>1, <1>3, AlignDownFrame DEF pmm_align_up
<1>4. CASE value % FrameSize # 0 /\ ~(value > U64Max - (FrameSize - 1))
  <2>1. value + FrameSize - 1 \in Nat
    BY <1>1
  <2>2. pmm_align_up(value) = pmm_align_down(value + FrameSize - 1)
    BY <1>4 DEF pmm_align_up
  <2>3. (value + FrameSize - 1) \div FrameSize = (value \div FrameSize) + 1
    BY <1>1, <1>4, DivUp
  <2>. QED BY <1>4, <2>1, <2>2, <2>3, AlignDownFrame
<1>. QED BY <1>2, <1>3, <1>4

(* The end of a range never passes the real end nor the last address.      *)
LEMMA RangeEnd ==
  ASSUME NEW base \in Nat, NEW length \in Nat
  PROVE  /\ pmm_range_end(base, length) \in Nat
         /\ pmm_range_end(base, length) <= U64Max
         /\ pmm_range_end(base, length) <= base + length
         /\ \/ pmm_range_end(base, length) = U64Max
            \/ pmm_range_end(base, length) = base + length
BY PmmConstants DEF pmm_range_end

(* What a region of the hand-over looks like.                              *)
LEMMA RegionType ==
  ASSUME NEW b \in BootInfo, NEW i \in DOMAIN b.regions
  PROVE  /\ b.regions[i].base \in Nat
         /\ b.regions[i].length \in Nat
         /\ b.regions[i].usable \in BOOLEAN
<1>1. b.regions \in Seq(Region)
  BY DEF BootInfo
<1>2. b.regions[i] \in Region
  BY <1>1
<1>. QED BY <1>2 DEF Region

(* The number of tracked frames never exceeds the bits of the bitmap.      *)
LEMMA TotalFramesType ==
  ASSUME NEW b \in BootInfo
  PROVE  TotalFrames(b) \in 0 .. MaxFrames
<1>. DEFINE ends == {pmm_range_end(b.regions[i].base, b.regions[i].length) :
                       i \in DOMAIN b.regions}
            limit == MaxFrames * FrameSize
            highest == CHOOSE h \in ends \cup {0} : \A e \in ends : e <= h
            top == IF highest > limit THEN limit ELSE highest
<1>1. /\ FrameSize \in Nat \ {0} /\ MaxFrames \in Nat \ {0} /\ U64Max \in Nat
      /\ limit \in Nat /\ limit <= U64Max
  BY PmmConstants
<1>2. ends \subseteq 0 .. U64Max
  <2>1. ASSUME NEW i \in DOMAIN b.regions
        PROVE  pmm_range_end(b.regions[i].base, b.regions[i].length)
                 \in 0 .. U64Max
    <3>1. b.regions[i].base \in Nat /\ b.regions[i].length \in Nat
      BY RegionType
    <3>2. /\ pmm_range_end(b.regions[i].base, b.regions[i].length) \in Nat
          /\ pmm_range_end(b.regions[i].base, b.regions[i].length) <= U64Max
      BY <3>1, RangeEnd, Zenon
    <3>. QED BY <1>1, <3>2
  <2>. QED BY <2>1
<1>3. highest \in Nat
  <2>1. /\ ends \cup {0} \in SUBSET Nat
        /\ ends \cup {0} # {}
        /\ \A e \in ends \cup {0} : e <= U64Max
    BY <1>1, <1>2
  <2>. HIDE DEF ends
  <2>2. \E h \in ends \cup {0} : \A e \in ends \cup {0} : e <= h
    BY <1>1, <2>1, Largest
  <2>3. \E h \in ends \cup {0} : \A e \in ends : e <= h
    BY <2>2
  <2>4. highest \in ends \cup {0}
    BY <2>3
  <2>. QED BY <2>1, <2>4
<1>. HIDE DEF highest
<1>4. top \in Nat /\ top <= MaxFrames * FrameSize
  BY <1>1, <1>3
<1>. HIDE DEF top
<1>5. top \div FrameSize \in Nat /\ top \div FrameSize <= MaxFrames
  BY <1>1, <1>4, DivMod, DivAtMost
<1>6. pmm_align_up(top) \div FrameSize \in 0 .. MaxFrames
  <2>1. pmm_align_up(top) \div FrameSize \in Nat
    BY <1>1, <1>4, AlignUpFrame, DivMod
  <2>2. CASE top % FrameSize = 0
    <3>1. pmm_align_up(top) = top
      BY <2>2 DEF pmm_align_up
    <3>. QED BY <1>1, <1>5, <3>1
  <2>3. CASE top % FrameSize # 0
    <3>1. top # MaxFrames * FrameSize
      <4>1. (MaxFrames * FrameSize) % FrameSize = 0
        BY <1>1, DivMod, DivExact, Z3
      <4>. QED BY <2>3, <4>1
    <3>2. top < MaxFrames * FrameSize
      BY <1>1, <1>4, <3>1
    <3>3. top \div FrameSize < MaxFrames
      BY <1>1, <1>4, <3>2, DivBelow
    <3>4. CASE top > U64Max - (FrameSize - 1)
      <4>1. pmm_align_up(top) \div FrameSize = U64Max \div FrameSize
        BY <1>1, <2>3, <3>4, AlignDownFrame DEF pmm_align_up
      <4>2. U64Max < MaxFrames * FrameSize + FrameSize
        BY <1>1, <1>4, <3>2, <3>4
      <4>3. MaxFrames * FrameSize + FrameSize = (MaxFrames + 1) * FrameSize
        BY <1>1, Z3
      <4>4. U64Max \div FrameSize < MaxFrames + 1
        BY <1>1, <4>2, <4>3, DivBelow
      <4>. QED BY <1>1, <2>1, <4>1, <4>4
    <3>5. CASE ~(top > U64Max - (FrameSize - 1))
      <4>1. top + FrameSize - 1 \in Nat
        BY <1>1, <1>4
      <4>2. pmm_align_up(top) = pmm_align_down(top + FrameSize - 1)
        BY <2>3, <3>5 DEF pmm_align_up
      <4>3. (top + FrameSize - 1) \div FrameSize = (top \div FrameSize) + 1
        BY <1>1, <1>4, <2>3, DivUp
      <4>4. pmm_align_up(top) \div FrameSize = (top \div FrameSize) + 1
        BY <4>1, <4>2, <4>3, AlignDownFrame
      <4>. QED BY <1>1, <1>5, <2>1, <3>3, <4>4
    <3>. QED BY <3>4, <3>5
  <2>. QED BY <2>2, <2>3
<1>. QED BY <1>6 DEF TotalFrames, top, highest

(* A frame that a usable range frees lies in that range, byte by byte.     *)
LEMMA InsideBytes ==
  ASSUME NEW base \in Nat, NEW length \in Nat, NEW total \in 0 .. MaxFrames,
         NEW frame \in FramesInside(base, length, total),
         NEW byte \in Bytes(frame)
  PROVE  Holds(base, length, byte)
<1>. DEFINE stop == pmm_range_end(base, length)
<1>1. /\ FrameSize \in Nat \ {0} /\ MaxFrames \in Nat /\ U64Max \in Nat
      /\ stop \in Nat /\ stop <= base + length
  BY PmmConstants, RangeEnd
<1>2. /\ frame \in Nat /\ frame < MaxFrames
      /\ pmm_align_up(base) \div FrameSize <= frame
      /\ frame < pmm_align_down(stop) \div FrameSize
  BY <1>1 DEF FramesInside
<1>. HIDE DEF stop
<1>3. /\ byte \in Nat
      /\ frame * FrameSize <= byte /\ byte < frame * FrameSize + FrameSize
  BY <1>1, <1>2 DEF Bytes
<1>4. base <= frame * FrameSize
  <2>1. /\ base \div FrameSize \in Nat
        /\ base = FrameSize * (base \div FrameSize) + (base % FrameSize)
        /\ base % FrameSize \in 0 .. FrameSize - 1
    BY <1>1, DivMod
  <2>2. \/ base % FrameSize = 0 /\ base \div FrameSize <= frame
        \/ (base \div FrameSize) + 1 <= frame
    BY <1>1, <1>2, <2>1, AlignUpFrame, LimitIsAddressable
  <2>. QED BY <1>1, <1>2, <2>1, <2>2, Z3
<1>5. frame * FrameSize + FrameSize <= stop
  <2>1. /\ stop \div FrameSize \in Nat
        /\ stop = FrameSize * (stop \div FrameSize) + (stop % FrameSize)
        /\ stop % FrameSize \in 0 .. FrameSize - 1
    BY <1>1, DivMod
  <2>2. frame + 1 <= stop \div FrameSize
    BY <1>1, <1>2, <2>1, AlignDownFrame
  <2>. QED BY <1>1, <1>2, <2>1, <2>2, Z3
<1>6. base <= byte /\ byte < base + length
  BY <1>1, <1>3, <1>4, <1>5, <1>2
<1>. QED BY <1>6 DEF Holds

(* A frame with a byte in a reserved range is one that the range takes.    *)
LEMMA TouchedBytes ==
  ASSUME NEW base \in Nat, NEW length \in Nat, NEW total \in 0 .. MaxFrames,
         NEW frame \in 0 .. total - 1,
         NEW byte \in Bytes(frame),
         Holds(base, length, byte)
  PROVE  frame \in FramesTouched(base, length, total)
<1>. DEFINE stop == pmm_range_end(base, length)
<1>1. /\ FrameSize \in Nat \ {0} /\ MaxFrames \in Nat /\ U64Max \in Nat
      /\ MaxFrames * FrameSize <= U64Max
      /\ stop \in Nat /\ (stop = U64Max \/ stop = base + length)
  BY PmmConstants, RangeEnd
<1>. HIDE DEF stop
<1>2. /\ frame \in Nat /\ frame + 1 <= MaxFrames
      /\ byte \in Nat
      /\ frame * FrameSize <= byte /\ byte < frame * FrameSize + FrameSize
      /\ base <= byte /\ byte < base + length
  BY <1>1 DEF Bytes, Holds
<1>3. byte < stop
  <2>1. frame * FrameSize + FrameSize <= MaxFrames * FrameSize
    BY <1>1, <1>2, Z3
  <2>. QED BY <1>1, <1>2, <2>1
<1>4. pmm_align_down(base) \div FrameSize <= frame
  <2>1. base < (frame + 1) * FrameSize
    <3>1. (frame + 1) * FrameSize = frame * FrameSize + FrameSize
      BY <1>1, <1>2, Z3
    <3>. QED BY <1>1, <1>2, <3>1
  <2>2. base \div FrameSize < frame + 1
    <3>1. frame + 1 \in Nat
      BY <1>2
    <3>. QED BY <1>1, <2>1, <3>1, DivBelow
  <2>3. base \div FrameSize \in Nat
    BY <1>1, DivMod
  <2>. QED BY <1>2, <2>2, <2>3, AlignDownFrame
<1>5. frame < pmm_align_up(stop) \div FrameSize
  <2>1. /\ stop \div FrameSize \in Nat
        /\ stop = FrameSize * (stop \div FrameSize) + (stop % FrameSize)
        /\ stop % FrameSize \in 0 .. FrameSize - 1
    BY <1>1, DivMod
  <2>2. frame * FrameSize < stop
    BY <1>1, <1>2, <1>3
  <2>3. stop % FrameSize = 0 => frame < stop \div FrameSize
    BY <1>1, <1>2, <2>1, <2>2, Z3
  <2>4. frame < (stop \div FrameSize) + 1
    BY <1>1, <1>2, <2>1, <2>2, Z3
  <2>5. MaxFrames <= U64Max \div FrameSize /\ U64Max \div FrameSize \in Nat
    BY <1>1, LimitIsAddressable, DivMod
  <2>. QED BY <1>1, <1>2, <2>1, <2>3, <2>4, <2>5, AlignUpFrame
<1>. QED BY <1>4, <1>5 DEF FramesTouched, stop

-----------------------------------------------------------------------------
(* Marking keeps the counters exact.                                       *)

Exact(m, total) ==
  /\ m.free = Cardinality((0 .. total - 1) \ m.bitmap)
  /\ m.used = Cardinality((0 .. total - 1) \cap m.bitmap)

(* Marking tracked frames used moves both counters by the bits that        *)
(* change, and the decrement never has to stop at zero.                    *)
LEMMA MarkUsed ==
  ASSUME NEW total \in 0 .. MaxFrames, NEW m \in Marks, Exact(m, total),
         NEW frames \in SUBSET (0 .. total - 1)
  PROVE  /\ pmm_mark_frame_used(m, frames) \in Marks
         /\ pmm_mark_frame_used(m, frames).bitmap = m.bitmap \cup frames
         /\ Exact(pmm_mark_frame_used(m, frames), total)
         /\ pmm_mark_frame_used(m, frames).free
              = m.free - Cardinality(frames \ m.bitmap)
         /\ pmm_mark_frame_used(m, frames).used
              = m.used + Cardinality(frames \ m.bitmap)
<1>. DEFINE T == 0 .. total - 1
            B == m.bitmap
            D == frames \ B
            n == pmm_mark_frame_used(m, frames)
<1>1. MaxFrames \in Nat /\ total \in Nat /\ total <= MaxFrames
  BY PmmConstants
<1>2. /\ m.bitmap \subseteq 0 .. MaxFrames - 1
      /\ m.free \in Nat /\ m.used \in Nat
      /\ m.free = Cardinality(T \ B) /\ m.used = Cardinality(T \cap B)
  BY DEF Marks, Exact
<1>3. IsFiniteSet(T)
  BY <1>1, FS_Interval
<1>. HIDE DEF T
<1>4. frames \subseteq T
  BY DEF T
<1>5. IsFiniteSet(T \ B) /\ IsFiniteSet(T \cap B) /\ IsFiniteSet(D)
  BY <1>3, <1>4, FS_Subset
<1>6. Cardinality(D) <= Cardinality(T \ B)
  BY <1>4, <1>5, FS_Subset
<1>7. /\ Cardinality(D) \in Nat
      /\ Cardinality(T \ B) \in Nat /\ Cardinality(T \cap B) \in Nat
  BY <1>5, FS_CardinalityType
<1>8. Cardinality(T \ (B \cup frames)) = Cardinality(T \ B) - Cardinality(D)
  <2>1. T \ (B \cup frames) = (T \ B) \ D /\ (T \ B) \cap D = D
    BY <1>4
  <2>2. Cardinality((T \ B) \ D)
          = Cardinality(T \ B) - Cardinality((T \ B) \cap D)
    BY <1>5, FS_Difference
  <2>. QED BY <2>1, <2>2
<1>9. Cardinality(T \cap (B \cup frames))
        = Cardinality(T \cap B) + Cardinality(D)
  <2>1. T \cap (B \cup frames) = (T \cap B) \cup D /\ (T \cap B) \cap D = {}
    BY <1>4
  <2>2. Cardinality((T \cap B) \cup D)
          = Cardinality(T \cap B) + Cardinality(D)
            - Cardinality((T \cap B) \cap D)
    BY <1>5, FS_Union
  <2>3. Cardinality((T \cap B) \cap D) = 0
    BY <2>1, FS_EmptySet
  <2>. QED BY <1>7, <2>1, <2>2, <2>3
<1>10. n = [bitmap |-> B \cup frames, free |-> m.free - Cardinality(D),
            used |-> m.used + Cardinality(D)]
  BY <1>2, <1>6, <1>7 DEF pmm_mark_frame_used, Decrease
<1>11. B \cup frames \subseteq 0 .. MaxFrames - 1
  <2>1. frames \subseteq 0 .. MaxFrames - 1
    BY <1>1
  <2>. QED BY <1>2, <2>1
<1>12. n \in Marks
  BY <1>2, <1>6, <1>7, <1>10, <1>11 DEF Marks
<1>13. Exact(n, total)
  BY <1>2, <1>8, <1>9, <1>10 DEF Exact, T
<1>. QED BY <1>10, <1>12, <1>13

(* The same for marking tracked frames free.                               *)
LEMMA MarkFree ==
  ASSUME NEW total \in 0 .. MaxFrames, NEW m \in Marks, Exact(m, total),
         NEW frames \in SUBSET (0 .. total - 1)
  PROVE  /\ pmm_mark_frame_free(m, frames) \in Marks
         /\ pmm_mark_frame_free(m, frames).bitmap = m.bitmap \ frames
         /\ Exact(pmm_mark_frame_free(m, frames), total)
         /\ pmm_mark_frame_free(m, frames).free
              = m.free + Cardinality(frames \cap m.bitmap)
         /\ pmm_mark_frame_free(m, frames).used
              = m.used - Cardinality(frames \cap m.bitmap)
<1>. DEFINE T == 0 .. total - 1
            B == m.bitmap
            D == frames \cap B
            n == pmm_mark_frame_free(m, frames)
<1>1. MaxFrames \in Nat /\ total \in Nat /\ total <= MaxFrames
  BY PmmConstants
<1>2. /\ m.bitmap \subseteq 0 .. MaxFrames - 1
      /\ m.free \in Nat /\ m.used \in Nat
      /\ m.free = Cardinality(T \ B) /\ m.used = Cardinality(T \cap B)
  BY DEF Marks, Exact
<1>3. IsFiniteSet(T)
  BY <1>1, FS_Interval
<1>. HIDE DEF T
<1>4. frames \subseteq T
  BY DEF T
<1>5. IsFiniteSet(T \ B) /\ IsFiniteSet(T \cap B) /\ IsFiniteSet(D)
  BY <1>3, <1>4, FS_Subset
<1>6. Cardinality(D) <= Cardinality(T \cap B)
  BY <1>4, <1>5, FS_Subset
<1>7. /\ Cardinality(D) \in Nat
      /\ Cardinality(T \ B) \in Nat /\ Cardinality(T \cap B) \in Nat
  BY <1>5, FS_CardinalityType
<1>8. Cardinality(T \cap (B \ frames))
        = Cardinality(T \cap B) - Cardinality(D)
  <2>1. T \cap (B \ frames) = (T \cap B) \ D /\ (T \cap B) \cap D = D
    BY <1>4
  <2>2. Cardinality((T \cap B) \ D)
          = Cardinality(T \cap B) - Cardinality((T \cap B) \cap D)
    BY <1>5, FS_Difference
  <2>. QED BY <2>1, <2>2
<1>9. Cardinality(T \ (B \ frames)) = Cardinality(T \ B) + Cardinality(D)
  <2>1. T \ (B \ frames) = (T \ B) \cup D /\ (T \ B) \cap D = {}
    BY <1>4
  <2>2. Cardinality((T \ B) \cup D)
          = Cardinality(T \ B) + Cardinality(D) - Cardinality((T \ B) \cap D)
    BY <1>5, FS_Union
  <2>3. Cardinality((T \ B) \cap D) = 0
    BY <2>1, FS_EmptySet
  <2>. QED BY <1>7, <2>1, <2>2, <2>3
<1>10. n = [bitmap |-> B \ frames, free |-> m.free + Cardinality(D),
            used |-> m.used - Cardinality(D)]
  BY <1>2, <1>6, <1>7 DEF pmm_mark_frame_free, Decrease
<1>11. n \in Marks
  BY <1>2, <1>6, <1>7, <1>10 DEF Marks
<1>12. Exact(n, total)
  BY <1>2, <1>8, <1>9, <1>10 DEF Exact, T
<1>. QED BY <1>10, <1>11, <1>12

-----------------------------------------------------------------------------
(* Initialisation.                                                         *)

(* The marks pmm_initialize leaves: exact counters, and a free frame was   *)
(* released by a usable region and taken by no reservation.                *)
LEMMA InitialMarksExact ==
  ASSUME NEW b \in BootInfo, NEW total \in 0 .. MaxFrames
  PROVE  /\ InitialMarks(b, total) \in Marks
         /\ Exact(InitialMarks(b, total), total)
         /\ \A frame \in (0 .. total - 1) \ InitialMarks(b, total).bitmap :
              /\ frame \in pmm_release_usable_memory_regions(b, total)
              /\ frame \notin ReservedFrames(b, total)
<1>. DEFINE reset == [bitmap |-> 0 .. MaxFrames - 1, free |-> 0,
                      used |-> total]
            usable == pmm_release_usable_memory_regions(b, total)
            reserved == ReservedFrames(b, total)
<1>1. MaxFrames \in Nat /\ total \in Nat /\ total <= MaxFrames
  BY PmmConstants
<1>2. usable \in SUBSET (0 .. total - 1) /\ reserved \in SUBSET (0 .. total - 1)
  BY DEF pmm_release_usable_memory_regions, ReservedFrames, FramesInside,
         FramesTouched
<1>. HIDE DEF usable, reserved
<1>3. reset \in Marks
  BY <1>1 DEF Marks
<1>4. Exact(reset, total)
  <2>1. (0 .. total - 1) \ (0 .. MaxFrames - 1) = {}
    BY <1>1
  <2>2. (0 .. total - 1) \cap (0 .. MaxFrames - 1) = 0 .. total - 1
    BY <1>1
  <2>3. Cardinality(0 .. total - 1) = total
    BY <1>1, FS_Interval
  <2>. QED BY <2>1, <2>2, <2>3, FS_EmptySet DEF Exact
<1>5. reset.bitmap = 0 .. MaxFrames - 1
  OBVIOUS
<1>. HIDE DEF reset
<1>6. PICK released : /\ released = pmm_mark_frame_free(reset, usable)
                      /\ released \in Marks
                      /\ released.bitmap = reset.bitmap \ usable
                      /\ Exact(released, total)
  BY <1>2, <1>3, <1>4, MarkFree
<1>7. PICK final : /\ final = pmm_mark_frame_used(released, reserved)
                   /\ final \in Marks
                   /\ final.bitmap = released.bitmap \cup reserved
                   /\ Exact(final, total)
  BY <1>2, <1>6, MarkUsed
<1>8. final = InitialMarks(b, total)
  BY <1>6, <1>7 DEF InitialMarks, reset, usable, reserved
<1>9. 0 .. total - 1 \subseteq reset.bitmap
  BY <1>1, <1>5
<1>10. ASSUME NEW frame \in (0 .. total - 1) \ final.bitmap
       PROVE  frame \in usable /\ frame \notin reserved
  BY <1>6, <1>7, <1>9
<1>. QED BY <1>7, <1>8, <1>10 DEF usable, reserved

-----------------------------------------------------------------------------
(* The search.                                                             *)

(* What the search stops at is the lowest free frame ...                   *)
LEMMA FoundIsLowest ==
  ASSUME IInv, NEW frame \in FoundFrame
  PROVE  /\ pmm_initialized
         /\ frame \in Tracked
         /\ frame \notin marks.bitmap
         /\ 0 .. frame - 1 \subseteq marks.bitmap
<1>1. /\ MaxFrames \in Nat
      /\ pmm_total_frames \in Nat /\ pmm_next_search_frame \in Nat
      /\ pmm_next_search_frame <= pmm_total_frames
      /\ 0 .. pmm_next_search_frame - 1 \subseteq marks.bitmap
  BY PmmConstants DEF IInv, TypeOK, NoFreeFrameBelowSearch
<1>2. FirstUnused(0, pmm_next_search_frame) = {}
  BY <1>1 DEF FirstUnused
<1>3. /\ pmm_initialized
      /\ frame \in FirstUnused(pmm_next_search_frame, pmm_total_frames)
  BY <1>2 DEF FoundFrame
<1>4. /\ frame \in pmm_next_search_frame .. pmm_total_frames - 1
      /\ frame \notin marks.bitmap
      /\ pmm_next_search_frame .. frame - 1 \subseteq marks.bitmap
  BY <1>1, <1>3 DEF FirstUnused
<1>. QED BY <1>1, <1>3, <1>4 DEF Tracked

(* ... and it fails only when no tracked frame is free.                    *)
LEMMA NotFoundMeansFull ==
  ASSUME IInv, pmm_initialized, FoundFrame = {}
  PROVE  Tracked \subseteq marks.bitmap
<1>. DEFINE S == Tracked \ marks.bitmap
<1>1. /\ pmm_total_frames \in Nat /\ pmm_next_search_frame \in Nat
      /\ pmm_next_search_frame <= pmm_total_frames
      /\ 0 .. pmm_next_search_frame - 1 \subseteq marks.bitmap
  BY PmmConstants DEF IInv, TypeOK, NoFreeFrameBelowSearch
<1>2. SUFFICES ASSUME S # {} PROVE FALSE
  OBVIOUS
<1>3. S \in SUBSET Nat
  BY <1>1 DEF Tracked
<1>4. PICK f \in S : \A g \in S : f <= g
  BY <1>2, <1>3, Smallest, Zenon
<1>5. f \in pmm_next_search_frame .. pmm_total_frames - 1
  BY <1>1, <1>4 DEF Tracked
<1>6. \A g \in pmm_next_search_frame .. f - 1 : g \in marks.bitmap
  BY <1>1, <1>4, <1>5 DEF Tracked
<1>7. f \in FirstUnused(pmm_next_search_frame, pmm_total_frames)
  BY <1>4, <1>5, <1>6 DEF FirstUnused
<1>. QED BY <1>7 DEF FoundFrame

-----------------------------------------------------------------------------
(* The inductive invariant, action by action.                              *)

(* One frame changes hands: what the marks look like afterwards.           *)
LEMMA TakeOne ==
  ASSUME NEW total \in 0 .. MaxFrames, NEW m \in Marks, Exact(m, total),
         NEW frame \in 0 .. total - 1, frame \notin m.bitmap
  PROVE  /\ pmm_mark_frame_used(m, {frame}) \in Marks
         /\ pmm_mark_frame_used(m, {frame}).bitmap = m.bitmap \cup {frame}
         /\ Exact(pmm_mark_frame_used(m, {frame}), total)
         /\ pmm_mark_frame_used(m, {frame}).free = m.free - 1
         /\ pmm_mark_frame_used(m, {frame}).used = m.used + 1
<1>1. {frame} \in SUBSET (0 .. total - 1) /\ {frame} \ m.bitmap = {frame}
  OBVIOUS
<1>2. Cardinality({frame}) = 1
  BY FS_Singleton
<1>. QED BY <1>1, <1>2, MarkUsed

(* The same for a frame that is given back.                                *)
LEMMA GiveOne ==
  ASSUME NEW total \in 0 .. MaxFrames, NEW m \in Marks, Exact(m, total),
         NEW frame \in 0 .. total - 1, frame \in m.bitmap
  PROVE  /\ pmm_mark_frame_free(m, {frame}) \in Marks
         /\ pmm_mark_frame_free(m, {frame}).bitmap = m.bitmap \ {frame}
         /\ Exact(pmm_mark_frame_free(m, {frame}), total)
         /\ pmm_mark_frame_free(m, {frame}).free = m.free + 1
         /\ pmm_mark_frame_free(m, {frame}).used = m.used - 1
<1>1. {frame} \in SUBSET (0 .. total - 1) /\ {frame} \cap m.bitmap = {frame}
  OBVIOUS
<1>2. Cardinality({frame}) = 1
  BY FS_Singleton
<1>. QED BY <1>1, <1>2, MarkFree

(* The facts of IInv in the form the lemmas above take.                    *)
LEMMA Unfold ==
  ASSUME IInv
  PROVE  /\ MaxFrames \in Nat
         /\ pmm_total_frames \in 0 .. MaxFrames
         /\ marks \in Marks
         /\ Exact(marks, pmm_total_frames)
         /\ marks.bitmap \subseteq 0 .. MaxFrames - 1
         /\ pmm_next_search_frame \in 0 .. pmm_total_frames
         /\ 0 .. pmm_next_search_frame - 1 \subseteq marks.bitmap
         /\ pmm_allocated_bitmap \subseteq 0 .. pmm_total_frames - 1
         /\ pmm_allocated_bitmap \subseteq marks.bitmap
BY PmmConstants DEF IInv, TypeOK, CountersMatchBitmap, AllocatedIsMarkedUsed,
                    NoFreeFrameBelowSearch, Exact, Tracked, Marks

(* The statics' initial values satisfy the inductive invariant.            *)
LEMMA InitEstablishesIInv == Init => IInv
<1>. SUFFICES ASSUME Init PROVE IInv
  OBVIOUS
<1>1. TypeOK
  <2>1. MaxFrames \in Nat
    BY PmmConstants
  <2>2. boot \in BootInfos /\ status \in Statuses
    BY DEF Init, Statuses
  <2>3. pmm_initialized \in BOOLEAN /\ (pmm_initialized <=> status = "OK")
    BY DEF Init
  <2>4. marks \in Marks /\ answer.frame \in 0 .. MaxFrames
    BY <2>1 DEF Init, Marks, Answer, NoFrame
  <2>5. /\ pmm_total_frames \in 0 .. MaxFrames
        /\ pmm_allocated_bitmap \subseteq 0 .. MaxFrames - 1
        /\ pmm_next_search_frame \in 0 .. MaxFrames
    BY <2>1 DEF Init
  <2>. QED BY <2>2, <2>3, <2>4, <2>5 DEF TypeOK
<1>2. Tracked = {}
  BY DEF Init, Tracked
<1>3. CountersMatchBitmap
  <2>1. Tracked \ marks.bitmap = {} /\ Tracked \cap marks.bitmap = {}
    BY <1>2
  <2>. QED BY <2>1, FS_EmptySet DEF Init, CountersMatchBitmap
<1>4. AllocatedIsMarkedUsed
  BY DEF Init, AllocatedIsMarkedUsed
<1>5. NoFreeFrameBelowSearch
  BY DEF Init, NoFreeFrameBelowSearch
<1>. QED BY <1>1, <1>3, <1>4, <1>5 DEF IInv

(* Cleared counters are exact when no frame is tracked.                    *)
LEMMA ClearedIsExact ==
  ASSUME NEW bitmap \in SUBSET (0 .. MaxFrames - 1)
  PROVE  /\ [bitmap |-> bitmap, free |-> 0, used |-> 0] \in Marks
         /\ Exact([bitmap |-> bitmap, free |-> 0, used |-> 0], 0)
<1>1. (0 .. 0 - 1) \ bitmap = {} /\ (0 .. 0 - 1) \cap bitmap = {}
  OBVIOUS
<1>. QED BY <1>1, FS_EmptySet DEF Exact, Marks

(* pmm_initialize keeps it, whichever return it takes.                     *)
LEMMA InitializeKeepsIInv ==
  ASSUME IInv, pmm_initialize PROVE IInv'
<1>1. /\ MaxFrames \in Nat \ {0} /\ boot \in BootInfo /\ boot \in BootInfos
      /\ boot' = boot
  BY PmmConstants, BootInfosAssumption DEF IInv, TypeOK, pmm_initialize
<1>2. answer'.frame \in 0 .. MaxFrames /\ pmm_next_search_frame' = 0
  BY <1>1 DEF pmm_initialize, Answer, NoFrame
<1>3. 0 .. pmm_next_search_frame' - 1 \subseteq marks'.bitmap
  BY <1>2
<1>4. /\ status' \in Statuses
      /\ pmm_initialized' \in BOOLEAN
      /\ pmm_initialized' <=> status' = "OK"
  BY DEF pmm_initialize, Statuses
<1>5. SUFFICES /\ pmm_total_frames' \in 0 .. MaxFrames
               /\ marks' \in Marks
               /\ Exact(marks', pmm_total_frames')
               /\ pmm_allocated_bitmap' = {}
  <2>1. TypeOK'
    BY <1>1, <1>2, <1>4, <1>5 DEF TypeOK
  <2>2. CountersMatchBitmap'
    BY <1>5 DEF CountersMatchBitmap, Exact, Tracked
  <2>3. AllocatedIsMarkedUsed'
    BY <1>5 DEF AllocatedIsMarkedUsed
  <2>4. NoFreeFrameBelowSearch'
    BY <1>2, <1>3, <1>5 DEF NoFreeFrameBelowSearch
  <2>. QED BY <2>1, <2>2, <2>3, <2>4 DEF IInv
<1>6. CASE boot.info_address = 0 \/ ~boot.ready
  <2>1. /\ pmm_total_frames' = 0
        /\ marks' = [bitmap |-> marks.bitmap, free |-> 0, used |-> 0]
        /\ pmm_allocated_bitmap' = pmm_allocated_bitmap
    BY <1>6 DEF pmm_initialize
  <2>2. marks.bitmap \in SUBSET (0 .. MaxFrames - 1)
    BY Unfold
  <2>3. pmm_allocated_bitmap = {}
    BY DEF pmm_initialize, IInv, TypeOK, AllocatedIsMarkedUsed
  <2>. QED BY <1>1, <2>1, <2>2, <2>3, ClearedIsExact
<1>7. CASE boot.info_address # 0 /\ boot.ready
  <2>1. /\ pmm_total_frames' = TotalFrames(boot)
        /\ pmm_allocated_bitmap' = {}
        /\ IF pmm_total_frames' = 0
           THEN marks' = [bitmap |-> 0 .. MaxFrames - 1, free |-> 0, used |-> 0]
           ELSE marks' = InitialMarks(boot, pmm_total_frames')
    BY <1>7 DEF pmm_initialize
  <2>2. pmm_total_frames' \in 0 .. MaxFrames
    BY <1>1, <2>1, TotalFramesType
  <2>3. marks' \in Marks /\ Exact(marks', pmm_total_frames')
    <3>1. CASE pmm_total_frames' = 0
      BY <2>1, <3>1, ClearedIsExact
    <3>2. CASE pmm_total_frames' # 0
      BY <1>1, <2>1, <2>2, <3>2, InitialMarksExact
    <3>. QED BY <3>1, <3>2
  <2>. QED BY <2>1, <2>2, <2>3
<1>. QED BY <1>6, <1>7

(* pmm_allocate_frame keeps it, also when it refuses.                      *)
LEMMA AllocateKeepsIInv ==
  ASSUME IInv, pmm_allocate_frame PROVE IInv'
<1>1. CASE FoundFrame = {}
  <2>1. /\ UNCHANGED <<boot, status, pmm_initialized, pmm_total_frames, marks,
                       pmm_allocated_bitmap, pmm_next_search_frame>>
        /\ answer'.frame \in 0 .. MaxFrames
    BY <1>1, PmmConstants DEF pmm_allocate_frame, Answer, NoFrame
  <2>. QED BY <2>1 DEF IInv, TypeOK, CountersMatchBitmap, Tracked,
              AllocatedIsMarkedUsed, NoFreeFrameBelowSearch
<1>2. CASE FoundFrame # {}
  <2>1. PICK frame \in FoundFrame :
          /\ marks' = pmm_mark_frame_used(marks, {frame})
          /\ pmm_allocated_bitmap' = pmm_allocated_bitmap \cup {frame}
          /\ pmm_next_search_frame' = frame + 1
          /\ answer' = Answer("allocate", TRUE, frame)
          /\ UNCHANGED <<boot, status, pmm_initialized, pmm_total_frames>>
    BY <1>2 DEF pmm_allocate_frame
  <2>2. /\ pmm_initialized
        /\ frame \in 0 .. pmm_total_frames - 1
        /\ frame \notin marks.bitmap
        /\ 0 .. frame - 1 \subseteq marks.bitmap
    BY FoundIsLowest DEF Tracked
  <2>3. /\ marks' \in Marks
        /\ marks'.bitmap = marks.bitmap \cup {frame}
        /\ Exact(marks', pmm_total_frames)
    BY <2>1, <2>2, Unfold, TakeOne
  <2>4. TypeOK'
    BY <2>1, <2>2, <2>3, Unfold DEF IInv, TypeOK, Answer
  <2>5. CountersMatchBitmap'
    BY <2>1, <2>3 DEF CountersMatchBitmap, Exact, Tracked
  <2>6. AllocatedIsMarkedUsed'
    BY <2>1, <2>2, <2>3, Unfold DEF AllocatedIsMarkedUsed, Tracked
  <2>7. NoFreeFrameBelowSearch'
    BY <2>1, <2>2, <2>3, Unfold DEF NoFreeFrameBelowSearch
  <2>. QED BY <2>4, <2>5, <2>6, <2>7 DEF IInv
<1>. QED BY <1>1, <1>2

(* pmm_free_frame keeps it for every address.                              *)
LEMMA FreeKeepsIInv ==
  ASSUME IInv, NEW physical_address \in Addresses,
         pmm_free_frame(physical_address)
  PROVE  IInv'
<1>. DEFINE frame == physical_address \div FrameSize
<1>1. CASE ~FreeAccepted(physical_address)
  <2>1. /\ UNCHANGED <<boot, status, pmm_initialized, pmm_total_frames, marks,
                       pmm_allocated_bitmap, pmm_next_search_frame>>
        /\ answer'.frame \in 0 .. MaxFrames
    BY <1>1, PmmConstants DEF pmm_free_frame, Answer, NoFrame
  <2>. QED BY <2>1 DEF IInv, TypeOK, CountersMatchBitmap, Tracked,
              AllocatedIsMarkedUsed, NoFreeFrameBelowSearch
<1>2. CASE FreeAccepted(physical_address)
  <2>1. /\ marks' = pmm_mark_frame_free(marks, {frame})
        /\ pmm_allocated_bitmap' = pmm_allocated_bitmap \ {frame}
        /\ pmm_next_search_frame' = IF frame < pmm_next_search_frame
                                    THEN frame ELSE pmm_next_search_frame
        /\ answer' = Answer("free", TRUE, frame)
        /\ UNCHANGED <<boot, status, pmm_initialized, pmm_total_frames>>
    BY <1>2 DEF pmm_free_frame
  <2>2. pmm_initialized /\ frame \in pmm_allocated_bitmap
    BY <1>2 DEF FreeAccepted
  <2>. HIDE DEF frame
  <2>3. frame \in 0 .. pmm_total_frames - 1 /\ frame \in marks.bitmap
    BY <2>2, Unfold
  <2>4. /\ marks' \in Marks
        /\ marks'.bitmap = marks.bitmap \ {frame}
        /\ Exact(marks', pmm_total_frames)
    BY <2>1, <2>3, Unfold, GiveOne
  <2>5. TypeOK'
    BY <2>1, <2>3, <2>4, Unfold DEF IInv, TypeOK, Answer
  <2>6. CountersMatchBitmap'
    BY <2>1, <2>4 DEF CountersMatchBitmap, Exact, Tracked
  <2>7. AllocatedIsMarkedUsed'
    BY <2>1, <2>2, <2>4, Unfold DEF AllocatedIsMarkedUsed, Tracked
  <2>8. NoFreeFrameBelowSearch'
    <3>1. /\ pmm_next_search_frame' \in 0 .. pmm_total_frames
          /\ pmm_next_search_frame' <= frame
          /\ pmm_next_search_frame' <= pmm_next_search_frame
      BY <2>1, <2>3, Unfold
    <3>2. 0 .. pmm_next_search_frame' - 1 \subseteq marks.bitmap \ {frame}
      <4>1. 0 .. pmm_next_search_frame' - 1
              \subseteq 0 .. pmm_next_search_frame - 1
        <5>1. pmm_next_search_frame \in Int /\ pmm_next_search_frame' \in Int
          BY <3>1, Unfold
        <5>2. \A a, b \in Int : a <= b => 0 .. a - 1 \subseteq 0 .. b - 1
          OBVIOUS
        <5>3. pmm_next_search_frame' <= pmm_next_search_frame
          BY <3>1
        <5>. QED BY <5>1, <5>2, <5>3, Zenon
      <4>2. frame \notin 0 .. pmm_next_search_frame' - 1
        BY <2>3, <3>1
      <4>. QED BY <4>1, <4>2, Unfold
    <3>3. pmm_next_search_frame' <= pmm_total_frames'
      BY <2>1, <3>1, Unfold
    <3>. QED BY <2>4, <3>2, <3>3 DEF NoFreeFrameBelowSearch
  <2>. QED BY <2>5, <2>6, <2>7, <2>8 DEF IInv
<1>. QED BY <1>1, <1>2

(* The self-test always passes when it finds a frame, and only moves the   *)
(* search position.                                                        *)
LEMMA SelfTestEffect ==
  ASSUME IInv, pmm_run_basic_self_test, FoundFrame # {}
  PROVE  /\ marks' = marks
         /\ pmm_allocated_bitmap' = pmm_allocated_bitmap
         /\ pmm_next_search_frame' \in FoundFrame
         /\ answer' = Answer("self_test", TRUE, NoFrame)
         /\ UNCHANGED <<boot, status, pmm_initialized, pmm_total_frames>>
<1>1. PICK frame \in FoundFrame :
        LET taken == pmm_mark_frame_used(marks, {frame})
            back  == pmm_mark_frame_free(taken, {frame})
        IN  /\ LooksTaken(marks, taken, frame) =>
                 /\ marks' = back
                 /\ pmm_allocated_bitmap' = pmm_allocated_bitmap \ {frame}
                 /\ pmm_next_search_frame' = frame
                 /\ answer' = Answer("self_test",
                                /\ back.free = marks.free
                                /\ back.used = marks.used, NoFrame)
            /\ UNCHANGED <<boot, status, pmm_initialized, pmm_total_frames>>
  BY DEF pmm_run_basic_self_test
<1>2. /\ frame \in 0 .. pmm_total_frames - 1
      /\ frame \notin marks.bitmap /\ frame \notin pmm_allocated_bitmap
  BY FoundIsLowest, Unfold DEF Tracked
<1>3. PICK taken : /\ taken = pmm_mark_frame_used(marks, {frame})
                   /\ taken \in Marks
                   /\ taken.bitmap = marks.bitmap \cup {frame}
                   /\ Exact(taken, pmm_total_frames)
                   /\ taken.free = marks.free - 1
                   /\ taken.used = marks.used + 1
  BY <1>2, Unfold, TakeOne
<1>4. PICK back : /\ back = pmm_mark_frame_free(taken, {frame})
                  /\ back \in Marks
                  /\ back.bitmap = taken.bitmap \ {frame}
                  /\ back.free = taken.free + 1
                  /\ back.used = taken.used - 1
  <2>1. /\ frame \in taken.bitmap /\ pmm_total_frames \in 0 .. MaxFrames
        /\ taken \in Marks /\ Exact(taken, pmm_total_frames)
    BY <1>3, Unfold
  <2>2. /\ pmm_mark_frame_free(taken, {frame}) \in Marks
        /\ pmm_mark_frame_free(taken, {frame}).bitmap = taken.bitmap \ {frame}
        /\ pmm_mark_frame_free(taken, {frame}).free = taken.free + 1
        /\ pmm_mark_frame_free(taken, {frame}).used = taken.used - 1
    BY <1>2, <2>1, GiveOne
  <2>. QED BY <2>2, Zenon
<1>5. marks.free \in Nat /\ marks.used \in Nat
  BY Unfold DEF Marks
<1>6. back.free = marks.free /\ back.used = marks.used
  BY <1>3, <1>4, <1>5
<1>7. back.bitmap = marks.bitmap
  BY <1>2, <1>3, <1>4
<1>8. back = marks
  <2>1. back = [bitmap |-> back.bitmap, free |-> back.free,
                used |-> back.used]
    BY <1>4 DEF Marks
  <2>2. marks = [bitmap |-> marks.bitmap, free |-> marks.free,
                 used |-> marks.used]
    BY Unfold DEF Marks
  <2>. QED BY <1>6, <1>7, <2>1, <2>2
<1>9. LooksTaken(marks, taken, frame)
  BY <1>3 DEF LooksTaken
<1>10. pmm_allocated_bitmap \ {frame} = pmm_allocated_bitmap
  BY <1>2
<1>. QED BY <1>1, <1>3, <1>4, <1>6, <1>8, <1>9, <1>10

(* pmm_run_basic_self_test keeps it.                                       *)
LEMMA SelfTestKeepsIInv ==
  ASSUME IInv, pmm_run_basic_self_test PROVE IInv'
<1>1. /\ UNCHANGED <<boot, status, pmm_initialized, pmm_total_frames, marks,
                     pmm_allocated_bitmap>>
      /\ \/ pmm_next_search_frame' = pmm_next_search_frame
         \/ pmm_next_search_frame' \in FoundFrame
      /\ answer'.frame = NoFrame
  <2>1. CASE FoundFrame = {}
    BY <2>1 DEF pmm_run_basic_self_test, Answer
  <2>2. CASE FoundFrame # {}
    BY <2>2, SelfTestEffect DEF Answer
  <2>. QED BY <2>1, <2>2
<1>2. /\ pmm_next_search_frame' \in 0 .. pmm_total_frames
      /\ 0 .. pmm_next_search_frame' - 1 \subseteq marks.bitmap
  BY <1>1, FoundIsLowest, Unfold DEF Tracked
<1>3. TypeOK'
  BY <1>1, <1>2, Unfold DEF IInv, TypeOK, NoFrame
<1>4. CountersMatchBitmap' /\ AllocatedIsMarkedUsed'
  BY <1>1 DEF IInv, CountersMatchBitmap, AllocatedIsMarkedUsed, Tracked
<1>5. NoFreeFrameBelowSearch'
  <2>1. pmm_next_search_frame' <= pmm_total_frames'
    BY <1>1, <1>2, Unfold
  <2>2. 0 .. pmm_next_search_frame' - 1 \subseteq marks'.bitmap
    BY <1>1, <1>2
  <2>. QED BY <2>1, <2>2 DEF NoFreeFrameBelowSearch
<1>. QED BY <1>3, <1>4, <1>5 DEF IInv

(* Every step of the manager keeps the inductive invariant.                *)
LEMMA NextKeepsIInv == IInv /\ [Next]_vars => IInv'
<1>. SUFFICES ASSUME IInv, [Next]_vars PROVE IInv'
  OBVIOUS
<1>1. CASE pmm_initialize
  BY <1>1, InitializeKeepsIInv
<1>2. CASE pmm_allocate_frame
  BY <1>2, AllocateKeepsIInv
<1>3. CASE \E physical_address \in Addresses : pmm_free_frame(physical_address)
  BY <1>3, FreeKeepsIInv
<1>4. CASE pmm_run_basic_self_test
  BY <1>4, SelfTestKeepsIInv
<1>5. CASE UNCHANGED vars
  BY <1>5 DEF vars, IInv, TypeOK, CountersMatchBitmap, Tracked,
              AllocatedIsMarkedUsed, NoFreeFrameBelowSearch
<1>. QED BY <1>1, <1>2, <1>3, <1>4, <1>5 DEF Next

(* For every memory map and layout: the type invariant, the counters that  *)
(* agree with the bitmap, ownership inside the used frames and the search  *)
(* position below which nothing is free hold in every reachable state.     *)
THEOREM PmmInvariant == Spec => []IInv
BY InitEstablishesIInv, NextKeepsIInv, PTL DEF Spec

(* Every variable keeps its type, and the manager answers only after a     *)
(* successful pmm_initialize.                                              *)
THEOREM PmmTypeOK == Spec => []TypeOK
<1>1. IInv => TypeOK
  BY DEF IInv
<1>. QED BY <1>1, PmmInvariant, PTL

(* The two counters are the numbers of clear and set bits, whatever ranges *)
(* overlap and whatever is allocated and freed.                            *)
THEOREM PmmCountersMatchBitmap == Spec => []CountersMatchBitmap
<1>1. IInv => CountersMatchBitmap
  BY DEF IInv
<1>. QED BY <1>1, PmmInvariant, PTL

(* A frame that a caller owns is never free in the usage bitmap.           *)
THEOREM PmmAllocatedIsMarkedUsed == Spec => []AllocatedIsMarkedUsed
<1>1. IInv => AllocatedIsMarkedUsed
  BY DEF IInv
<1>. QED BY <1>1, PmmInvariant, PTL

(* Below the search position no frame is free: the second search loop of   *)
(* pmm_allocate_frame never finds one.                                     *)
THEOREM PmmNoFreeFrameBelowSearch == Spec => []NoFreeFrameBelowSearch
<1>1. IInv => NoFreeFrameBelowSearch
  BY DEF IInv
<1>. QED BY <1>1, PmmInvariant, PTL

-----------------------------------------------------------------------------
(* The pool.                                                               *)

(* Once initialised, no call changes the set of frames that are free or    *)
(* owned.                                                                  *)
LEMMA PoolKept ==
  ASSUME IInv, [Next]_vars, pmm_initialized
  PROVE  Pool' = Pool /\ pmm_initialized' /\ boot' = boot
<1>1. CASE pmm_initialize
  BY <1>1 DEF pmm_initialize, IInv, TypeOK
<1>2. CASE pmm_allocate_frame
  <2>1. CASE FoundFrame = {}
    BY <1>2, <2>1 DEF pmm_allocate_frame, Pool, Tracked
  <2>2. CASE FoundFrame # {}
    <3>1. PICK frame \in FoundFrame :
            /\ marks' = pmm_mark_frame_used(marks, {frame})
            /\ pmm_allocated_bitmap' = pmm_allocated_bitmap \cup {frame}
            /\ UNCHANGED <<boot, status, pmm_initialized, pmm_total_frames>>
      BY <1>2, <2>2 DEF pmm_allocate_frame
    <3>2. frame \in Tracked /\ frame \notin marks.bitmap
      BY FoundIsLowest
    <3>3. marks'.bitmap = marks.bitmap \cup {frame} /\ Tracked' = Tracked
      BY <3>1 DEF pmm_mark_frame_used, Tracked
    <3>. QED BY <3>1, <3>2, <3>3 DEF Pool
  <2>. QED BY <2>1, <2>2
<1>3. CASE \E physical_address \in Addresses : pmm_free_frame(physical_address)
  <2>1. PICK physical_address \in Addresses : pmm_free_frame(physical_address)
    BY <1>3
  <2>2. CASE ~FreeAccepted(physical_address)
    BY <2>1, <2>2 DEF pmm_free_frame, Pool, Tracked
  <2>3. CASE FreeAccepted(physical_address)
    <3>1. PICK frame \in pmm_allocated_bitmap :
            /\ marks' = pmm_mark_frame_free(marks, {frame})
            /\ pmm_allocated_bitmap' = pmm_allocated_bitmap \ {frame}
            /\ UNCHANGED <<boot, status, pmm_initialized, pmm_total_frames>>
      BY <2>1, <2>3 DEF pmm_free_frame, FreeAccepted
    <3>2. frame \in Tracked
      BY Unfold DEF Tracked
    <3>3. marks'.bitmap = marks.bitmap \ {frame} /\ Tracked' = Tracked
      BY <3>1 DEF pmm_mark_frame_free, Tracked
    <3>. QED BY <3>1, <3>2, <3>3 DEF Pool
  <2>. QED BY <2>2, <2>3
<1>4. CASE pmm_run_basic_self_test
  <2>1. UNCHANGED <<boot, pmm_initialized, pmm_total_frames, marks,
                    pmm_allocated_bitmap>>
    <3>1. CASE FoundFrame = {}
      BY <1>4, <3>1 DEF pmm_run_basic_self_test
    <3>2. CASE FoundFrame # {}
      BY <1>4, <3>2, SelfTestEffect
    <3>. QED BY <3>1, <3>2
  <2>. QED BY <2>1 DEF Pool, Tracked
<1>5. CASE UNCHANGED vars
  BY <1>5 DEF vars, Pool, Tracked
<1>. QED BY <1>1, <1>2, <1>3, <1>4, <1>5 DEF Next

(* What pmm_initialize puts into the pool is safe, byte by byte.           *)
LEMMA InitialPoolIsSafe ==
  ASSUME IInv, pmm_initialize PROVE PoolIsSafeMemory'
<1>1. SUFFICES ASSUME NEW frame \in Pool', NEW byte \in Bytes(frame)
      PROVE  /\ \E i \in DOMAIN boot.regions :
                  /\ boot.regions[i].usable
                  /\ Holds(boot.regions[i].base, boot.regions[i].length, byte)
             /\ ~Holds(0, LowReservedBytes, byte)
             /\ ~Holds(KernelStart, KernelEnd - KernelStart, byte)
             /\ ~Holds(BitmapStart, BitmapBytes, byte)
             /\ ~Holds(AllocBitmapStart, BitmapBytes, byte)
             /\ ~Holds(boot.info_address, InfoBytes, byte)
             /\ boot.mmap_addr # 0 =>
                  ~Holds(boot.mmap_addr, boot.mmap_length, byte)
  <2>1. boot' = boot
    BY DEF pmm_initialize
  <2>. QED BY <1>1, <2>1 DEF PoolIsSafeMemory
<1>2. status' = "OK" /\ boot.info_address # 0 /\ boot.ready
  BY <1>1 DEF Pool, pmm_initialize
<1>3. PICK total \in 0 .. MaxFrames :
        /\ pmm_total_frames' = total
        /\ marks' = InitialMarks(boot, total)
        /\ pmm_allocated_bitmap' = {}
  <2>1. boot \in BootInfo
    BY BootInfosAssumption DEF IInv, TypeOK
  <2>. QED BY <1>2, <2>1, TotalFramesType DEF pmm_initialize
<1>4. /\ boot \in BootInfo
      /\ boot.info_address \in Nat /\ boot.mmap_addr \in Nat
      /\ boot.mmap_length \in Nat
  BY BootInfosAssumption DEF IInv, TypeOK, BootInfo
<1>5. /\ LowReservedBytes \in Nat /\ KernelStart \in Nat /\ KernelEnd \in Nat
      /\ BitmapStart \in Nat /\ AllocBitmapStart \in Nat
      /\ BitmapBytes \in Nat /\ InfoBytes \in Nat /\ FrameSize \in Nat \ {0}
      /\ MaxFrames \in Nat
  BY PmmConstants
<1>6. frame \in (0 .. total - 1) \ InitialMarks(boot, total).bitmap
  BY <1>1, <1>3 DEF Pool, Tracked
<1>7. /\ frame \in pmm_release_usable_memory_regions(boot, total)
      /\ frame \notin ReservedFrames(boot, total)
  BY <1>4, <1>6, InitialMarksExact
<1>8. \E i \in DOMAIN boot.regions :
        /\ boot.regions[i].usable
        /\ Holds(boot.regions[i].base, boot.regions[i].length, byte)
  <2>1. PICK i \in DOMAIN boot.regions :
          /\ boot.regions[i].usable
          /\ frame \in FramesInside(boot.regions[i].base,
                                    boot.regions[i].length, total)
    BY <1>7 DEF pmm_release_usable_memory_regions
  <2>2. boot.regions[i].base \in Nat /\ boot.regions[i].length \in Nat
    BY <1>4, RegionType
  <2>3. Holds(boot.regions[i].base, boot.regions[i].length, byte)
    BY <2>1, <2>2, InsideBytes
  <2>. QED BY <2>1, <2>3
<1>9. ASSUME NEW base \in Nat, NEW length \in Nat,
             <<base, length>> \in ReservedRanges(boot)
      PROVE  ~Holds(base, length, byte)
  <2>1. frame \notin FramesTouched(base, length, total)
    BY <1>7, <1>9 DEF ReservedFrames
  <2>2. frame \in 0 .. total - 1
    BY <1>6
  <2>. QED BY <2>1, <2>2, TouchedBytes
<1>10. /\ <<0, LowReservedBytes>> \in ReservedRanges(boot)
       /\ <<BitmapStart, BitmapBytes>> \in ReservedRanges(boot)
       /\ <<AllocBitmapStart, BitmapBytes>> \in ReservedRanges(boot)
       /\ <<boot.info_address, InfoBytes>> \in ReservedRanges(boot)
  BY DEF ReservedRanges
<1>11. /\ ~Holds(0, LowReservedBytes, byte)
       /\ ~Holds(BitmapStart, BitmapBytes, byte)
       /\ ~Holds(AllocBitmapStart, BitmapBytes, byte)
       /\ ~Holds(boot.info_address, InfoBytes, byte)
  BY <1>4, <1>5, <1>9, <1>10
<1>12. ~Holds(KernelStart, KernelEnd - KernelStart, byte)
  <2>1. CASE KernelEnd > KernelStart
    <3>1. <<KernelStart, KernelEnd - KernelStart>> \in ReservedRanges(boot)
      BY <2>1 DEF ReservedRanges
    <3>2. KernelEnd - KernelStart \in Nat
      BY <1>5, <2>1
    <3>. QED BY <1>5, <1>9, <3>1, <3>2
  <2>2. CASE ~(KernelEnd > KernelStart)
    <3>1. byte \in Int
      BY <1>5, <1>6 DEF Bytes
    <3>. QED BY <1>5, <2>2, <3>1 DEF Holds
  <2>. QED BY <2>1, <2>2
<1>13. boot.mmap_addr # 0 => ~Holds(boot.mmap_addr, boot.mmap_length, byte)
  <2>1. CASE boot.mmap_addr # 0 /\ boot.mmap_length > 0
    <3>1. <<boot.mmap_addr, boot.mmap_length>> \in ReservedRanges(boot)
      BY <2>1 DEF ReservedRanges
    <3>. QED BY <1>4, <1>9, <3>1
  <2>2. CASE ~(boot.mmap_length > 0)
    <3>1. byte \in Int
      BY <1>5, <1>6 DEF Bytes
    <3>. QED BY <1>4, <2>2, <3>1 DEF Holds
  <2>. QED BY <2>1, <2>2
<1>. QED BY <1>8, <1>11, <1>12, <1>13

(* For every memory map, however unaligned or overlapping, and every       *)
(* sequence of calls: no byte of a frame that is free or handed out lies   *)
(* outside usable memory, or in low memory, the kernel image, a bitmap or  *)
(* the bootloader's structures.                                            *)
THEOREM PmmPoolIsSafe == Spec => []PoolIsSafeMemory
<1>1. Init => PoolIsSafeMemory
  BY DEF Init, PoolIsSafeMemory, Pool
<1>2. IInv /\ PoolIsSafeMemory /\ [Next]_vars => PoolIsSafeMemory'
  <2>. SUFFICES ASSUME IInv, PoolIsSafeMemory, [Next]_vars
       PROVE  PoolIsSafeMemory'
    OBVIOUS
  <2>1. CASE pmm_initialized
    BY <2>1, PoolKept DEF PoolIsSafeMemory
  <2>2. CASE ~pmm_initialized /\ pmm_initialize
    BY <2>2, InitialPoolIsSafe
  <2>3. CASE ~pmm_initialized /\ ~pmm_initialize
    <3>1. ~pmm_initialized'
      BY <2>3 DEF Next, vars, pmm_allocate_frame, pmm_free_frame,
                  pmm_run_basic_self_test
    <3>. QED BY <3>1 DEF PoolIsSafeMemory, Pool
  <2>. QED BY <2>1, <2>2, <2>3
<1>. QED BY <1>1, <1>2, PmmInvariant, PTL DEF Spec

(* After a successful pmm_initialize no call adds a frame to the pool or   *)
(* loses one.                                                              *)
THEOREM PmmPoolIsFixed == Spec => PoolNeverChanges
<1>1. IInv /\ [Next]_vars => [pmm_initialized => Pool' = Pool]_vars
  BY PoolKept
<1>. QED BY <1>1, PmmInvariant, PTL DEF Spec, PoolNeverChanges

-----------------------------------------------------------------------------
(* Refinement of FrameAllocator.                                           *)

Free == IF pmm_initialized THEN Tracked \ marks.bitmap ELSE {}

(* pmm_initialize starts the abstract allocator, or fails visibly.         *)
LEMMA InitializeRefines ==
  ASSUME IInv, IInv', pmm_initialize PROVE FA!Start
<1>1. ~pmm_initialized /\ pmm_allocated_bitmap = {}
  BY DEF pmm_initialize, IInv, TypeOK, AllocatedIsMarkedUsed
<1>2. pmm_allocated_bitmap' = pmm_allocated_bitmap
  BY <1>1 DEF pmm_initialize
<1>3. CASE status' = "OK"
  <2>1. /\ pmm_initialized' = TRUE
        /\ answer' = Answer("initialize", TRUE, NoFrame)
        /\ marks'.free # 0
    BY <1>3 DEF pmm_initialize
  <2>2. Tracked' \ marks'.bitmap # {}
    BY <2>1, FS_EmptySet DEF IInv, CountersMatchBitmap
  <2>3. Tracked' \ marks'.bitmap \subseteq 0 .. MaxFrames - 1
    BY PmmConstants DEF IInv, TypeOK, Tracked
  <2>. QED BY <1>1, <1>2, <2>1, <2>2, <2>3 DEF FA!Start, FA!Answer, Answer
<1>4. CASE status' # "OK"
  <2>1. /\ pmm_initialized' = FALSE
        /\ answer' = Answer("initialize", FALSE, NoFrame)
    BY <1>4 DEF pmm_initialize
  <2>2. pmm_initialized' = pmm_initialized
    BY <1>1, <2>1 DEF IInv, TypeOK
  <2>. QED BY <1>1, <1>2, <2>1, <2>2 DEF FA!Start, FA!Answer, Answer
<1>. QED BY <1>3, <1>4

(* pmm_allocate_frame hands out the lowest free frame, or there is none.   *)
LEMMA AllocateRefines ==
  ASSUME IInv, pmm_allocate_frame PROVE FA!Allocate \/ FA!AllocateFails
<1>1. CASE FoundFrame = {}
  <2>1. /\ UNCHANGED <<pmm_initialized, pmm_total_frames, marks,
                       pmm_allocated_bitmap>>
        /\ answer' = Answer("allocate", FALSE, NoFrame)
    BY <1>1 DEF pmm_allocate_frame
  <2>2. Free = {}
    BY <1>1, NotFoundMeansFull DEF Free
  <2>3. Free' = Free
    BY <2>1 DEF Free, Tracked
  <2>. QED BY <2>1, <2>2, <2>3 DEF FA!AllocateFails, FA!Answer, Answer, Free
<1>2. CASE FoundFrame # {}
  <2>1. PICK frame \in FoundFrame :
          /\ marks' = pmm_mark_frame_used(marks, {frame})
          /\ pmm_allocated_bitmap' = pmm_allocated_bitmap \cup {frame}
          /\ answer' = Answer("allocate", TRUE, frame)
          /\ UNCHANGED <<pmm_initialized, pmm_total_frames>>
    BY <1>2 DEF pmm_allocate_frame
  <2>2. /\ pmm_initialized /\ frame \in Tracked
        /\ frame \notin marks.bitmap /\ 0 .. frame - 1 \subseteq marks.bitmap
    BY FoundIsLowest
  <2>3. frame \in Free /\ \A g \in Free : frame <= g
    BY <2>2, Unfold DEF Free, Tracked
  <2>4. Free' = Free \ {frame}
    <3>1. marks'.bitmap = marks.bitmap \cup {frame} /\ Tracked' = Tracked
      BY <2>1 DEF pmm_mark_frame_used, Tracked
    <3>. QED BY <2>1, <2>2, <3>1 DEF Free
  <2>. QED BY <2>1, <2>3, <2>4 DEF FA!Allocate, FA!Answer, Answer, Free
<1>. QED BY <1>1, <1>2

(* pmm_free_frame takes back an owned frame, or refuses without effect.    *)
LEMMA FreeRefines ==
  ASSUME IInv, NEW physical_address \in Addresses,
         pmm_free_frame(physical_address)
  PROVE  FA!Release \/ FA!ReleaseRefused
<1>1. CASE ~FreeAccepted(physical_address)
  <2>1. /\ UNCHANGED <<pmm_initialized, pmm_total_frames, marks,
                       pmm_allocated_bitmap>>
        /\ answer' = Answer("free", FALSE, NoFrame)
    BY <1>1 DEF pmm_free_frame
  <2>2. Free' = Free
    BY <2>1 DEF Free, Tracked
  <2>. QED BY <2>1, <2>2 DEF FA!ReleaseRefused, FA!Answer, Answer, Free
<1>2. CASE FreeAccepted(physical_address)
  <2>1. PICK frame \in pmm_allocated_bitmap :
          /\ marks' = pmm_mark_frame_free(marks, {frame})
          /\ pmm_allocated_bitmap' = pmm_allocated_bitmap \ {frame}
          /\ answer' = Answer("free", TRUE, frame)
          /\ pmm_initialized
          /\ UNCHANGED <<pmm_initialized, pmm_total_frames>>
    BY <1>2 DEF pmm_free_frame, FreeAccepted
  <2>2. frame \in Tracked
    BY Unfold DEF Tracked
  <2>3. Free' = Free \cup {frame}
    <3>1. marks'.bitmap = marks.bitmap \ {frame} /\ Tracked' = Tracked
      BY <2>1 DEF pmm_mark_frame_free, Tracked
    <3>. QED BY <2>1, <2>2, <3>1 DEF Free
  <2>. QED BY <2>1, <2>3 DEF FA!Release, FA!Answer, Answer, Free
<1>. QED BY <1>1, <1>2

(* The self-test passes exactly when a frame is free, and changes nothing  *)
(* a caller can see.                                                       *)
LEMMA SelfTestRefines ==
  ASSUME IInv, pmm_run_basic_self_test PROVE FA!SelfTest
<1>1. CASE FoundFrame = {}
  <2>1. /\ UNCHANGED <<pmm_initialized, pmm_total_frames, marks,
                       pmm_allocated_bitmap>>
        /\ answer' = Answer("self_test", FALSE, NoFrame)
    BY <1>1 DEF pmm_run_basic_self_test
  <2>2. Free = {}
    BY <1>1, NotFoundMeansFull DEF Free
  <2>3. Free' = Free /\ (Free # {}) = FALSE
    BY <2>1, <2>2 DEF Free, Tracked
  <2>. QED BY <2>1, <2>3 DEF FA!SelfTest, FA!Answer, Answer, Free
<1>2. CASE FoundFrame # {}
  <2>1. /\ UNCHANGED <<pmm_initialized, pmm_total_frames, marks,
                       pmm_allocated_bitmap>>
        /\ answer' = Answer("self_test", TRUE, NoFrame)
    BY <1>2, SelfTestEffect
  <2>2. Free # {}
    BY <1>2, FoundIsLowest DEF Free
  <2>3. Free' = Free /\ (Free # {}) = TRUE
    BY <2>1, <2>2 DEF Free, Tracked
  <2>. QED BY <2>1, <2>3 DEF FA!SelfTest, FA!Answer, Answer, Free
<1>. QED BY <1>1, <1>2

(* The bitmap implementation with its counters and its search position     *)
(* implements the abstract lowest-first frame allocator.                   *)
THEOREM PmmRefinesFrameAllocator == Spec => RefinesFrameAllocator
<1>1. Init => FA!FAInit
  BY DEF Init, FA!FAInit, FA!Answer, Answer
<1>2. IInv /\ IInv' /\ [Next]_vars => [FA!FANext]_FA!faVars
  <2>. SUFFICES ASSUME IInv, IInv', [Next]_vars
       PROVE  [FA!FANext]_FA!faVars
    OBVIOUS
  <2>1. CASE pmm_initialize
    BY <2>1, InitializeRefines DEF FA!FANext
  <2>2. CASE pmm_allocate_frame
    BY <2>2, AllocateRefines DEF FA!FANext
  <2>3. CASE \E physical_address \in Addresses :
               pmm_free_frame(physical_address)
    BY <2>3, FreeRefines DEF FA!FANext
  <2>4. CASE pmm_run_basic_self_test
    BY <2>4, SelfTestRefines DEF FA!FANext
  <2>5. CASE UNCHANGED vars
    BY <2>5 DEF vars, FA!faVars, Tracked
  <2>. QED BY <2>1, <2>2, <2>3, <2>4, <2>5 DEF Next
<1>. QED BY <1>1, <1>2, PmmInvariant, PTL
     DEF Spec, RefinesFrameAllocator, FA!FASpec
=============================================================================
