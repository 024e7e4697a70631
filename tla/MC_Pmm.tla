------------------------------- MODULE MC_Pmm -------------------------------
(***************************************************************************)
(* Instances of Pmm for TLC: frames of 4 bytes, up to 8 of them, and a     *)
(* 64-bit space of 48 addresses, so that maps end inside a frame, at the   *)
(* limit of the bitmap, beyond it, and at the end of the address space.    *)
(***************************************************************************)
EXTENDS Pmm

U(base, length) == [base |-> base, length |-> length, usable |-> TRUE]
R(base, length) == [base |-> base, length |-> length, usable |-> FALSE]

Boot(regions, info, mmap, length) ==
  [ready |-> TRUE, regions |-> regions, info_address |-> info,
   mmap_addr |-> mmap, mmap_length |-> length]

(* Maps whose regions do not overlap.                                      *)
Maps ==
  {<<U(0, 32)>>,                           \* everything usable
   <<U(0, 7), R(7, 2), U(9, 21)>>,         \* unaligned edges
   <<R(0, 8), U(8, 12), U(20, 28)>>,       \* beyond the bitmap limit
   <<U(10, 17), R(27, 2)>>,                \* the last frame is partial
   <<U(14, 3)>>,                           \* no complete frame
   <<R(0, 47)>>}                           \* nothing usable

(* Maps whose regions overlap.  The last has a reserved region inside a    *)
(* usable one, which the code does not mark: its frames are in the pool.   *)
Overlapping == {<<U(0, 20), U(14, 14)>>, <<U(17, 13), U(9, 12), U(9, 3)>>,
                <<U(0, 32), R(24, 5)>>}

Boots ==
  {Boot(m, info, mmap, length) : m \in Maps \cup Overlapping,
                                 info \in {1, 21}, mmap \in {0, 26},
                                 length \in {0, 3}}
  \cup {Boot(<<U(0, 32)>>, 0, 0, 0),
        [Boot(<<U(0, 32)>>, 1, 0, 0) EXCEPT !.ready = FALSE],
        Boot(<<>>, 1, 0, 0)}
=============================================================================
