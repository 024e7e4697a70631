------------------------------ MODULE MC_Boot ------------------------------
(* Pages of 4 bytes, 4 entries a table, two tables: 32 of 64 addresses are *)
(* mapped.  Low memory 0..3 holds the VGA buffer; the image is 8..31.  The *)
(* boot loader's data lies below the image or above the mapped part.       *)
EXTENDS Boot

MCInfos ==
  [has_memory : BOOLEAN, has_memory_map : BOOLEAN, mem_lower : {1},
   mem_upper : {2}, mmap_addr : {0, 1, 40}, mmap_length : (0 .. 16) \cup {23, 24, 63}]
=============================================================================
