------------------------- MODULE MC_InterruptEntry -------------------------
(* The stubs lie above 2 MiB and across a 64 KiB boundary.                 *)
EXTENDS InterruptEntry

MCStubs == [vector \in 0 .. 47 |-> 2097152 + 65536 - 400 + 16 * vector]
MCRegisters == [eax |-> 200101, ecx |-> 102, edx |-> 103, ebx |-> 104,
                ebp |-> 105, esi |-> 106, edi |-> 107]
GrubSegments == [code |-> 16, data |-> 24]
=============================================================================
