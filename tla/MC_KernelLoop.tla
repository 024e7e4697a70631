--------------------------- MODULE MC_KernelLoop ---------------------------
(* The kernel loop with one letter key; MC_Typing and MC_InputQueue have   *)
(* several characters.                                                     *)
EXTENDS KernelLoop

MCBytes == {16}
=============================================================================
