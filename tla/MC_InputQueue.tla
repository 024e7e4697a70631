--------------------------- MODULE MC_InputQueue ---------------------------
(***************************************************************************)
(* InputQueue for TLC.  The values are in the configurations: a ring of    *)
(* two characters whose positions wrap around after six.                   *)
(***************************************************************************)
EXTENDS InputQueue
=============================================================================
