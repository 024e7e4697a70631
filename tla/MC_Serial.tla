------------------------------ MODULE MC_Serial ------------------------------
(***************************************************************************)
(* Serial for TLC: messages of one character and a newline.                *)
(***************************************************************************)
EXTENDS Serial

Message == <<"m", "LF">>
Tick == <<"t", "LF">>
=============================================================================
