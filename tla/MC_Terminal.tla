----------------------------- MODULE MC_Terminal -----------------------------
(***************************************************************************)
(* Terminal for TLC.  Two colours tell the cells apart, whatever is        *)
(* written into them, so one glyph is enough; MC_Shell has several.        *)
(***************************************************************************)
EXTENDS Terminal

OneGlyph == {Space}
BlackCell == vga_entry(Space, 0)
=============================================================================
