------------------------------ MODULE MC_Shell ------------------------------
(***************************************************************************)
(* Shell for TLC: words of up to three letters: one clears, one prints one *)
(* line or two, two show counters of at most three and four digits, and    *)
(* the others are unknown.                                                 *)
(***************************************************************************)
EXTENDS Shell, TLC

Printable == {Space, "a", "b", "o", ">"} \cup {HexDigits[i] : i \in 1 .. 10}
Letters == {"a", "b"}
Prompt == <<">", Space>>
Hello == <<"o", "LF">>
Warning == <<"LF", "o", "LF">>
Unknown == <<"o">>
Hint == <<"LF">>
Clear == <<"a">>
Ticks == <<"b", "a">>
Mem == <<"b", "b">>
Label == <<"o">>
BlackCell == vga_entry(Space, 0)
Outputs == (<<"b">> :> {<<"o", "LF">>, <<"LF", "o", "LF">>})
=============================================================================
