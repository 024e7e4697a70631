----------------------------- MODULE MC_Typing -----------------------------
(***************************************************************************)
(* Keyboards for TLC: the keys at the edges of the driver's letter ranges  *)
(* and of its tables, and the modifiers.                                   *)
(***************************************************************************)
EXTENDS Typing

Key(code, letter) == [code |-> code, letter |-> letter, extended |-> FALSE]

(* q p a l z m; 1 [ enter ctrl ; ` comma / space F1.                       *)
Letters == {Key(c, TRUE) : c \in {16, 25, 30, 38, 44, 50}}
Others == {Key(c, FALSE) : c \in {2, 26, 28, 29, 39, 41, 51, 53, 57, 59}}
LeftShift == Key(42, FALSE)
RightShift == Key(54, FALSE)
CapsLock == Key(58, FALSE)

PlainKeyboard == Letters \cup Others \cup {LeftShift, RightShift, CapsLock}

ASSUME PlainKeyboardIsPlain == PlainKeys(PlainKeyboard)

(* With an extended key whose second byte is no key of the driver's.       *)
ArrowUp == [Key(72, FALSE) EXCEPT !.extended = TRUE]
WholeKeyboard == PlainKeyboard \cup {ArrowUp}

TwoShiftKeyboard == {Key(16, TRUE), LeftShift, RightShift}
=============================================================================
