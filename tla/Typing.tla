------------------------------- MODULE Typing -------------------------------
(***************************************************************************)
(* A user at the keyboard, and the driver.  Keys go down and up, the       *)
(* keyboard sends make and break codes (after a prefix byte for extended   *)
(* keys) and repeats the make code of the key that went down last while it *)
(* is held; each byte reaches the driver later, one IRQ1 at a time.        *)
(* Every byte carries the character the user meant by it, worked out from  *)
(* the keys that are physically down and not from the driver's state.      *)
(***************************************************************************)
EXTENDS Keyboard, Sequences, FiniteSets, FiniteSetsExt

CONSTANTS Keys,       \* [code, letter, extended]: what this keyboard has
          MaxHeld,    \* bound: keys down at once
          MaxWire     \* bound: bytes sent and not yet read

VARIABLES held,       \* the keys that are down
          last,       \* the key that went down last, which repeats
          caps,       \* has Caps Lock been pressed an odd number of times?
          wire,       \* bytes on their way, each with what it means
          output      \* the last byte handled: what was meant, what was read

(* History: the two ways in which what the keyboard sends leaves the       *)
(* driver with other modifiers than the keys.                              *)
VARIABLES forgotten,  \* a Shift is held, and no Shift has sent its make code
                      \* since another one was released
          flipped     \* Caps Lock has repeated its code an odd number of times

userVars == <<held, last, caps, forgotten, flipped>>
vars == <<kbVars, userVars, wire, output>>

EXTENDED_PREFIX == 224

IsShift(k) == ~k.extended /\ k.code \in Shifts
IsCapsLock(k) == ~k.extended /\ k.code = SCANCODE_CAPS_LOCK

ShiftHeld == \E k \in held : IsShift(k)

(* What pressing a key means: nothing for modifiers, extended keys and     *)
(* keys without a legend; otherwise shift selects the upper legend, and    *)
(* Caps Lock inverts that for letters only.                                *)
Meaning(k) ==
  IF k.extended \/ k.code \in Shifts \cup {SCANCODE_CAPS_LOCK}
                \/ k.code \notin Mapped
  THEN NoCharacter
  ELSE LET upper == IF k.letter /\ caps THEN ~ShiftHeld ELSE ShiftHeld
       IN  keyboard_map(IF upper THEN "shift" ELSE "normal", k.code)

(* May the driver's modifiers select another character of this key?        *)
InDoubt(k) == forgotten \/ (k.letter /\ flipped)

Byte(raw, meant, doubt) == [raw |-> raw, meant |-> meant, doubt |-> doubt]

Sends(k, raw, meant) ==
  wire' = wire \o (IF k.extended
                   THEN <<Byte(EXTENDED_PREFIX, NoCharacter, FALSE)>>
                   ELSE <<>>) \o <<Byte(raw, meant, InDoubt(k))>>

Press(k) ==
  /\ k \notin held
  /\ Cardinality(held) < MaxHeld
  /\ Len(wire) < MaxWire
  /\ held' = held \cup {k}
  /\ last' = {k}
  /\ caps' = (caps # IsCapsLock(k))
  /\ forgotten' = (forgotten /\ ~IsShift(k))
  /\ Sends(k, k.code, Meaning(k))
  /\ UNCHANGED <<kbVars, flipped, output>>

(* Typematic repeat.  To the user, holding Caps Lock is one press.         *)
Repeat(k) ==
  /\ k \in held \cap last
  /\ Len(wire) < MaxWire
  /\ forgotten' = (forgotten /\ ~IsShift(k))
  /\ flipped' = (flipped # IsCapsLock(k))
  /\ Sends(k, k.code, Meaning(k))
  /\ UNCHANGED <<kbVars, held, last, caps, output>>

Release(k) ==
  /\ k \in held
  /\ Len(wire) < MaxWire
  /\ held' = held \ {k}
  /\ forgotten' = IF IsShift(k) THEN ShiftHeld' ELSE forgotten
  /\ Sends(k, k.code + KEYBOARD_RELEASED_MASK, NoCharacter)
  /\ UNCHANGED <<kbVars, last, caps, flipped, output>>

Interrupt ==
  /\ wire # <<>>
  /\ keyboard_handle_interrupt(Head(wire).raw)
  /\ output' = [meant |-> Head(wire).meant, doubt |-> Head(wire).doubt,
                read |-> OutAscii(Head(wire).raw)]
  /\ wire' = Tail(wire)
  /\ UNCHANGED userVars

Init ==
  /\ KbInit
  /\ held = {} /\ last = {}
  /\ caps = FALSE
  /\ forgotten = FALSE /\ flipped = FALSE
  /\ wire = <<>>
  /\ output = [meant |-> NoCharacter, doubt |-> FALSE, read |-> NoCharacter]

Next == (\E k \in Keys : Press(k) \/ Repeat(k) \/ Release(k)) \/ Interrupt

Spec == Init /\ [][Next]_vars

-----------------------------------------------------------------------------
(* Keys that send one byte, with the legends of the driver's tables; of an *)
(* extended key the driver reads the byte behind the prefix as a plain     *)
(* key.                                                                    *)
PlainKeys(keys) ==
  \A k \in keys : /\ k.extended = FALSE
                  /\ k.code \in 0 .. KEYBOARD_RELEASED_MASK - 1
                  /\ k.letter = keyboard_is_letter_scancode(k.code)

(* The character the driver makes of each byte, with its own idea of the   *)
(* modifiers and possibly long after the key was hit, is the one the user  *)
(* meant when hitting it: two Shift keys, Caps Lock, all together, letters *)
(* against other keys, repeats, in every order.  Excepted are only bytes   *)
(* sent while a Shift that is held is forgotten, and letters while repeats *)
(* of Caps Lock have flipped it.                                           *)
ReadsWhatWasMeant == ~output.doubt => output.read = output.meant

(* keyboard.c:11 says the driver "tracks Shift and Caps Lock": once all    *)
(* bytes are handled, its two flags agree with the keys.  They need not:   *)
(* releasing one Shift clears the flag of both, and each repeated code of  *)
(* Caps Lock toggles it.                                                   *)
ModifiersFollowTheKeys ==
  wire = <<>> => /\ keyboard_shift_pressed = ShiftHeld
                 /\ keyboard_caps_lock_enabled = caps

(* These are the only two ways, and each spoils its own flag only: the     *)
(* Shift flag is right again from the next make code of a Shift, or when   *)
(* none is held any more, and that of Caps Lock after one more repeat.     *)
NoOtherDivergence ==
  wire = <<>> => /\ keyboard_shift_pressed = (ShiftHeld /\ ~forgotten)
                 /\ keyboard_caps_lock_enabled = (caps # flipped)
=============================================================================
