------------------------------ MODULE Keyboard ------------------------------
(***************************************************************************)
(* The PS/2 driver, src/drivers/keyboard.c: Set 1 scancodes to characters. *)
(* A character is named by the table and the index it comes from; keys     *)
(* whose two table entries are equal have one name.                        *)
(***************************************************************************)
EXTENDS Naturals

VARIABLES keyboard_shift_pressed, keyboard_caps_lock_enabled

kbVars == <<keyboard_shift_pressed, keyboard_caps_lock_enabled>>

NoCharacter == <<"none", 0>>       \* '\0'

KEYBOARD_RELEASED_MASK == 128
SCANCODE_LEFT_SHIFT == 42
SCANCODE_RIGHT_SHIFT == 54
SCANCODE_CAPS_LOCK == 58

Shifts == {SCANCODE_LEFT_SHIFT, SCANCODE_RIGHT_SHIFT}

(* The indices both tables define (the others hold '\0'), and those where  *)
(* they agree: backspace, tab, enter, space.                               *)
Mapped == 2 .. 28 \cup 30 .. 41 \cup 43 .. 53 \cup {57}
SameInBoth == {14, 15, 28, 57}

keyboard_map(table, scancode) ==
  IF scancode \notin Mapped THEN NoCharacter
  ELSE IF scancode \in SameInBoth THEN <<"normal", scancode>>
  ELSE <<table, scancode>>

keyboard_is_letter_scancode(scancode) ==
  scancode \in 16 .. 25 \cup 30 .. 38 \cup 44 .. 50

(* Mutation: caps lock overrides shift instead of inverting it.            *)
TranslateCapsOverShift(scancode) ==
  keyboard_map(IF \/ keyboard_shift_pressed
                  \/ /\ keyboard_is_letter_scancode(scancode)
                     /\ keyboard_caps_lock_enabled
               THEN "shift" ELSE "normal", scancode)

keyboard_translate_scancode(scancode) ==
  LET uppercase == IF keyboard_is_letter_scancode(scancode)
                   THEN keyboard_shift_pressed # keyboard_caps_lock_enabled
                   ELSE keyboard_shift_pressed
  IN  keyboard_map(IF uppercase THEN "shift" ELSE "normal", scancode)

Released(raw) == raw >= KEYBOARD_RELEASED_MASK
Scancode(raw) == raw % KEYBOARD_RELEASED_MASK

keyboard_handle_modifier_press(scancode) ==
  /\ keyboard_shift_pressed' = (scancode \in Shifts \/ keyboard_shift_pressed)
  /\ keyboard_caps_lock_enabled' =
       (keyboard_caps_lock_enabled # (scancode = SCANCODE_CAPS_LOCK))

(* Mutation: a released shift stays pressed.                               *)
ReleaseIgnored(scancode) == UNCHANGED kbVars

keyboard_handle_modifier_release(scancode) ==
  /\ keyboard_shift_pressed' = (scancode \notin Shifts /\ keyboard_shift_pressed)
  /\ UNCHANGED keyboard_caps_lock_enabled

(* One IRQ1: the byte read from port 0x60 updates the modifiers ...        *)
keyboard_handle_interrupt(raw) ==
  IF Released(raw)
  THEN keyboard_handle_modifier_release(Scancode(raw))
  ELSE keyboard_handle_modifier_press(Scancode(raw))

(* ... and yields a character, or none.                                    *)
OutAscii(raw) ==
  IF Released(raw) \/ Scancode(raw) \in Shifts \cup {SCANCODE_CAPS_LOCK}
  THEN NoCharacter
  ELSE keyboard_translate_scancode(Scancode(raw))

KbInit ==
  /\ keyboard_shift_pressed = FALSE
  /\ keyboard_caps_lock_enabled = FALSE
=============================================================================
