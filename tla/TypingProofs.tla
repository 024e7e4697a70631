---------------------------- MODULE TypingProofs ----------------------------
(***************************************************************************)
(* Theorems about Typing, for every plain keyboard, with repeats, any      *)
(* number of Shift keys, of keys held and of bytes on the wire.            *)
(***************************************************************************)
EXTENDS Typing, SequenceTheorems, TLAPS

Raws == 0 .. 2 * KEYBOARD_RELEASED_MASK - 1
Meanings == {"none", "normal", "shift"} \X Nat
Bytes == [raw : Raws, meant : Meanings, doubt : BOOLEAN]

(* What a byte does to the modifiers, and the character it is read as,     *)
(* when shift and caps tell them before it.                                *)
Shifted(raw, shift) ==
  IF Released(raw) THEN Scancode(raw) \notin Shifts /\ shift
  ELSE Scancode(raw) \in Shifts \/ shift

Toggled(raw, caps_) ==
  IF ~Released(raw) /\ Scancode(raw) = SCANCODE_CAPS_LOCK THEN ~caps_ ELSE caps_

Upper(code, shift, caps_) ==
  IF keyboard_is_letter_scancode(code) THEN ~(shift <=> caps_) ELSE shift

ReadAs(raw, shift, caps_) ==
  IF Released(raw) \/ Scancode(raw) \in Shifts \cup {SCANCODE_CAPS_LOCK}
  THEN NoCharacter
  ELSE keyboard_map(IF Upper(Scancode(raw), shift, caps_)
                    THEN "shift" ELSE "normal", Scancode(raw))

(* The wire as a run of the driver: S and C are the positions after which  *)
(* shift is down and Caps Lock is on.                                      *)
Linked(w, S, C, i) ==
  /\ i \in S <=> Shifted(w[i].raw, i - 1 \in S)
  /\ i \in C <=> Toggled(w[i].raw, i - 1 \in C)
  /\ \/ w[i].doubt
     \/ w[i].meant = ReadAs(w[i].raw, i - 1 \in S, i - 1 \in C)

Run(w, S, C) == \A i \in 1 .. Len(w) : Linked(w, S, C, i)

Starts(S, C) ==
  /\ 0 \in S <=> keyboard_shift_pressed
  /\ 0 \in C <=> keyboard_caps_lock_enabled

(* What the driver makes of the keys.                                      *)
ShiftKnown == ShiftHeld /\ ~forgotten
CapsKnown == ~(caps <=> flipped)

Ends(w, S, C) ==
  /\ Len(w) \in S <=> ShiftKnown
  /\ Len(w) \in C <=> CapsKnown

Types ==
  /\ keyboard_shift_pressed \in BOOLEAN
  /\ keyboard_caps_lock_enabled \in BOOLEAN
  /\ caps \in BOOLEAN /\ forgotten \in BOOLEAN /\ flipped \in BOOLEAN
  /\ held \subseteq Keys
  /\ wire \in Seq(Bytes)

(* The bytes under way lead the driver from the state it is in to what it  *)
(* makes of the keys, and each is read on the way as it was meant, unless  *)
(* that was in doubt.                                                      *)
WireLeadsToKeys ==
  \E S, C \in SUBSET Nat : Starts(S, C) /\ Run(wire, S, C) /\ Ends(wire, S, C)

TypingInv == PlainKeys(Keys) /\ Types /\ WireLeadsToKeys /\ ReadsWhatWasMeant

-----------------------------------------------------------------------------
(* A make code is the key's code, a break code has the high bit.           *)
LEMMA Codes ==
  ASSUME NEW code \in 0 .. KEYBOARD_RELEASED_MASK - 1
  PROVE  /\ code \in Raws /\ code + KEYBOARD_RELEASED_MASK \in Raws
         /\ ~Released(code) /\ Released(code + KEYBOARD_RELEASED_MASK)
         /\ Scancode(code) = code
         /\ Scancode(code + KEYBOARD_RELEASED_MASK) = code
BY DEF Raws, KEYBOARD_RELEASED_MASK, Released, Scancode

(* A table gives a character, or none.                                     *)
LEMMA MapType ==
  ASSUME NEW code \in Nat, NEW table \in {"normal", "shift"}
  PROVE  keyboard_map(table, code) \in Meanings
BY DEF keyboard_map, Meanings, NoCharacter

(* One more byte, with what it does to the two modifiers.                  *)
LEMMA RunExtends ==
  ASSUME NEW w \in Seq(Bytes), NEW S \in SUBSET Nat, NEW C \in SUBSET Nat,
         Run(w, S, C), NEW byte \in Bytes,
         byte.doubt \/ byte.meant = ReadAs(byte.raw, Len(w) \in S, Len(w) \in C)
  PROVE  \E T, D \in SUBSET Nat :
           /\ 0 \in T <=> 0 \in S
           /\ 0 \in D <=> 0 \in C
           /\ Run(Append(w, byte), T, D)
           /\ Len(w) + 1 \in T <=> Shifted(byte.raw, Len(w) \in S)
           /\ Len(w) + 1 \in D <=> Toggled(byte.raw, Len(w) \in C)
<1>. DEFINE n == Len(w)
            v == Append(w, byte)
            T == {i \in Nat : IF i = n + 1 THEN Shifted(byte.raw, n \in S)
                              ELSE i \in S}
            D == {i \in Nat : IF i = n + 1 THEN Toggled(byte.raw, n \in C)
                              ELSE i \in C}
<1>1. /\ n \in Nat /\ Len(v) = n + 1 /\ v[n + 1] = byte
      /\ \A i \in 1 .. n : v[i] = w[i]
  OBVIOUS
<1>2. /\ n + 1 \in T <=> Shifted(byte.raw, n \in S)
      /\ n + 1 \in D <=> Toggled(byte.raw, n \in C)
      /\ \A i \in 0 .. n : (i \in T <=> i \in S) /\ (i \in D <=> i \in C)
      /\ T \in SUBSET Nat /\ D \in SUBSET Nat
  BY <1>1
<1>. HIDE DEF v, T, D
<1>3. ASSUME NEW i \in 1 .. n PROVE Linked(v, T, D, i)
  <2>1. Linked(w, S, C, i)
    BY DEF Run
  <2>2. i \in 0 .. n /\ i - 1 \in 0 .. n /\ v[i] = w[i]
    BY <1>1
  <2>3. /\ i \in T <=> i \in S
        /\ i \in D <=> i \in C
        /\ i - 1 \in T <=> i - 1 \in S
        /\ i - 1 \in D <=> i - 1 \in C
    BY <1>2, <2>2
  <2>. QED BY <2>1, <2>2, <2>3 DEF Linked, Shifted, Toggled, ReadAs, Upper
<1>4. Linked(v, T, D, n + 1)
  <2>1. /\ n + 1 - 1 = n /\ n \in 0 .. n
        /\ n \in T <=> n \in S
        /\ n \in D <=> n \in C
    BY <1>1, <1>2
  <2>. QED BY <1>1, <1>2, <2>1 DEF Linked, Shifted, Toggled, ReadAs, Upper
<1>5. Run(v, T, D)
  <2>1. \A i \in 1 .. n + 1 : i \in 1 .. n \/ i = n + 1
    BY <1>1
  <2>. QED BY <1>1, <1>3, <1>4, <2>1 DEF Run
<1>6. /\ 0 \in T <=> 0 \in S
      /\ 0 \in D <=> 0 \in C
  BY <1>1, <1>2
<1>. QED BY <1>2, <1>5, <1>6 DEF v

(* The rest of a run is a run.                                             *)
LEMMA RunAdvances ==
  ASSUME NEW w \in Seq(Bytes), w # <<>>, NEW S \in SUBSET Nat,
         NEW C \in SUBSET Nat, Run(w, S, C)
  PROVE  \E T, D \in SUBSET Nat :
           /\ 0 \in T <=> 1 \in S
           /\ 0 \in D <=> 1 \in C
           /\ Run(Tail(w), T, D)
           /\ Len(Tail(w)) \in T <=> Len(w) \in S
           /\ Len(Tail(w)) \in D <=> Len(w) \in C
<1>. DEFINE n == Len(w)
            v == Tail(w)
            T == {i \in Nat : i + 1 \in S}
            D == {i \in Nat : i + 1 \in C}
<1>1. /\ n \in Nat \ {0} /\ Len(v) = n - 1
      /\ \A i \in 1 .. n - 1 : v[i] = w[i + 1]
  OBVIOUS
<1>2. /\ \A i \in Nat : (i \in T <=> i + 1 \in S) /\ (i \in D <=> i + 1 \in C)
      /\ T \in SUBSET Nat /\ D \in SUBSET Nat
  OBVIOUS
<1>. HIDE DEF v, T, D
<1>3. ASSUME NEW i \in 1 .. Len(v) PROVE Linked(v, T, D, i)
  <2>1. /\ i \in Nat /\ i - 1 \in Nat /\ i + 1 \in 1 .. n
        /\ (i - 1) + 1 = i /\ (i + 1) - 1 = i
        /\ v[i] = w[i + 1]
    BY <1>1
  <2>2. Linked(w, S, C, i + 1)
    BY <2>1 DEF Run
  <2>3. /\ i \in T <=> i + 1 \in S
        /\ i \in D <=> i + 1 \in C
        /\ i - 1 \in T <=> i \in S
        /\ i - 1 \in D <=> i \in C
    BY <1>2, <2>1
  <2>. QED BY <2>1, <2>2, <2>3 DEF Linked, Shifted, Toggled, ReadAs, Upper
<1>4. Run(v, T, D)
  BY <1>3 DEF Run
<1>5. /\ 0 \in T <=> 1 \in S
      /\ 0 \in D <=> 1 \in C
      /\ Len(v) \in T <=> n \in S
      /\ Len(v) \in D <=> n \in C
  <2>1. 0 + 1 = 1 /\ Len(v) \in Nat /\ Len(v) + 1 = n
    BY <1>1
  <2>. QED BY <1>2, <2>1
<1>. QED BY <1>2, <1>4, <1>5 DEF v

(* The driver's step on a byte, in terms of its modifiers.                 *)
LEMMA DriverStep ==
  ASSUME Types, NEW raw \in Raws, keyboard_handle_interrupt(raw)
  PROVE  /\ keyboard_shift_pressed' \in BOOLEAN
         /\ keyboard_caps_lock_enabled' \in BOOLEAN
         /\ keyboard_shift_pressed' <=> Shifted(raw, keyboard_shift_pressed)
         /\ keyboard_caps_lock_enabled'
              <=> Toggled(raw, keyboard_caps_lock_enabled)
         /\ OutAscii(raw) = ReadAs(raw, keyboard_shift_pressed,
                                   keyboard_caps_lock_enabled)
<1>1. /\ keyboard_shift_pressed \in BOOLEAN
      /\ keyboard_caps_lock_enabled \in BOOLEAN
  BY DEF Types
<1>2. CASE Released(raw)
  <2>1. /\ keyboard_shift_pressed' =
             (Scancode(raw) \notin Shifts /\ keyboard_shift_pressed)
        /\ keyboard_caps_lock_enabled' = keyboard_caps_lock_enabled
    BY <1>2 DEF keyboard_handle_interrupt, keyboard_handle_modifier_release
  <2>. QED BY <1>1, <1>2, <2>1 DEF Shifted, Toggled, OutAscii, ReadAs
<1>3. CASE ~Released(raw)
  <2>1. /\ keyboard_shift_pressed' =
             (Scancode(raw) \in Shifts \/ keyboard_shift_pressed)
        /\ keyboard_caps_lock_enabled' =
             (keyboard_caps_lock_enabled
                # (Scancode(raw) = SCANCODE_CAPS_LOCK))
    BY <1>3 DEF keyboard_handle_interrupt, keyboard_handle_modifier_press
  <2>2. /\ keyboard_shift_pressed' \in BOOLEAN
        /\ keyboard_caps_lock_enabled' \in BOOLEAN
    BY <2>1
  <2>3. keyboard_shift_pressed' <=> Shifted(raw, keyboard_shift_pressed)
    BY <1>1, <1>3, <2>1 DEF Shifted
  <2>4. keyboard_caps_lock_enabled'
          <=> Toggled(raw, keyboard_caps_lock_enabled)
    BY <1>1, <1>3, <2>1 DEF Toggled
  <2>5. OutAscii(raw) = ReadAs(raw, keyboard_shift_pressed,
                               keyboard_caps_lock_enabled)
    BY <1>1, <1>3 DEF OutAscii, ReadAs, keyboard_translate_scancode, Upper
  <2>. QED BY <2>2, <2>3, <2>4, <2>5
<1>. QED BY <1>2, <1>3

(* What the user means by a key is what the driver will read, unless that  *)
(* is in doubt.                                                            *)
LEMMA MeaningIsReading ==
  ASSUME PlainKeys(Keys), Types, NEW k \in Keys
  PROVE  /\ InDoubt(k) \/ Meaning(k) = ReadAs(k.code, ShiftKnown, CapsKnown)
         /\ Meaning(k) \in Meanings
         /\ InDoubt(k) \in BOOLEAN
<1>1. /\ k.extended = FALSE
      /\ k.code \in 0 .. KEYBOARD_RELEASED_MASK - 1
      /\ k.letter = keyboard_is_letter_scancode(k.code)
      /\ caps \in BOOLEAN /\ forgotten \in BOOLEAN /\ flipped \in BOOLEAN
      /\ InDoubt(k) \in BOOLEAN
  BY DEF PlainKeys, Types, InDoubt
<1>2. /\ ~Released(k.code) /\ Scancode(k.code) = k.code /\ k.code \in Nat
  BY <1>1, Codes DEF KEYBOARD_RELEASED_MASK
<1>3. NoCharacter \in Meanings
  BY DEF NoCharacter, Meanings
<1>4. CASE k.code \in Shifts \cup {SCANCODE_CAPS_LOCK}
  BY <1>1, <1>2, <1>3, <1>4 DEF Meaning, ReadAs
<1>5. CASE k.code \notin Shifts \cup {SCANCODE_CAPS_LOCK}
  <2>1. ReadAs(k.code, ShiftHeld, caps)
          = keyboard_map(IF Upper(k.code, ShiftHeld, caps)
                         THEN "shift" ELSE "normal", k.code)
    BY <1>2, <1>5 DEF ReadAs
  <2>2. ReadAs(k.code, ShiftHeld, caps) \in Meanings
    <3>1. CASE Upper(k.code, ShiftHeld, caps)
      BY <1>2, <2>1, <3>1, MapType
    <3>2. CASE ~Upper(k.code, ShiftHeld, caps)
      BY <1>2, <2>1, <3>2, MapType
    <3>. QED BY <3>1, <3>2
  <2>3. CASE k.code \notin Mapped
    BY <1>1, <1>2, <1>3, <1>5, <2>3 DEF Meaning, ReadAs, keyboard_map
  <2>4. CASE k.code \in Mapped
    <3>1. Meaning(k) =
            keyboard_map(IF (IF k.letter /\ caps THEN ~ShiftHeld
                             ELSE ShiftHeld)
                         THEN "shift" ELSE "normal", k.code)
      BY <1>1, <1>5, <2>4 DEF Meaning
    <3>2. (IF k.letter /\ caps THEN ~ShiftHeld ELSE ShiftHeld)
            <=> Upper(k.code, ShiftHeld, caps)
      BY <1>1 DEF Upper
    <3>3. InDoubt(k) \/ (Upper(k.code, ShiftHeld, caps)
                          <=> Upper(k.code, ShiftKnown, CapsKnown))
      BY <1>1 DEF Upper, InDoubt, ShiftKnown, CapsKnown
    <3>4. ReadAs(k.code, ShiftKnown, CapsKnown)
            = keyboard_map(IF Upper(k.code, ShiftKnown, CapsKnown)
                           THEN "shift" ELSE "normal", k.code)
      BY <1>2, <1>5 DEF ReadAs
    <3>. QED BY <1>1, <2>1, <2>2, <3>1, <3>2, <3>3, <3>4
  <2>. QED BY <2>3, <2>4
<1>. QED BY <1>4, <1>5

-----------------------------------------------------------------------------
(* A key sends one byte, and the run grows by it.                          *)
LEMMA SendKeeps ==
  ASSUME TypingInv, NEW raw \in Raws, NEW meant \in Meanings,
         NEW doubt \in BOOLEAN,
         wire' = Append(wire, Byte(raw, meant, doubt)),
         doubt \/ meant = ReadAs(raw, ShiftKnown, CapsKnown),
         ShiftKnown' <=> Shifted(raw, ShiftKnown),
         CapsKnown' <=> Toggled(raw, CapsKnown),
         UNCHANGED kbVars
  PROVE  WireLeadsToKeys' /\ wire' \in Seq(Bytes)
<1>. DEFINE byte == Byte(raw, meant, doubt)
<1>1. /\ byte \in Bytes /\ byte.raw = raw /\ byte.meant = meant
      /\ byte.doubt = doubt
      /\ wire \in Seq(Bytes)
  BY DEF Byte, Bytes, TypingInv, Types
<1>2. wire' \in Seq(Bytes) /\ Len(wire') = Len(wire) + 1
  BY <1>1
<1>3. PICK S \in SUBSET Nat, C \in SUBSET Nat :
        Starts(S, C) /\ Run(wire, S, C) /\ Ends(wire, S, C)
  BY DEF TypingInv, WireLeadsToKeys
<1>4. \/ byte.doubt
      \/ byte.meant = ReadAs(byte.raw, Len(wire) \in S, Len(wire) \in C)
  <2>1. /\ Len(wire) \in S <=> ShiftKnown
        /\ Len(wire) \in C <=> CapsKnown
    BY <1>3 DEF Ends
  <2>. QED BY <1>1, <2>1 DEF ReadAs, Upper
<1>. HIDE DEF byte
<1>5. PICK T \in SUBSET Nat, D \in SUBSET Nat :
        /\ 0 \in T <=> 0 \in S
        /\ 0 \in D <=> 0 \in C
        /\ Run(Append(wire, byte), T, D)
        /\ Len(wire) + 1 \in T <=> Shifted(byte.raw, Len(wire) \in S)
        /\ Len(wire) + 1 \in D <=> Toggled(byte.raw, Len(wire) \in C)
  BY <1>1, <1>3, <1>4, RunExtends
<1>6. Starts(T, D)'
  BY <1>3, <1>5 DEF Starts, kbVars
<1>7. Run(wire', T, D)
  BY <1>5 DEF byte
<1>8. Ends(wire, T, D)'
  BY <1>1, <1>2, <1>3, <1>5 DEF Ends, Shifted, Toggled
<1>. QED BY <1>2, <1>6, <1>7, <1>8 DEF WireLeadsToKeys, Starts, Ends

(* What is known of a key and of the wire before it sends.                 *)
LEMMA KeyFacts ==
  ASSUME TypingInv, NEW k \in Keys
  PROVE  /\ k.extended = FALSE
         /\ k.code \in 0 .. KEYBOARD_RELEASED_MASK - 1
         /\ k.code \in Raws /\ ~Released(k.code) /\ Scancode(k.code) = k.code
         /\ IsShift(k) <=> k.code \in Shifts
         /\ IsCapsLock(k) <=> k.code = SCANCODE_CAPS_LOCK
         /\ caps \in BOOLEAN /\ forgotten \in BOOLEAN /\ flipped \in BOOLEAN
         /\ held \subseteq Keys /\ wire \in Seq(Bytes)
<1>1. /\ k.extended = FALSE
      /\ k.code \in 0 .. KEYBOARD_RELEASED_MASK - 1
      /\ caps \in BOOLEAN /\ forgotten \in BOOLEAN /\ flipped \in BOOLEAN
      /\ held \subseteq Keys /\ wire \in Seq(Bytes)
  BY DEF TypingInv, PlainKeys, Types
<1>2. k.code \in Raws /\ ~Released(k.code) /\ Scancode(k.code) = k.code
  BY <1>1, Codes
<1>. QED BY <1>1, <1>2 DEF IsShift, IsCapsLock

(* A make code, of a press or a repeat, keeps the invariant.               *)
LEMMA MakeKeeps ==
  ASSUME TypingInv, NEW k \in Keys, Sends(k, k.code, Meaning(k)),
         ShiftKnown' <=> (IsShift(k) \/ ShiftKnown),
         CapsKnown' <=> ~(CapsKnown <=> IsCapsLock(k)),
         UNCHANGED <<kbVars, output>>, held' \subseteq Keys,
         caps' \in BOOLEAN, forgotten' \in BOOLEAN, flipped' \in BOOLEAN
  PROVE  TypingInv'
<1>1. wire' = Append(wire, Byte(k.code, Meaning(k), InDoubt(k)))
  <2>1. wire' = wire \o <<>> \o <<Byte(k.code, Meaning(k), InDoubt(k))>>
    BY KeyFacts DEF Sends
  <2>. QED BY <2>1, KeyFacts
<1>2. ShiftKnown' <=> Shifted(k.code, ShiftKnown)
  BY KeyFacts DEF Shifted
<1>3. CapsKnown' <=> Toggled(k.code, CapsKnown)
  BY KeyFacts DEF Toggled
<1>4. /\ InDoubt(k) \/ Meaning(k) = ReadAs(k.code, ShiftKnown, CapsKnown)
      /\ Meaning(k) \in Meanings /\ InDoubt(k) \in BOOLEAN
  BY MeaningIsReading DEF TypingInv
<1>5. k.code \in Raws /\ UNCHANGED kbVars
  BY KeyFacts
<1>6. WireLeadsToKeys' /\ wire' \in Seq(Bytes)
  BY <1>1, <1>2, <1>3, <1>4, <1>5, SendKeeps
<1>7. Types'
  BY <1>6 DEF TypingInv, Types, kbVars
<1>. QED BY <1>6, <1>7 DEF TypingInv, ReadsWhatWasMeant

(* A key that goes down keeps it.                                          *)
LEMMA PressKeeps ==
  ASSUME TypingInv, NEW k \in Keys, Press(k)
  PROVE  TypingInv'
<1>1. /\ held' = held \cup {k} /\ UNCHANGED <<kbVars, flipped, output>>
      /\ caps' = (caps # IsCapsLock(k))
      /\ forgotten' = (forgotten /\ ~IsShift(k))
      /\ Sends(k, k.code, Meaning(k))
  BY DEF Press
<1>2. IsShift(k) \in BOOLEAN /\ IsCapsLock(k) \in BOOLEAN
  BY DEF IsShift, IsCapsLock
<1>3. ShiftHeld' <=> (IsShift(k) \/ ShiftHeld)
  BY <1>1 DEF ShiftHeld
<1>4. ShiftKnown' <=> (IsShift(k) \/ ShiftKnown)
  BY <1>1, <1>3, KeyFacts DEF ShiftKnown
<1>5. CapsKnown' <=> ~(CapsKnown <=> IsCapsLock(k))
  BY <1>1, <1>2, KeyFacts DEF CapsKnown
<1>6. /\ caps' \in BOOLEAN /\ forgotten' \in BOOLEAN /\ flipped' \in BOOLEAN
      /\ held' \subseteq Keys
  BY <1>1, <1>2, KeyFacts
<1>. QED BY <1>1, <1>4, <1>5, <1>6, MakeKeeps

(* So does a key that repeats.                                             *)
LEMMA RepeatKeeps ==
  ASSUME TypingInv, NEW k \in Keys, Repeat(k)
  PROVE  TypingInv'
<1>1. /\ k \in held /\ UNCHANGED <<kbVars, held, caps, output>>
      /\ forgotten' = (forgotten /\ ~IsShift(k))
      /\ flipped' = (flipped # IsCapsLock(k))
      /\ Sends(k, k.code, Meaning(k))
  BY DEF Repeat
<1>2. IsShift(k) \in BOOLEAN /\ IsCapsLock(k) \in BOOLEAN
  BY DEF IsShift, IsCapsLock
<1>3. (ShiftHeld' <=> ShiftHeld) /\ (IsShift(k) => ShiftHeld)
  BY <1>1 DEF ShiftHeld
<1>4. ShiftKnown' <=> (IsShift(k) \/ ShiftKnown)
  BY <1>1, <1>3, KeyFacts DEF ShiftKnown
<1>5. CapsKnown' <=> ~(CapsKnown <=> IsCapsLock(k))
  BY <1>1, <1>2, KeyFacts DEF CapsKnown
<1>6. /\ caps' \in BOOLEAN /\ forgotten' \in BOOLEAN /\ flipped' \in BOOLEAN
      /\ held' \subseteq Keys
  BY <1>1, <1>2, KeyFacts
<1>. QED BY <1>1, <1>4, <1>5, <1>6, MakeKeeps

(* A key that comes up keeps it.                                           *)
LEMMA ReleaseKeeps ==
  ASSUME TypingInv, NEW k \in Keys, Release(k)
  PROVE  TypingInv'
<1>. DEFINE raw == k.code + KEYBOARD_RELEASED_MASK
<1>1. /\ held' = held \ {k} /\ k \in held
      /\ forgotten' = IF IsShift(k) THEN ShiftHeld' ELSE forgotten
      /\ Sends(k, raw, NoCharacter)
      /\ UNCHANGED <<kbVars, caps, flipped, output>>
  BY DEF Release
<1>2. raw \in Raws /\ Released(raw) /\ Scancode(raw) = k.code
  BY KeyFacts, Codes
<1>. HIDE DEF raw
<1>3. wire' = Append(wire, Byte(raw, NoCharacter, InDoubt(k)))
  <2>1. wire' = wire \o <<>> \o <<Byte(raw, NoCharacter, InDoubt(k))>>
    BY <1>1, KeyFacts DEF Sends
  <2>. QED BY <2>1, KeyFacts
<1>4. forgotten' \in BOOLEAN /\ InDoubt(k) \in BOOLEAN
  <2>1. ShiftHeld' \in BOOLEAN
    BY DEF ShiftHeld
  <2>. QED BY <1>1, <2>1, KeyFacts DEF InDoubt
<1>5. ShiftKnown' <=> Shifted(raw, ShiftKnown)
  <2>1. CASE IsShift(k)
    BY <1>1, <1>2, <2>1, KeyFacts DEF ShiftKnown, Shifted
  <2>2. CASE ~IsShift(k)
    <3>1. ShiftHeld' <=> ShiftHeld
      BY <1>1, <2>2 DEF ShiftHeld
    <3>. QED BY <1>1, <1>2, <2>2, <3>1, KeyFacts DEF ShiftKnown, Shifted
  <2>. QED BY <2>1, <2>2
<1>6. CapsKnown' <=> Toggled(raw, CapsKnown)
  BY <1>1, <1>2 DEF CapsKnown, Toggled
<1>7. /\ NoCharacter = ReadAs(raw, ShiftKnown, CapsKnown)
      /\ NoCharacter \in Meanings /\ UNCHANGED kbVars
  BY <1>1, <1>2 DEF ReadAs, NoCharacter, Meanings
<1>8. WireLeadsToKeys' /\ wire' \in Seq(Bytes)
  BY <1>2, <1>3, <1>4, <1>5, <1>6, <1>7, SendKeeps
<1>9. Types'
  BY <1>1, <1>4, <1>8, KeyFacts DEF TypingInv, Types, kbVars
<1>. QED BY <1>1, <1>8, <1>9 DEF TypingInv, ReadsWhatWasMeant

(* The driver takes the first byte, and reads it as it was meant.          *)
LEMMA InterruptKeeps ==
  ASSUME TypingInv, Interrupt
  PROVE  TypingInv'
<1>. DEFINE raw == Head(wire).raw
<1>1. /\ wire \in Seq(Bytes) /\ wire # <<>> /\ wire' = Tail(wire)
      /\ keyboard_handle_interrupt(raw)
      /\ output' = [meant |-> Head(wire).meant, doubt |-> Head(wire).doubt,
                    read |-> OutAscii(raw)]
      /\ UNCHANGED <<held, caps, forgotten, flipped>>
  BY DEF TypingInv, Types, Interrupt, userVars
<1>2. /\ Head(wire) = wire[1] /\ 1 \in 1 .. Len(wire)
      /\ wire[1] \in Bytes /\ raw \in Raws /\ raw = wire[1].raw
      /\ wire' \in Seq(Bytes)
  <2>1. Head(wire) = wire[1] /\ 1 \in 1 .. Len(wire) /\ wire[1] \in Bytes
    BY <1>1
  <2>2. wire' \in Seq(Bytes)
    BY <1>1
  <2>3. wire[1].raw \in Raws
    BY <2>1 DEF Bytes
  <2>. QED BY <2>1, <2>2, <2>3
<1>. HIDE DEF raw
<1>3. /\ keyboard_shift_pressed' \in BOOLEAN
      /\ keyboard_caps_lock_enabled' \in BOOLEAN
      /\ keyboard_shift_pressed' <=> Shifted(raw, keyboard_shift_pressed)
      /\ keyboard_caps_lock_enabled'
           <=> Toggled(raw, keyboard_caps_lock_enabled)
      /\ OutAscii(raw) = ReadAs(raw, keyboard_shift_pressed,
                                keyboard_caps_lock_enabled)
  BY <1>1, <1>2, DriverStep DEF TypingInv
<1>4. PICK S \in SUBSET Nat, C \in SUBSET Nat :
        Starts(S, C) /\ Run(wire, S, C) /\ Ends(wire, S, C)
  BY DEF TypingInv, WireLeadsToKeys
<1>5. /\ 1 \in S <=> Shifted(raw, 0 \in S)
      /\ 1 \in C <=> Toggled(raw, 0 \in C)
      /\ wire[1].doubt \/ wire[1].meant = ReadAs(raw, 0 \in S, 0 \in C)
  <2>1. Linked(wire, S, C, 1) /\ 1 - 1 = 0
    BY <1>2, <1>4 DEF Run
  <2>. QED BY <1>2, <2>1 DEF Linked
<1>6. ReadsWhatWasMeant'
  <2>1. ReadAs(raw, 0 \in S, 0 \in C)
          = ReadAs(raw, keyboard_shift_pressed, keyboard_caps_lock_enabled)
    BY <1>4 DEF Starts, ReadAs, Upper
  <2>. QED BY <1>1, <1>2, <1>3, <1>5, <2>1 DEF ReadsWhatWasMeant
<1>7. PICK T \in SUBSET Nat, D \in SUBSET Nat :
        /\ 0 \in T <=> 1 \in S
        /\ 0 \in D <=> 1 \in C
        /\ Run(Tail(wire), T, D)
        /\ Len(Tail(wire)) \in T <=> Len(wire) \in S
        /\ Len(Tail(wire)) \in D <=> Len(wire) \in C
  BY <1>1, <1>4, RunAdvances
<1>8. Starts(T, D)'
  BY <1>3, <1>4, <1>5, <1>7 DEF Starts, Shifted, Toggled
<1>9. Run(wire', T, D) /\ Ends(wire, T, D)'
  BY <1>1, <1>4, <1>7 DEF Ends, ShiftKnown, CapsKnown, ShiftHeld
<1>10. WireLeadsToKeys'
  BY <1>8, <1>9 DEF WireLeadsToKeys, Starts, Ends
<1>11. Types'
  BY <1>1, <1>2, <1>3 DEF TypingInv, Types
<1>. QED BY <1>6, <1>10, <1>11 DEF TypingInv

(* Nobody has typed yet: the invariant holds.                              *)
LEMMA TypingStarts == PlainKeys(Keys) /\ Init => TypingInv
<1>. SUFFICES ASSUME PlainKeys(Keys), Init PROVE TypingInv
  OBVIOUS
<1>1. /\ wire = <<>> /\ held = {} /\ caps = FALSE
      /\ forgotten = FALSE /\ flipped = FALSE
      /\ keyboard_shift_pressed = FALSE
      /\ keyboard_caps_lock_enabled = FALSE
      /\ ReadsWhatWasMeant
  BY DEF Init, KbInit, ReadsWhatWasMeant
<1>2. Types
  <2>1. <<>> \in Seq(Bytes)
    OBVIOUS
  <2>. QED BY <1>1, <2>1, Zenon DEF Types
<1>3. Starts({}, {}) /\ Ends(wire, {}, {})
  BY <1>1 DEF Starts, Ends, ShiftKnown, CapsKnown, ShiftHeld
<1>4. Run(wire, {}, {})
  BY <1>1 DEF Run
<1>5. WireLeadsToKeys
  BY <1>3, <1>4 DEF WireLeadsToKeys
<1>. QED BY <1>1, <1>2, <1>5 DEF TypingInv

(* Every step of the user and of the driver keeps it.                      *)
LEMMA TypingStep == TypingInv /\ [Next]_vars => TypingInv'
<1>. SUFFICES ASSUME TypingInv, [Next]_vars PROVE TypingInv'
  OBVIOUS
<1>1. CASE UNCHANGED vars
  BY <1>1 DEF vars, userVars, kbVars, TypingInv, Types, WireLeadsToKeys,
              Starts, Ends, ShiftKnown, CapsKnown, ShiftHeld, ReadsWhatWasMeant
<1>. QED BY <1>1, PressKeeps, RepeatKeeps, ReleaseKeeps, InterruptKeeps DEF Next

(* On a plain keyboard the driver reads every key as it was meant, however *)
(* many bytes are on their way when modifiers go down, repeat and come up, *)
(* except while a held Shift is forgotten or Caps Lock flipped.            *)
THEOREM PlainKeysReadWhatWasMeant ==
  PlainKeys(Keys) /\ Spec => []ReadsWhatWasMeant
<1>1. TypingInv => ReadsWhatWasMeant
  BY DEF TypingInv
<1>. QED BY <1>1, TypingStarts, TypingStep, PTL DEF Spec

(* On a plain keyboard with any number of Shift keys, all of which repeat, *)
(* the driver's flags differ from the keys only by a Shift that was held   *)
(* when another one was released and by the repeats of Caps Lock.          *)
THEOREM PlainKeysNoOtherDivergence ==
  PlainKeys(Keys) /\ Spec => []NoOtherDivergence
<1>1. TypingInv => NoOtherDivergence
  <2>. SUFFICES ASSUME TypingInv, wire = <<>>
       PROVE  /\ keyboard_shift_pressed = (ShiftHeld /\ ~forgotten)
              /\ keyboard_caps_lock_enabled = (caps # flipped)
    BY DEF NoOtherDivergence
  <2>1. /\ keyboard_shift_pressed <=> ShiftKnown
        /\ keyboard_caps_lock_enabled <=> CapsKnown
    <3>1. Len(wire) = 0
      OBVIOUS
    <3>. QED BY <3>1 DEF TypingInv, WireLeadsToKeys, Starts, Ends
  <2>2. /\ keyboard_shift_pressed \in BOOLEAN /\ ShiftHeld \in BOOLEAN
        /\ keyboard_caps_lock_enabled \in BOOLEAN /\ caps \in BOOLEAN
        /\ flipped \in BOOLEAN /\ forgotten \in BOOLEAN
    BY DEF TypingInv, Types, ShiftHeld
  <2>. QED BY <2>1, <2>2 DEF ShiftKnown, CapsKnown
<1>. QED BY <1>1, TypingStarts, TypingStep, PTL DEF Spec
=============================================================================
