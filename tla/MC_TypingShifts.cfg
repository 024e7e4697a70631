SPECIFICATION Spec
CONSTANTS
  Keys <- TwoShiftKeyboard
  MaxHeld = 3
  MaxWire = 2
INVARIANTS
  ModifiersFollowTheKeys
