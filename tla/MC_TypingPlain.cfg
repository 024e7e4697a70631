SPECIFICATION Spec
CONSTANTS
  Keys <- WholeKeyboard
  MaxHeld = 3
  MaxWire = 2
INVARIANTS
  ReadsWhatWasMeant
  NoOtherDivergence
