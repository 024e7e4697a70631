\* Capacity 2 and positions modulo 6: every fill level is met at every
\* position of the wrap-around, and the drop counter saturates at 5.
SPECIFICATION QueueSpec
CONSTANTS
  Chars = {a, b}
  NoChar = nul
  Capacity = 2
  Modulus = 6
INVARIANTS
  TypeOK
  ReaderIsNeverStale
PROPERTY
  RefinesBoundedFifo
