SPECIFICATION Spec
CONSTANTS
  Bytes <- MCBytes
  Capacity = 2
  Modulus = 4
  HandlersOutrunPit = FALSE
INVARIANTS
  TypeOK
  NeverPanics
  DepthCountsHandlers
  InServiceIsHandled
  NoLostWakeup
  KeyboardNeverStalls
  DiagnosticsAgree
PROPERTIES
  QueueStableWhileRead
  DiagnosticsNeverFall
  QueueIsFifo
