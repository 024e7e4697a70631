\* Two nested interrupts; the table holds two absent gates after the 48.
SPECIFICATION EntrySpec
CONSTANTS
  IDT_ENTRY_COUNT = 50
  StubAddress <- MCStubs
  ErrorCodes = {0, 7, 305441733}
  BootSegments <- GrubSegments
  BootRegisters <- MCRegisters
  CodeAddresses = {2097200}
  MaxNesting = 2
INVARIANTS
  HandlerSeesItsInterrupt
  ExceptionIsReported
PROPERTY
  ContextIsRestored
CHECK_DEADLOCK FALSE
