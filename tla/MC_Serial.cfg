\* Two messages and two heartbeats; a transmitter that holds two bytes, where
\* the real one holds sixteen.  A run ends when all texts are written.
SPECIFICATION SerialLiveSpec
CONSTANTS
  LogText <- Message
  HeartbeatText <- Tick
  SERIAL_TRANSMIT_TIMEOUT = 2
  FifoDepth = 2
  MaxLogs = 2
  MaxBeats = 2
INVARIANTS
  TextsAreIntact
PROPERTY
  WritersReturn
CHECK_DEADLOCK FALSE
