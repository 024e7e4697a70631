SPECIFICATION FairSpec
CONSTANTS
  Bytes <- MCBytes
  Capacity = 1
  Modulus = 2
  HandlersOutrunPit = TRUE
PROPERTIES
  KeysAreRead
  QueueIsServed
