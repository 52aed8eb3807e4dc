SPECIFICATION Spec
CONSTANTS
  Size = 8
  OutMax = 8
  Byte <- SomeBytes
  Packets <- SomePackets
INVARIANTS
  RingOK
  KeepsPackets
PROPERTIES
  ImplementsFifo
