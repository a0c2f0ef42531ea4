\* WirePump, plain and TLS: safety, and what does get drained.
SPECIFICATION FairSpec
CONSTANTS
  MaxPackets = 5
  MaxRecord = 3
  MaxPdus = 2
INVARIANTS
  TypeOK
  BufferHeld
  StartsOnData
PROPERTIES
  PlainDrains
  CloseEndsLoop
CHECK_DEADLOCK FALSE
