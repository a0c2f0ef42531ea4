\* The scanner thread and the GUI thread.
SPECIFICATION FairSpec
CONSTANTS
  Barcodes = {b1, b2}
  NoData = NoData
  MaxScans = 3
  MaxAhead = 2
INVARIANTS
  TypeOK
  TypedInOrder
PROPERTIES
  BufferHandedOver
  ScansTyped
CHECK_DEADLOCK FALSE
