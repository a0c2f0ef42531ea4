\* The device's keyboard and the session's.
SPECIFICATION Spec
CONSTANTS
  Shift = Shift
  Caps = Caps
  Letters = {A}
  Scans <- MCScans
  MaxEvents = 3
  MaxScans = 1
  MaxDemands = 2
INVARIANTS
  TypeOK
  NoStuckKeys
  LocksAgree
  TypedAsHere
CHECK_DEADLOCK FALSE
