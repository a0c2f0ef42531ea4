\* The bitmap decoders, and what is painted and cached of what they decode.
SPECIFICATION Spec
CONSTANTS
  Dims <- MCDims
  Counts = {1, 8}
  Masks <- MCMasks
  Patterns <- MCPatterns
  MaxRuns = 3
  PlaneWidth = 17
  PlaneHeight = 2
  NumPlanes = 2
  Values = {130, 255}
  RawCounts = {0, 1}
  MaxBytes = 9
INVARIANTS
  TypeOK
  RleAsMeant
  PlanesAsMeant
  ShownAsMeant
CHECK_DEADLOCK FALSE
