\* The order stream, decoded against the server's intentions.
SPECIFICATION Spec
CONSTANTS
  Used <- MCUsed
  Modulus = 4
  Reach = 1
  Sides = {left}
  Cells = {0, 1}
  Bitmaps = {bm}
  NoBitmap = NoBitmap
  OrderSizes = {12, 24}
  MaxOrders = 3
  MaxInFlight = 2
  Nothing = Nothing
  Garbage = Garbage
  NoClip = NoClip
INVARIANT TypeOK
INVARIANT OrderStatesAgree
PROPERTY DrawsAsMeant
CHECK_DEADLOCK FALSE
