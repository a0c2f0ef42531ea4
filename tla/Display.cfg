\* The backing store and the window, against the server's desktop.
SPECIFICATION Spec
CONSTANTS
  Width = 4
  Height = 3
  Sizes <- MCSizes
  Rects <- MCRects
  Bounds <- MCBounds
  Lines <- MCLines
  Bitmaps <- MCBitmaps
  Glyphs <- MCGlyphs
  Opcodes = {6, 12}
  Blue = Blue
  Other = Other
  MaxOrders = 2
  MaxEvents = 2
INVARIANTS
  TypeOK
  DrawsAsMeant
  ScreenCurrent
  ScrollInRange
CHECK_DEADLOCK FALSE
