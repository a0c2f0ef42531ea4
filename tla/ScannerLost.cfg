\* A thread that starts before g_Wnd is assigned notifies nobody.
SPECIFICATION FairSpec
CONSTANTS
  Barcodes = {b1, b2}
  NoData = NoData
  MaxScans = 3
  MaxAhead = 2
PROPERTY
  EveryScanTyped
CHECK_DEADLOCK FALSE
