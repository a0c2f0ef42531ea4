\* rdp_loop leaves packets waiting inside OpenSSL.
SPECIFICATION FairSpec
CONSTANTS
  MaxPackets = 3
  MaxRecord = 3
  MaxPdus = 2
PROPERTY
  Drains
CHECK_DEADLOCK FALSE
