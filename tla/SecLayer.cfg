\* The RC4 streams of client and server.
SPECIFICATION Spec
CONSTANTS
  UpdateEvery = 3
  MaxConnections = 2
  MaxPdus = 7
  MaxInFlight = 2
INVARIANT TypeOK
INVARIANT InStep
INVARIANT UpdatesOnSchedule
CHECK_DEADLOCK FALSE
