\* The life of the process, redirections included.
SPECIFICATION FairSpec
CONSTANTS
  None = None
  Handles = {h1, h2, h3}
  MaxRedirects = 2
  NumChannels = 0
INVARIANT TypeOK
INVARIANT NothingLeftBehind
INVARIANT OneCipher
INVARIANT FramingAgrees
INVARIANT TwoAttempts
PROPERTY ConnectDecides
