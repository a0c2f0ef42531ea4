\* The window polls a socket that is no longer the session's.
SPECIFICATION Spec
CONSTANTS
  None = None
  Handles = {h1, h2, h3}
  MaxRedirects = 2
  NumChannels = 0
INVARIANT PollsItsSocket
