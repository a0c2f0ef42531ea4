\* A redirected session is refused its window.
SPECIFICATION Spec
CONSTANTS
  None = None
  Handles = {h1, h2, h3}
  MaxRedirects = 2
  NumChannels = 0
INVARIANT RedirectedSessionRuns
