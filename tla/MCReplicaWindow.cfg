SPECIFICATION Spec
VIEW NoIds

CONSTANTS
  Chars = {x}
  Refused = {}
  Unsendable = {}
  height = 3
  width = 2
  MAX_CURSOR_NUM = 2
  Users = {1}
  MaxTextLines = 5
  MaxTextChars = 1

INVARIANTS
  WindowMatchesFlags
  OwnInWindow
  FlagsUpToOwn
  WorkerKeepsBottom

PROPERTIES
  LocalKeysPainted

\* An editor that was closed, or a process that crashed, takes no step.
CHECK_DEADLOCK FALSE
