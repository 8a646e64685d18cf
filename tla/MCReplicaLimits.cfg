SPECIFICATION Spec
VIEW NoIds

CONSTANTS
  Chars = {x, y}
  Refused = {y}
  Unsendable = {y}
  height = 3
  width = 2
  MAX_CURSOR_NUM = 2
  Users = {1, 2, 3}
  MaxTextLines = 3
  MaxTextChars = 2

INVARIANTS
  CursorsOnLines
  OnlyMembersHaveCursors
  WorkerCursorAtStart
  RestartKeepsText

\* An editor that was closed, or a process that crashed, takes no step.
CHECK_DEADLOCK FALSE
