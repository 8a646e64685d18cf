SPECIFICATION Spec
VIEW NoIds
SYMMETRY Letters

CONSTANTS
  Chars = {x, y}
  Refused = {}
  Unsendable = {}
  height = 3
  width = 3
  MAX_CURSOR_NUM = 3
  Users = {1, 2}
  MaxTextLines = 3
  MaxTextChars = 2

INVARIANTS
  TypeOK
  CursorsInText
  ChainShape
  MembersHaveCursors

PROPERTIES
  ImplementsDocument

\* An editor that was closed, or a process that crashed, takes no step.
CHECK_DEADLOCK FALSE
