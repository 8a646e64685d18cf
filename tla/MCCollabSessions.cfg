SPECIFICATION Spec

CONSTANTS
  x = x
  Chars = {x}
  Refused = {}
  height = 3
  width = 4
  MAX_CURSOR_NUM = 4
  e1 = e1
  e2 = e2
  e3 = e3
  Editors = {e1, e2, e3}
  account <- Again
  Typists = {e2, e3}
  Keys <- EditKeys
  Files <- FileX
  Early <- Two
  MAX_CLIENTS = 2
  Relays = "cut"
  MaxKeys = 2
  MaxEnds = 2

INVARIANTS
  TypeOK
  WorkerFindsCursors

CHECK_DEADLOCK FALSE
