SPECIFICATION Spec

CONSTANTS
  x = x
  Chars = {x}
  Refused = {}
  height = 2
  width = 4
  MAX_CURSOR_NUM = 4
  e1 = e1
  e2 = e2
  e3 = e3
  Editors = {e1, e2, e3}
  account <- Distinct
  Typists = {e1, e2}
  Keys <- FiveKeys
  Files <- FileX
  Early <- Two
  MAX_CLIENTS = 3
  Relays = "one"
  MaxKeys = 2
  MaxEnds = 1

INVARIANTS
  WatchersFollow
  EditorsFindCursors
  TextsAgree

CHECK_DEADLOCK FALSE
