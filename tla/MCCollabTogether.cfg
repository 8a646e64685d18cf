SPECIFICATION Spec

CONSTANTS
  x = x
  Chars = {x}
  Refused = {}
  height = 2
  width = 4
  MAX_CURSOR_NUM = 4
  e1 = e1
  e2 = e2
  e3 = e3
  Editors = {e1, e2}
  account <- Distinct
  Typists = {e1}
  Keys <- AllKeys
  Files <- FileX
  Early <- Nobody
  MAX_CLIENTS = 2
  Relays = "many"
  MaxKeys = 2
  MaxEnds = 1

INVARIANTS
  TextsAgree

CHECK_DEADLOCK FALSE
