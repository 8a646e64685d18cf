SPECIFICATION Spec

CONSTANTS
  e1 = e1
  e2 = e2
  e3 = e3
  Editors = {e1}
  account <- Distinct
  Registers = {}
  Requests = {"CREATE_FILE"}
  FileIds = {1, 2}
  CreateNames = {"c", "d"}
  Unusable = {}
  InitFiles <- ListShipped
  InitUsers <- TwoKnown
  MAX_CLIENTS = 2
  MAX_WORKERS = 3
  Workers = 4
  Interrupts = {"poll", "fork", "delete"}
  MaxRequests = 3
  MaxUsers = 3
  MaxEdits = 0
  MaxDeaths = 1

INVARIANTS
  MainSurvives

CHECK_DEADLOCK FALSE
