SPECIFICATION Spec

CONSTANTS
  e1 = e1
  e2 = e2
  e3 = e3
  Editors = {e1, e2}
  account <- Distinct
  Registers = {}
  Requests = {"FILE_REQUEST", "CREATE_FILE", "DELETE_FILE"}
  FileIds = {1, 2}
  CreateNames = {"c"}
  Unusable = {}
  InitFiles <- ListAB
  InitUsers <- TwoKnown
  MAX_CLIENTS = 2
  MAX_WORKERS = 2
  Workers = 4
  Interrupts = {"poll", "fork", "delete"}
  MaxRequests = 3
  MaxUsers = 3
  MaxEdits = 1
  MaxDeaths = 0

INVARIANTS
  ListedSaved

CHECK_DEADLOCK FALSE
