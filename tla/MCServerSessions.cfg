SPECIFICATION FairSpec

CONSTANTS
  e1 = e1
  e2 = e2
  e3 = e3
  Editors = {e1, e2, e3}
  account <- Distinct
  Registers = {e3}
  Requests = {"FILE_REQUEST", "DELETE_FILE"}
  FileIds = {1}
  CreateNames = {"c"}
  Unusable = {}
  InitFiles <- ListA
  InitUsers <- SomeKnown
  MAX_CLIENTS = 2
  MAX_WORKERS = 2
  Workers = 4
  Interrupts = {}
  MaxRequests = 2
  MaxUsers = 5
  MaxEdits = 0
  MaxDeaths = 0

PROPERTIES
  Answered
  PlacesReturned

CHECK_DEADLOCK FALSE
