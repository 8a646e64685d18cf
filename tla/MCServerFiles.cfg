SPECIFICATION Spec

CONSTANTS
  e1 = e1
  e2 = e2
  e3 = e3
  Editors = {e1, e2}
  account <- Distinct
  Registers = {}
  Requests = {"FILE_REQUEST", "CREATE_FILE", "DELETE_FILE"}
  FileIds = {1, 2}
  CreateNames = {"a", "c", "d"}
  Unusable = {"d"}
  InitFiles <- MixedLists
  InitUsers <- TwoKnown
  MAX_CLIENTS = 2
  MAX_WORKERS = 2
  Workers = 4
  Interrupts = {"poll", "fork", "delete"}
  MaxRequests = 3
  MaxUsers = 3
  MaxEdits = 1
  MaxDeaths = 1

INVARIANTS
  TypeOK
  TableTrue
  DeletedStaysDeleted
  NobodyShutOut
  ShutdownSaves

PROPERTIES
  ImplementsDirectory

CHECK_DEADLOCK FALSE
