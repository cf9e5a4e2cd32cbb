SPECIFICATION WorkerSpec
CONSTANTS
  c1 = c1
  c2 = c2
  Clients = {c1, c2}
  NoClient = NoClient
  NoFile = NoFile
  MAX_CLIENT = 4
  HISTORY = 2
  MAX_FD = 3
  MAX_TIME = 2
  Users <- SomeUsers
INVARIANTS
  RowsAreClients
  TimesAreAccessTimes
  ServedOnlyIfListed
  Balance
  LeavesOnlyFor
PROPERTIES
  Answered
CHECK_DEADLOCK FALSE
