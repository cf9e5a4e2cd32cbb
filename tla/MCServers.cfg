SPECIFICATION Spec
CONSTANTS
  Home = "home"
  Dirs = {"d"}
  Names <- NamesDef
  Hidden <- HiddenDef
  Key <- KeyDef
  Length <- LengthDef
  Locked = {"lock"}
  Large = {"a"}
  Nameless = {"img"}
  Contents <- ContentsDef
  Images = {"img"}
  MAX_ROWS = 4
  MAX_FD = 4
  MAX_CHANGES = 2
  Clients = {"c1", "c2"}
  NoClient = "nobody"
  MAX_CLIENT = 4
  HISTORY = 2
  Requests <- RequestsDef
  Users <- UsersDef
  NoFile = NoFile
INVARIANTS
  RowsLead
  Balance
  EndsOnlyFor
  Window
PROPERTY Answered
\* A server ends.
CHECK_DEADLOCK FALSE
