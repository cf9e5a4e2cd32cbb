SPECIFICATION Spec
CONSTANTS
  Home = "home"
  Dirs = {"d1", "d2"}
  Names <- NamesDef
  Dots <- DotsDef
  Hidden <- HiddenDef
  Nameless <- NamelessDef
  Key <- KeyDef
  Length <- LengthDef
  Size <- SizeDef
  Blocks <- BlocksDef
  Contents <- ContentsDef
  Commands <- CommandsDef
  MAX_CHANGES = 2
INVARIANTS
  SortedListing
  OperandsListed
\* ls ends, or does something undefined.
CHECK_DEADLOCK FALSE
