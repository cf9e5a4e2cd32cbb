SPECIFICATION PagingSpec
CONSTANTS
  Files <- FilesDef
  MAX = 9
INVARIANTS
  OptimalIsLeast
  KeepsItsPages
\* The program ends.
CHECK_DEADLOCK FALSE
