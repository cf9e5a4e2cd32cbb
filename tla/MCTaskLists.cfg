SPECIFICATION TaskSpec
CONSTANTS
  MAX_PID = 4
  Calls <- CallsDef
  max_threads = 4
  RLIMIT = 3
  MAX_FORKS = 1
INVARIANTS
  RefCounts
  TreeWhole
  TracerRight
PROPERTY TracerEnds
\* Everything but init may have ended.
CHECK_DEADLOCK FALSE
