SPECIFICATION FairSpec
CONSTANTS
  maxNchildren = 2
  MAX_PROCS = 4
  PLANS <- PlansDef
\* The server ends.
CHECK_DEADLOCK FALSE
INVARIANTS
  PoolIsKnown
  ShutdownLeavesNobody
PROPERTIES
  ParentEnds
  CtrlCEndsAll
