SPECIFICATION Spec
CONSTANTS
  N = 3
  Arrivals = {0, 1, 3}
  Bursts = {1, 2, 3}
  Slices = {1, 2}
INVARIANTS
  Accounts
  BoundedWait
  SRTFOptimal
CHECK_DEADLOCK FALSE
