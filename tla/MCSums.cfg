SPECIFICATION SumsSpec
CONSTANTS
  Files <- FilesDef
  MAX = 6
  NoValue = NoValue
  Garbage = {0, 300}
  MAX_RUNS = 2
INVARIANT SumKept
PROPERTY Finishes
\* No program runs for ever.
CHECK_DEADLOCK FALSE
