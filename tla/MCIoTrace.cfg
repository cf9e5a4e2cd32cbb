SPECIFICATION TraceSpec
CONSTANTS
  ftrace = ftrace
  iotrace = iotrace
  os_ftrace = os_ftrace
  openat = openat
  close = close
  Original = Original
  Modules = {ftrace, iotrace}
  Slots = {os_ftrace, openat, close}
  Hooks <- PairHooks
  Flips = {ftrace}
  Wraps = {iotrace}
  Needs <- PairNeeds
  Callers = {c1, c2}
  Ftrace = ftrace
  NoPid = NoPid
  Closing = close
  MAX_CALLS = 2
INVARIANTS
  TableRestored
  EntriesInMemory
  OneHookPerCall
  TraceCounts
