\* Two processes, three starts, one receipt each, two faults: a damaged line
\* and a genesis hash that could not be saved.
SPECIFICATION StartupSpec
CONSTANTS
  Proc = {1, 2}
  MaxAge = 1
  MaxTime = 2
  MaxStarts = 3
  MaxCalls = 1
  MaxFaults = 2
  Long = {1, 2}
PROPERTIES RefusedOnlyIfDamaged
CHECK_DEADLOCK FALSE
