\* The same without faults: does running in parallel keep the chains intact?
SPECIFICATION Spec
CONSTANTS
  Proc = {1, 2}
  MaxAge = 1
  MaxTime = 2
  MaxStarts = 2
  MaxCalls = 3
  MaxFaults = 0
  Long = {}
INVARIANTS ParallelSafety
CHECK_DEADLOCK FALSE
