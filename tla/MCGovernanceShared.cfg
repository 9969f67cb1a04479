\* Two processes and one bump: does the epoch in the file ever fall?
SPECIFICATION Spec
CONSTANTS
  Proc = {p1, p2}
  Keys = {k1}
  Modes = {"strict"}
  MaxCalls = 0
  MaxRepeat = 2
  Window = 1
  Ttl = 1
  MaxTime = 0
  MaxStarts = 2
  MaxBumps = 1
  MaxForwards = 0
  MaxFaults = 0
PROPERTIES EpochMonotone
CHECK_DEADLOCK FALSE
