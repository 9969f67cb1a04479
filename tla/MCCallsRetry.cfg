\* One process and a call whose target varies: is its retry blocked?
SPECIFICATION CallsSpec
CONSTANTS
  Proc = {p1}
  Keys <- MCKeys
  CallSet <- MCCalls
  Modes = {"strict"}
  MaxCalls = 0
  MaxRepeat = 2
  Window = 1
  Ttl = 1
  MaxTime = 0
  MaxStarts = 1
  MaxBumps = 0
  MaxForwards = 2
  MaxFaults = 0
PROPERTIES IdenticalRetryBlocked
CHECK_DEADLOCK FALSE
