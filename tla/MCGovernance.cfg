\* Two processes and the files they share: a restart, a bump and a
\* fault.
SPECIFICATION Spec
CONSTANTS
  Proc = {p1, p2}
  Keys = {k1}
  Modes = {"strict"}
  MaxCalls = 2
  MaxRepeat = 1
  Window = 1
  Ttl = 1
  MaxTime = 2
  MaxStarts = 3
  MaxBumps = 1
  MaxForwards = 2
  MaxFaults = 1
INVARIANTS
  TypeOK
  EpochKept
  LearnedStays
PROPERTIES NothingForwardedOutOfSync
SYMMETRY Symmetry
CHECK_DEADLOCK FALSE
