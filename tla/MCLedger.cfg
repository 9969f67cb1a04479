\* Two processes, three starts, one fault; process 1 writes records of every
\* length.
SPECIFICATION Spec
CONSTANTS
  Proc = {1, 2}
  MaxAge = 1
  MaxTime = 2
  MaxStarts = 3
  MaxCalls = 2
  MaxFaults = 1
  Long = {1}
INVARIANTS
  TypeOK
  BrokenOnlyIfDisturbed
  StatusMatchesFile
  AcceptedStays
PROPERTIES PurgeRemovesOld
CHECK_DEADLOCK FALSE
