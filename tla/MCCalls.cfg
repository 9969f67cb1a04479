\* One process that is restarted, a call whose target is one and one whose
\* target varies, and more calls than budget and window let through.
SPECIFICATION CallsSpec
CONSTANTS
  Proc = {p1}
  Keys <- MCKeys
  CallSet <- MCCalls
  Modes = {"strict", "advisory"}
  MaxCalls = 3
  MaxRepeat = 2
  Window = 1
  Ttl = 1
  MaxTime = 2
  MaxStarts = 2
  MaxBumps = 0
  MaxForwards = 4
  MaxFaults = 1
INVARIANTS
  BudgetHolds
  ExhaustedOnlyByForwards
PROPERTIES
  RepeatBound
  RetryBlocked
CHECK_DEADLOCK FALSE
