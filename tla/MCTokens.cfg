\* Two processes over one tokens.json, with a fault and a restart.
SPECIFICATION TokensSpec
CONSTANTS
  Proc = {p1, p2}
  Providers = {"stored", "refreshless", "oauth2", "command"}
  Margin = 1
  Life = 2
  Hour = 3
  MaxTime = 2
  MaxTokens = 3
  MaxStarts = 3
  MaxFaults = 1
INVARIANTS
  TokensTypeOK
  LoginKept
  RefusedOnlyIfOutdated
  MarginCovers
SYMMETRY Symmetry
CHECK_DEADLOCK FALSE
