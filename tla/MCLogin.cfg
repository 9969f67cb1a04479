\* Two logins and a process that may be started twice.
SPECIFICATION LoginLiveSpec
CONSTANTS
  Logins = {1, 2}
  Proxies = {"p"}
  Profiles <- MCProfiles
  Globals <- MCGlobals
  MaxStarts = 2
  MaxFaults = 1
INVARIANTS
  LoginTypeOK
  ClientFits
  
PROPERTIES LoginEnds
CHECK_DEADLOCK FALSE
