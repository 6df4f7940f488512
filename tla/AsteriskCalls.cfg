SPECIFICATION FairSpec
CONSTANTS
  Calls = {c1}
  EgressCap = 1
  AudioCap = 1
  MaxFaults = 1
  Clerks = {a1}
  Campaigns = {k1}
  None = None
  Serial = TRUE
INVARIANTS AriInv RouteFollowsRow LoadCallClean
PROPERTY HangUpEndsCall
CHECK_DEADLOCK FALSE
