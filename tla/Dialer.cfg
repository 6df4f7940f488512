SPECIFICATION FairSpec
CONSTANTS
  Contacts = {k1, k2}
  Exhausted = {k1, k2}
  Workers = 2
  CallRates = {0, 1}
  MaxFaults = 3
INVARIANTS DialInv RateHeld
PROPERTY EveryJobEnds
CHECK_DEADLOCK FALSE
