SPECIFICATION FairSpec
CONSTANTS
  Admins = {a1, a2}
  Creator = a1
  Calls = {c1, c2}
  None = None
  Serial = TRUE
  Campaigners = {c1}
  MaxSessions = 1
  DefaultLimit = 2
  MaxLost = 1
  Crashes = TRUE
INVARIANTS
  LimitHeldUnlessRaced
  SettledInv
PROPERTIES
  CallsAccounted
  NewerPromptOnly
CHECK_DEADLOCK FALSE
