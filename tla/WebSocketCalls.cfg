SPECIFICATION FairSpec
CONSTANTS
  FrameSamples = 2
  NetCap = 1
  AudioCap = 1
  EgressCap = 1
  BusCap = 1
  Speech = 3
  Turn = 9
  Turns = 2
  Drops = TRUE
INVARIANTS
  AudioIntact
  CallInv
PROPERTIES
  CallEnds
  NoTaskLeft
CHECK_DEADLOCK FALSE
