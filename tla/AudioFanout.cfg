SPECIFICATION FairSpec
CONSTANTS
  MaxFrames = 7
  MaxUtterances = 2
  MinVoiced = 2
  MinSilent = 2
  PreBuffer = 3
  VadCap = 2
  StateCap = 1
  DoneCap = 1
  BusCap = 1
INVARIANTS
  NoAudioDeadlock
  CaptureInv
PROPERTIES
  ImplementsSpeechEvents
  AudioDrains
CHECK_DEADLOCK FALSE
