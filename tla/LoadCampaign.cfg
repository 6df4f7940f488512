SPECIFICATION FairSpec
CONSTANTS
  MaxCalls = 3
  MaxLines = 2
  IncomingCap = 1
  MaxTime = 3
  Recordings <- MCRecordings
  WindowMs = 300
  StutterGap = 2
  Rates = {8000, 11025, 16000, 22050, 24000, 44100, 48000}
  MaxSamples = 40
  MaxCsrcs = 2
  MaxWords = 2
  MaxPadding = 3
  MaxPayload = 4
  None = None
  Configs <- MCConfigs
INVARIANTS CampaignInv CallsReported ActiveIsSeen
PROPERTY CampaignEnds
CHECK_DEADLOCK FALSE
