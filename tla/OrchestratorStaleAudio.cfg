SPECIFICATION Spec
CONSTANTS
  MaxUtterances = 2
  MaxPartials = 1
  MaxSentences = 1
  MaxChunks = 1
  BusCap = 5
  TextCap = 1
  EgressCap = 1
  Prompt = {"asr", "agent", "tts"}
  Signals = {}
  MaxSignals = 0
  LlmFails = FALSE
  MaxStreams = 2
PROPERTIES
  InterruptedTurnSilent
CHECK_DEADLOCK FALSE
