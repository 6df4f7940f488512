SPECIFICATION Spec
CONSTANTS
  MaxUtterances = 1
  MaxPartials = 5
  MaxSentences = 1
  MaxChunks = 1
  BusCap = 2
  TextCap = 1
  EgressCap = 1
  Prompt = {"orchestrator", "asr", "agent", "tts"}
  Signals = {}
  MaxSignals = 0
  LlmFails = FALSE
  MaxStreams = 2
INVARIANTS
  NotWedged
CHECK_DEADLOCK FALSE
