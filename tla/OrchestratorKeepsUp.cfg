SPECIFICATION FairSpec
CONSTANTS
  MaxUtterances = 2
  MaxPartials = 1
  MaxSentences = 3
  MaxChunks = 1
  BusCap = 2
  TextCap = 1
  EgressCap = 1
  Prompt = {"orchestrator", "asr", "agent", "tts"}
  Signals = {}
  MaxSignals = 0
  LlmFails = TRUE
  MaxStreams = 2
INVARIANTS
  EveryTaskCancellable
  OnlyCurrentTurnSpeaks
  FlagsOnlyHitCancelled
PROPERTIES
  NoRepeatedAnswer
  NoTranscriptLost
  NoAnswerLost
  EveryTurnSettles
  ShutdownStopsTasks
CHECK_DEADLOCK FALSE
