SPECIFICATION Spec
CONSTANTS
  MaxUtterances = 2
  MaxPartials = 1
  MaxSentences = 1
  MaxChunks = 1
  BusCap = 1
  TextCap = 1
  EgressCap = 1
  Prompt = {}
  Signals = {"Interrupt", "Cancel", "ComponentError"}
  MaxSignals = 1
  LlmFails = FALSE
  MaxStreams = 2
INVARIANTS
  ClientInv
PROPERTIES
  ImplementsTurnProtocol
CHECK_DEADLOCK FALSE
