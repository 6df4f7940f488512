SPECIFICATION FairSpec
CONSTANTS
  MaxTurns = 2
  MaxRounds = 2
  MaxToolCalls = 2
  Attempts = 2
  MaxPieces = 1
  Prompts = {1, 2}
  MaxReloads = 1
  MaxMessages = 4
INVARIANTS
  MemoryInv
  LlmSeesTurn
  SpokenIsRemembered
PROPERTIES
  ImplementsAgentTask
  EveryTurnEnds
CHECK_DEADLOCK FALSE
