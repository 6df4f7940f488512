SPECIFICATION CaptureFairSpec
CONSTANTS
  Keys = {"interest", "outcome", "turn_count"}
  Reserved = {"turn_count"}
  Names = {"record", "count", "sentiment"}
  Values = {v1, v2}
  Metrics <- MCMetrics
  MaxIterations = 2
  MaxCalls = 2
  MaxCallTurns = 2
  None = None
INVARIANT MetricsInv
PROPERTY UpdatesApplied
CHECK_DEADLOCK FALSE
