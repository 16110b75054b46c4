\* Beside an environment that keeps running, an early reset is probed too soon.
SPECIFICATION Spec
CONSTANTS
  Unit = 12
  ExcludeSpawnTrue = TRUE
  Ladder <- TwoSmallStages
  NumStages = 2
  Warmup = 5
  MaxEarlyResets = 3
  Peers = TRUE
  MaxRuns = 1
INVARIANT
  ProbedAtRest
