\* Judging a frame on which the conditions of a stage that was won still hold.
SPECIFICATION Spec
CONSTANTS
  Unit = 12
  ExcludeSpawnTrue = TRUE
  Ladder <- TwoSmallStages
  NumStages = 2
  Warmup = 2
  MaxEarlyResets = 0
  Peers = FALSE
  MaxRuns = 1
INVARIANT
  FinalCountsKeptStages
