\* Two stages of different modes, one environment, two runs, stepped fairly.
SPECIFICATION FairSpec
CONSTANTS
  Unit = 12
  ExcludeSpawnTrue = TRUE
  Ladder <- TwoStages
  NumStages = 2
  Warmup = 2
  MaxEarlyResets = 1
  Peers = FALSE
  MaxRuns = 2
INVARIANTS
  TypeOK
PROPERTIES
  KeepsPromise
  NeverStalls
