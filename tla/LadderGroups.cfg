\* One stage, groups of three, one and one rungs, two of which must finish; two runs.
SPECIFICATION Spec
CONSTANTS
  Unit = 12
  ExcludeSpawnTrue = TRUE
  Ladder <- OneStage
  NumStages = 1
  Warmup = 4
  MaxEarlyResets = 1
  Peers = TRUE
  MaxRuns = 2
INVARIANTS
  GroupFullIffEarned
  CompletedIsPrefix
  CreditIsWitnessed
  LastRungFinishes
  ProbedNearRest
