SPECIFICATION Spec
CONSTANTS
  Horizon = 2
  Kinds <- MCKinds
  Envs <- MCEnvs
  Sizes <- MCSizes
  Retries = 2
  ServedSteps = 3
  MaxSteps = 4
  MaxRuns = 3
  MaxDrops = 3
INVARIANTS TypeOK PlaysOwnRun OfThisConnection AgreesWithServer
CHECK_DEADLOCK FALSE
