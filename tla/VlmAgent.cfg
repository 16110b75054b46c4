SPECIFICATION Spec
CONSTANTS
  Envs <- MCEnvs
  Servers <- MCServers
  Units <- MCUnits
  Steps <- MCSteps
  SettleSteps = 3
  MaxFailures = 2
  MaxEarlyResets = 1
  MaxSteps = 7
  MaxRuns = 2
INVARIANTS GivesUpOnlyInARow StepsAccounted NegotiationIsFree
PROPERTY NoResetUnderAPlan
CHECK_DEADLOCK FALSE
