SPECIFICATION Spec
CONSTANTS
  e1 = e1
  e2 = e2
  Envs = {e1, e2}
  Readings <- MCReadings
  HoldSteps = 1
  Burst = 2
  OpenMemory = 2
  StepsOf <- TwoRuns
  MaxEarlyResets = 1
INVARIANTS HandoversAlternate FumblesAccounted GripDatesItsCarry BurstsStandApart
CHECK_DEADLOCK FALSE
