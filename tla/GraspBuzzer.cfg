SPECIFICATION Spec
CONSTANTS
  e1 = e1
  e2 = e2
  Envs = {e1, e2}
  Readings <- MCReadings
  HoldSteps = 2
  Burst = 2
  OpenMemory = 2
  StepsOf <- OneRun
  MaxEarlyResets = 1
INVARIANTS FumblesAreReported
CHECK_DEADLOCK FALSE
