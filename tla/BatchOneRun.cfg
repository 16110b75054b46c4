\* Its steps are then exported with the next run.
SPECIFICATION Spec
CONSTANTS
  e1 = e1
  e2 = e2
  Envs = {e1, e2}
  MaxSteps = 4
  FlushInterval = 3
  MaxEarlyResets = 1
  ExportMayFail = FALSE
  MaxRuns = 2
  MaxCrashes = 0
SYMMETRY Symmetry
INVARIANTS
  OneRunPerDemo
\* The runs of a task do come to an end.
CHECK_DEADLOCK FALSE
