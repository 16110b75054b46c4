\* A lost target ends the episode without success.
SPECIFICATION Spec
CONSTANTS
  e1 = e1
  e2 = e2
  Envs = {e1, e2}
  MaxSteps = 4
  FlushInterval = 3
  MaxEarlyResets = 0
  ExportMayFail = FALSE
  MaxRuns = 1
  MaxCrashes = 0
SYMMETRY Symmetry
INVARIANTS
  FlagIsTheRows
\* The runs of a task do come to an end.
CHECK_DEADLOCK FALSE
