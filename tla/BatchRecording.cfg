\* Two environments, two runs, early resets, failing exports and a crash.
SPECIFICATION Spec
CONSTANTS
  e1 = e1
  e2 = e2
  Envs = {e1, e2}
  MaxSteps = 5
  FlushInterval = 2
  MaxEarlyResets = 1
  ExportMayFail = TRUE
  MaxRuns = 2
  MaxCrashes = 1
SYMMETRY Symmetry
INVARIANTS
  TypeOK
  DemoIsWholeRun
  EveryEpisodeEnds
  FlagMissesNoSuccess
  JudgedOnLastEnd
  TotalCountsSamples
PROPERTY
  KeepsOutcomes
\* The runs of a task do come to an end.
CHECK_DEADLOCK FALSE
