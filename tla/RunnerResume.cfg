\* Two tasks, two deaths, an invocation that asks for more runs.
SPECIFICATION Spec
CONSTANTS
  NumTasks = 2
  NumEnvs = 2
  MaxRuns = 2
  Adaptive = FALSE
  AdaptiveMax = 4
  AdaptiveMin = 2
  TooWide <- WideUnlessUnanimous
  TornWrites = FALSE
  MaxCrashes = 2
  Junk = Junk
INVARIANTS
  TypeOK
  CopiesNeedCrashes
  FinishedMeansAll
PROPERTY
  KeepsLog
\* A finished evaluation stops.
CHECK_DEADLOCK FALSE
