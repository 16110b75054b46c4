\* A finished directory is extended, and the process dies.
SPECIFICATION Spec
CONSTANTS
  NumTasks = 1
  NumEnvs = 2
  MaxRuns = 2
  Adaptive = FALSE
  AdaptiveMax = 4
  AdaptiveMin = 2
  TooWide <- WideUnlessUnanimous
  TornWrites = FALSE
  MaxCrashes = 0
  Junk = Junk
INVARIANTS
  MarkerMeansComplete
\* A finished evaluation stops.
CHECK_DEADLOCK FALSE
