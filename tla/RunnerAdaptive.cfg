\* Adaptive sampling over two deaths that may cut an append short.
SPECIFICATION FairSpec
CONSTANTS
  NumTasks = 1
  NumEnvs = 3
  MaxRuns = 2
  Adaptive = TRUE
  AdaptiveMax = 5
  AdaptiveMin = 2
  TooWide <- WideUnlessUnanimous
  TornWrites = TRUE
  MaxCrashes = 2
  Junk = Junk
INVARIANTS
  AdaptiveBounded
  LossIsBounded
PROPERTY
  Finishes
\* A finished evaluation stops.
CHECK_DEADLOCK FALSE
