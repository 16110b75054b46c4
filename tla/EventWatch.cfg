SPECIFICATION Spec
CONSTANTS
  RestSteps = 2
  PlaceRest = 1
  Objects <- MCObjects
  Groups <- MCGroups
  Decoys = {"d"}
  Readings <- MCReadings
  Warmup = 3
  HeldWindow = 1
  Alone = TRUE
  MaxSteps = 5
  MaxEarlyResets = 1
  MaxRuns = 2
INVARIANTS TypeOK SuccessHasSettled SuccessStampsStay LossEndsHopeless InsideAtResetNeverCounts CountIsTold
CHECK_DEADLOCK FALSE
