CONSTANTS
  Callers = {c1, c2}
  MinInterval = 2
  MaxAttempts = 3

SPECIFICATION FairSpec
INVARIANTS
  SpacedFromSuccess
  WaitsAreLongEnough
PROPERTIES
  FetchesReturn
