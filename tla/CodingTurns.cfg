SPECIFICATION CodingSpec
CONSTANTS
  Workers = {w1}
  MaxSteps = 2
  SdkTurns = {"fresh"}
  MaxDeaths = 0
  MaxDenials = 0
CHECK_DEADLOCK FALSE
INVARIANTS
  PostToolTurnsAreCheckpointed
