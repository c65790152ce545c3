SPECIFICATION CanarySpec
CONSTANTS
  Absent = Absent
  Callers = {c1}
  Resources = {x}
  Limit <- TwoOfEach
  TotalCalls = 2
  MaxRestarts = 0
CHECK_DEADLOCK FALSE
INVARIANTS
  SnapshotHydrates
