SPECIFICATION AdmissionSpec
CONSTANTS
  Nil = Nil  Missing = Missing  NoGrant = NoGrant  Absent = Absent
  t1 = t1  t2 = t2
  DepHosts = {a1, a2}
  DepTasks = {t1, t2}
  DepAttempts = {b1, b2}
  DepCandidates = {k1, k2}
  MembersOf <- TwoPairs
  Proposals <- EdgesAndCircle
  MaxMoves = 1
  Configurations = {c1, c2}
  Selections = 2
  MaxAttempts = 2
  Freshness = 1
  Horizon = 1
  Hosts = {a1, a2}
  EffectRequests = {1}
  MaxMain = 2
  MaxTime = 1
  Budget = 1
  Roles = {"supervisor"}
  MaxTries = 2
  NativeFailures = {"sandbox-or-approval-denied"}
  Observed <- FormatAndSelfReport
  Seals = {1, 2}
  DenialCommands = {b1, b2}
SYMMETRY Anonymous
CHECK_DEADLOCK FALSE
INVARIANTS
  TurnsAreNotRepeated ServedGraphIsReviewed
  DispatchedOnFreshHealth
  EffectsStayDebited
  StopsHoldUntilLifted
