SPECIFICATION Spec
CONSTANTS
  w1 = w1  w2 = w2
  clear = clear  blocked = blocked  owner = owner  f1 = f1  u1 = u1
  None = None
  PlanIds = {i1, i2}
  ReviewIds = {r1, r2}
  Threads = {w1, w2}
  Contents = {clear, blocked, owner}
  TrueBlocked = {blocked, owner}
  OwnerBlocked = {owner}
  Findings = {f1}
  FollowUps = {u1}
  c1 = c1  c2 = c2  i1 = i1  i2 = i2  r1 = r1  r2 = r2
  v1 = v1  t1 = t1  t2 = t2  b1 = b1  n1 = n1  k1 = k1  k2 = k2
  Nothing = Nothing
  Callers = {c1, c2}
  Repairers = {c2}
  Impls = {i1, i2}
  Reviews = {r1, r2}
  Commits = {1, 2}
  Tests = {t1, t2}
  Builds = {b1}
  Rounds = {1}
  Points = {n1}
  Candidates = {1, 2}
  ItemReviews = {v1}
  Remarks = {n1}
  OwnerCommands = {k1, k2}
  NoCommand = NoCommand
SYMMETRY Anonymous
CHECK_DEADLOCK FALSE
INVARIANTS
  ImplementedAsReviewed ReviewLedgersAgree
  AcceptanceIsCurrent FindingsAreWhole ObjectivesAgree
  DecidedOnce
