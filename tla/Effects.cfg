SPECIFICATION EffectsSpec
CONSTANTS
  None = None  Absent = Absent  Vacant = Vacant
  i1 = i1  i2 = i2  k1 = k1  r1 = r1  r2 = r2  y1 = y1  y2 = y2
  Intents = {i1, i2}
  Keys = {k1}
  KeyOf <- SharedKey
  Window = 2
  MaxClock = 3
  Callers = {a1, a2}
  Resources = {x}
  Limit <- OneCreate
  TotalCalls = 2
  MaxRestarts = 1
  Workers = {a1, a2}
  MaxSteps = 2
  SdkTurns = {"fresh", "same"}
  MaxDeaths = 2
  MaxDenials = 2
  Qualifiers = {a1, a2}
  Requests = 3
  MaxEnds = 2
  Coordinators = {a1, a2}
  Receipts = {r1, r2}
  IdentityOf <- NamedBy
  ExpiryOf <- Expiries
  Handoffs = {h1}
  Evidence = {i1, i2}
  EvidenceFor = 1
  Children = {p1}
  LeaseFor = 1
  StaleAfter = 1
  MaxNow = 1
SYMMETRY Anonymous
CHECK_DEADLOCK FALSE
INVARIANTS
  OneEffect
  EffectsWithinBudget
  EffectsHappenOnce StopTakesHold OutsideIsOnRecord
  TurnsAreBacked
PROPERTIES
  ReceiptIsObserved
  StopsWinOverAcceptance
  EvidenceNamesTheOwner RetiredReceiptsAdmitNothing
