SPECIFICATION LedgerSpec
CONSTANTS
  None = None
  Identities <- RivalIdentities
  KeyOf <- MCKeyOf
  Digests = {"d1", "d2"}
  Fingerprints = {1, 2, 3, 4, 5, 6, 7, 8}
  BlockerClasses = {"policy-denied"}
  NextActionKinds = {"owner-review"}
  ArtifactKinds = {"plan"}
  Nobody = Nobody
  Processes = {p1, p2}
  Ledgers <- OldLedgers
  Canonical <- Keys
  MaxCrashes = 1
  Sources <- TwoSources
  Issues = {"issue"}
  MaxPages <- ThreePages
  MaxItems <- TwoItems
  Feeds <- TwoFeeds
  Graphs <- TwoGraphs
  NoGraph = NoGraph
  Blockers = {b1}
  First = First
  Last = Last
  MaxMoves = 2
INVARIANTS
  ReadyWasReviewed
  PopulatedLedgersUpgrade
  RunnableWorkIsUnambiguous RunnableWorkIsARoot SelectionSeesTheOwner ReadsStayInBounds
PROPERTIES
  OnlyConsistentLedgersUpgrade ObjectivesSurvive NoAuthorityIsManufactured
