SPECIFICATION MCSpec
CONSTANTS
    None = None
    p1 = p1
    p2 = p2
    ann = ann
    bob = bob
    c1 = c1
    c2 = c2
    Processes = {p1, p2}
    OwnerOf <- RivalOwners
    Gates = {"dependency-graph", "ci"}
    LocalGates = {"dependency-graph"}
    GraphGate = "dependency-graph"
    Commits = {c1, c2}
    Policies = {"old", "new"}
    ActivatedAt <- LaterReceipt
    Reports <- MixedReports
    SourceCount <- OneThenTwoSources
    MaxEpoch = 2
    IsolatedValues = {TRUE}
    MaxLineage = 2
    MaxGraph = 1
SYMMETRY AnyCommit
INVARIANTS
    EvidenceBelongsToSeal
    HandoffIsWhatWasValidated
PROPERTIES
    BlockIsNotOutvoted
