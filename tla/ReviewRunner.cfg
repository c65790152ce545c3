SPECIFICATION CrewSpec
CONSTANTS
    p1 = p1
    p2 = p2
    Runners = {p1, p2}
    Kinds <- CorrectThenFallBack
    MaxCrashes = 2
    MaxStops = 2
    MaxReleases = 2
CHECK_DEADLOCK FALSE
INVARIANTS
    EffectsArePaid
    LoneDebitsAreOwned
    LonePreparedIsResumable
PROPERTIES
    LoneRestartsFinish
