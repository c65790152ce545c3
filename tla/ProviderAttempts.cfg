SPECIFICATION MCSpec
CONSTANTS
    None = None
    a1 = a1
    a2 = a2
    a3 = a3
    s1 = s1
    t1 = t1
    e1 = e1
    AttemptIds = {a1, a2, a3}
    Roles = {"worker", "supervisor"}
    Sessions = {s1}
    Turns = {t1}
    Evidence = {e1}
    Expiries = {1, 2}
    Coordinates <- SmallCoordinates
    RetryLimits = {1, 2}
    MaxTime = 2
SYMMETRY Anonymous
INVARIANTS
    CoordinatesAreGapless
PROPERTIES
    AmbiguousTurnIsNotCompleted
