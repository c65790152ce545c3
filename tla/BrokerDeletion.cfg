SPECIFICATION Spec
CONSTANTS
    None = None
    i1 = i1
    i2 = i2
    k1 = k1
    Intents = {i1, i2}
    Keys = {k1}
    KeyOf <- SharedKey
    Window = 2
    MaxClock = 3
PROPERTIES
    DeletionIsObserved
