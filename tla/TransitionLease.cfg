SPECIFICATION LeaseSpec
CONSTANTS
    p1 = p1
    p2 = p2
    p3 = p3
    ann = ann
    bob = bob
    r1 = r1
    r2 = r2
    Processes = {p1, p2, p3}
    Owners = {ann, bob}
    OwnerOf <- MCOwnerOf
    Repositories = {r1, r2}
    Durations = {1, 2}
    MaxTime = 2
    MaxGeneration = 2
SYMMETRY Interchangeable
PROPERTIES
    ImplementsFencedLease
