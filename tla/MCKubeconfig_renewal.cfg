SPECIFICATION Spec
CONSTANTS
    t1 = t1
    t2 = t2
    None = None
    Target <- MCTarget
    Period = 1
    Lifetime = 12
    Shortest = 7
    Delay = 2
INVARIANTS
    TypeOK
    NeverExpired
    MisfitIsBounded
