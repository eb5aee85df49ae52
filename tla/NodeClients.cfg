SPECIFICATION FairSpec
CONSTANTS
    Names <- FourNames
    Preferred <- SomeRing
    k1 = k1
    k2 = k2
    Closers = {k1, k2}
    Messages = 2
CHECK_DEADLOCK FALSE
INVARIANTS TypesOK OnlyRunningPods OneStreamPerNode CloseClosesBoth
PROPERTIES CloseReleases ImplementsConnection
