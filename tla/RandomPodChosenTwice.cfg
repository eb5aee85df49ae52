SPECIFICATION Spec
CONSTANTS
    Names <- FourNames
    Preferred <- SomeRing
CHECK_DEADLOCK FALSE
INVARIANTS EverySplits
