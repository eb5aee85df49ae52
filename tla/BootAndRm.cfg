SPECIFICATION Spec
CONSTANTS
    c1 = c1
    c2 = c2
    r1 = r1
    r2 = r2
    Creators = {c1, c2}
    Removers = {r1}
    Runtime <- AllAuto
    Replicas <- OneReplica
    Config <- AllDefault
    Cancellable = {}
    WorkingRuntimes = {"containerd"}
    Installed = "none"
    MaxFaults = 0
    MaxNoise = 1
    MaxDisruptions = 0
CHECK_DEADLOCK FALSE
SYMMETRY CreatorSymmetry
INVARIANTS RmCleansUp
PROPERTIES FlipsAreJustified
