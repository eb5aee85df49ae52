SPECIFICATION FairSpec
CONSTANTS
    c1 = c1
    c2 = c2
    r1 = r1
    r2 = r2
    Creators = {c1}
    Removers = {}
    Runtime <- AllAuto
    Replicas <- OneReplica
    Config <- AllDefault
    Cancellable = {}
    WorkingRuntimes = {"containerd"}
    Installed = "none"
    MaxFaults = 1
    MaxNoise = 0
    MaxDisruptions = 0
CHECK_DEADLOCK FALSE
PROPERTIES Converges
