SPECIFICATION FairSpec
CONSTANTS
    c1 = c1
    c2 = c2
    r1 = r1
    r2 = r2
    Creators = {c1, c2}
    Removers = {}
    Runtime <- AllAuto
    Replicas <- OneReplica
    Config <- AllDefault
    Cancellable = {c1}
    WorkingRuntimes = {"containerd"}
    Installed = "none"
    MaxFaults = 0
    MaxNoise = 0
    MaxDisruptions = 1
CHECK_DEADLOCK FALSE
INVARIANTS BootSawReady
PROPERTIES ImplementsService Converges 
