SPECIFICATION Spec
CONSTANTS
    c1 = c1
    c2 = c2
    r1 = r1
    r2 = r2
    Creators = {c1, c2}
    Removers = {}
    Runtime <- AutoAndDocker
    Replicas <- OneAndTwo
    Config <- CustomAndDefault
    Cancellable = {}
    WorkingRuntimes = {"containerd"}
    Installed = "none"
    MaxFaults = 1
    MaxNoise = 0
    MaxDisruptions = 0
CHECK_DEADLOCK FALSE
INVARIANTS TypeOK ConfigMapFirst
 
