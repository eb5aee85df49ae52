SPECIFICATION Spec
CONSTANTS
    MaxNodes = 2
    MaxChanges = 1
CHECK_DEADLOCK FALSE
INVARIANTS TypeOK  LoadReachesAllNodes DockerLoadHasNode InputsInPlace FailureReleases
