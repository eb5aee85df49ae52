SPECIFICATION FairSpec
CONSTANTS
    Nodes = 2
    Chunks = 2
    Scenarios <- DockerContainerdAndFile
    Messages = 1
    Command = "build"
    MaxLogs = 1
    MaxFailed = 1
    Writers <- AllWriters
CHECK_DEADLOCK FALSE
INVARIANTS TypeOK PanicsAfterFailedSolve NoLoadLeftBehind NothingLost ResultOnSuccess DrainedBeforeError
PROPERTIES BuildReturns CancelledBootReturns
