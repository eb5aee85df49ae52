SPECIFICATION Spec
CONSTANTS
    MaxReplicas = 2
CHECK_DEADLOCK FALSE
INVARIANTS LoadsIntoRuntime
