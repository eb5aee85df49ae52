SPECIFICATION Spec
CONSTANTS
    MaxReplicas = 2
CHECK_DEADLOCK FALSE
INVARIANTS TypeOK UserRuntimeKept RootlessTouchesNoNode LabelledRuntimeMounted
PROPERTIES  FlipIsAccepted
