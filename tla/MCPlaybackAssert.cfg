CONSTANTS
    MaxFrame = 2
    MaxCalls = 4
SPECIFICATION Spec
INVARIANT KnownTypes
CHECK_DEADLOCK FALSE
