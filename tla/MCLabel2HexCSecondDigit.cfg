CONSTANTS
    Input <- MCInput
    NameSize = 8
    HeapSize = 48
SPECIFICATION Spec
INVARIANTS CaughtLater
CHECK_DEADLOCK FALSE
