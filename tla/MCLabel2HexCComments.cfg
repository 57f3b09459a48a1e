CONSTANTS
    Input <- MCInput
    NameSize = 8
    HeapSize = 48
SPECIFICATION Spec
INVARIANTS CommentsDisappear
CHECK_DEADLOCK FALSE
