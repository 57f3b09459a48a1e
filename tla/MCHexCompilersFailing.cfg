CONSTANTS
    Input <- MCInput
    MaxFailuresC = 0
    MaxFailuresAsm = 1
SPECIFICATION Spec
INVARIANTS OutputSound
CHECK_DEADLOCK FALSE
