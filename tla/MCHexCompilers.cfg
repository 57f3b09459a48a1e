CONSTANTS
    Input <- MCInput
    MaxFailuresC = 1
    MaxFailuresAsm = 0
SPECIFICATION Spec
INVARIANTS TypeOK Interchangeable
PROPERTIES ImplementsHex ImplementsHexAsm
CHECK_DEADLOCK FALSE
