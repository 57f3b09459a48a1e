CONSTANTS
    Input <- MCInput
    ChainInput <- MCChainInput
    Capacity = 2
    BufferSize = 3
    MaxName = 7
    PastEnd = {0, 97}
SPECIFICATION Spec
INVARIANTS CompilesMacros RejectsBroken CompilesChain LastStageDecides
PROPERTIES Ends
CHECK_DEADLOCK FALSE
