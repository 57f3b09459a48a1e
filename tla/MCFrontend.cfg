CONSTANTS
    Start <- MCStart
    Writable <- MCWritable
    MaxInt = 999
    Overflowed <- MCOverflowed
SPECIFICATION Spec
INVARIANTS OpensFiles TokensCorrect TokenPositions CharacterPositions ParsesGrammar
PROPERTIES Ends
CHECK_DEADLOCK FALSE
