CONSTANTS
    Input <- MCInput
    NameSize = 8
    HeapSize = 48
    MaxName = 8
    PastEnd = {0, 97}
SPECIFICATION Spec
INVARIANTS HeapBound ComparesOnHeap  CompilesLabelsCpp RejectsUndefined Interchangeable
PROPERTIES Ends
CHECK_DEADLOCK FALSE
