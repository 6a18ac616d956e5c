SPECIFICATION Spec
CONSTANTS
    MaxOut = 2
    MaxIn = 1
    Sessions = 1
    BAUD = 3
    NBITS = 2
    BUFLEN = 2
CHECK_DEADLOCK FALSE
INVARIANTS
    ProgramsGetARun
    BoardGetsInOrder
PROPERTIES
    CloseReturns
    WrittenArrives
