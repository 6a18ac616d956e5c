SPECIFICATION Spec
CONSTANTS
    LGMEMLEN = 1
    LATENCY = 2
    Memory <- TheMemory
    Junk <- TheJunk
    W = 2
    RAM <- TheRAM
    StackWord = 6
    RomImage = 9
    Zero <- TheZero
    Dividends = {1, 7, 12}
    Divisors = {0, 1, 3, 4}
    Space = 3
    Files <- Programs
    RESET_ADDRESS = 8
    RESET_DURATION = 3
    CodeByte = "c"
    RCBITS = 1
    BombClocks = 2
    MaxResets = 1
    MaxErrors = 1
INVARIANTS MainSeesImage EndsWithMain
PROPERTIES LeavesTheRest SimEnds
