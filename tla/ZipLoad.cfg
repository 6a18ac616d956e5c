SPECIFICATION Spec
CONSTANTS
    b = b
    Bits = {b}
    PGLENB = 4
    NPAGES = 2
    NSECTORS = 2
    WORD = 2
    UninitLen = {0, 1, 2, 3, 5, 6, 8}
    StaleWords <- Stale
    Verify = TRUE
    Files <- SixFiles
    RAMLEN = 4
    RESET_ADDRESS = 0
    Images <- ThreeImages
    MaxRuns = 2
INVARIANTS LoadedUnlessShort RunsFromFlash
PROPERTY LoadEnds
