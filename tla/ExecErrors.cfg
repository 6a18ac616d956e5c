SPECIFICATION Spec
CONSTANTS
    ADDRESSES = 4
    MaxLen = 3
    WriteData = {d1, d2}
    MaxAtSlave = 2
    MayErr = TRUE
INVARIANT HostKnowsAddressSet
PROPERTY ReadsExactly
