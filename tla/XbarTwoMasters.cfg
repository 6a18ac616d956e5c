SPECIFICATION FairSpec
CONSTANTS
    NM = 2
    NS = 2
    a0 = a0
    b0 = b0
    n0 = n0
    Request = {a0, b0, n0}
    NoRequest = NoRequest
    SlaveOf <- DecodeTwo
    MaxPending = 3
    OPT_TIMEOUT = 0
    OPT_STARVATION_TIMEOUT = FALSE
    Latency <- OnePipelined
    MaySlaveErr <- FirstSlave
    MaxOut <- TwoAndOne
    MayReset = FALSE
INVARIANTS GrantsAgree OutstandingAgree NoStaleAnswer
PROPERTIES ImplementsSwitch LastMasterServed
