SPECIFICATION ClockSpec
CONSTANTS
    NM = 1
    NS = 2
    a0 = a0
    b0 = b0
    n0 = n0
    Request = {a0, b0}
    NoRequest = NoRequest
    SlaveOf <- DecodeSame
    MaxPending = 7
    OPT_TIMEOUT = 5
    OPT_STARVATION_TIMEOUT = FALSE
    Latency <- Handshaking
    MaySlaveErr <- FirstSlave
    MaxOut <- Nine
    MayReset = TRUE
INVARIANTS PendingFlagsAgree FullMeansStall
PROPERTY HungSlaveReported
