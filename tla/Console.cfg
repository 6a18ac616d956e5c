SPECIFICATION MCSpec
CONSTANTS
    FLEN = 4
    Word = {w1, w2}
    ADDRESSES = 2
    MaxLen = 2
    WriteData = {d1}
    MaxAtSlave = 1
    WATCHDOG = 3
    IDepth = 2
    ODepth = 3
    Window = 2
    MayErr = {"write"}
    HostOps = {"addr", "read", "write", "eow"}
INVARIANTS AnswersFit ToldAfterReset NoRequestWhilePending
PROPERTY ImplementsQueue
