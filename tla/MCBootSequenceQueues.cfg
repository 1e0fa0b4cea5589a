SPECIFICATION BootSpec
CONSTANTS
    PacketsPerFrame = 10
    TCP_WND = 12
    TCP_SND_QUEUELEN = 2
    CommandLens = {2, 6}
    TCP_SYNMAXRTX = 6
    Rto = 6
    MaxLead = 4
INVARIANTS
    QueuesExist
CHECK_DEADLOCK FALSE
