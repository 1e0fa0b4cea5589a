SPECIFICATION BootFairSpec
CONSTANTS
    PacketsPerFrame = 3
    TCP_WND = 12
    TCP_SND_QUEUELEN = 2
    CommandLens = {2, 6}
    TCP_SYNMAXRTX = 3
    Rto = 2
    MaxLead = 6
INVARIANTS
    WorkersSeeHandles
    HeapSuffices
    AssertOnlyWhileConnecting
    PcbReadLive
    StatusTruthful
    SlowAtHalfRate
PROPERTIES
    BootEnds
    TimersRun
    AttemptResolved
CHECK_DEADLOCK FALSE
