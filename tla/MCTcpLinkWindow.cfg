SPECIFICATION Spec
CONSTANTS
    TCP_WND = 12
    TCP_SND_QUEUELEN = 2
    CommandLens = {2, 3, 6}
    TCP_SYNMAXRTX = 6
    Rto = 6
INVARIANTS
    WindowReopens
CHECK_DEADLOCK FALSE
