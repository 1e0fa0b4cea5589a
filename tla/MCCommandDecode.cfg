SPECIFICATION Spec
CONSTANTS
    Lengths = {1, 2, 3, 5, 6, 256, 257, 258, 262}
    Firsts = {0, 1, 126, 127, 128, 195, 255}
    Keys = {0, 192, 195, 196, 198, 199, 200, 201, 202, 208, 225, 242, 248, 255}
    TxBound = 2
INVARIANTS
    EchoMatchesCommand
    GainInRange
    OnlyResetFaultsMisread
