SPECIFICATION ScanSpec
CONSTANTS
    TotLens = {48, 1458, 1460, 2950}
    Offsets = {32, 40, 1438}
    Bytes = {0, 255}
    PacketsPerFrame = 3
    Unused = {0}
    Surplus = {1}
    Misread = {0, 5, 65535}
INVARIANTS
    FieldsInPlace
