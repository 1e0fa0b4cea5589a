SPECIFICATION ScanSpec
CONSTANTS
    TotLens = {34, 48, 1456, 1458, 1460, 1470, 1472, 1474, 1478, 1479, 1480, 1482,
               1490, 1491, 2950, 2952, 2953, 2954, 2960, 2962, 4432, 4436, 4440, 5000}
    Offsets = {32, 34, 40, 1438, 1454, 1456, 1462, 1464, 1470, 1472, 1474, 1478, 1480,
               2942, 2944, 2950, 2952, 2958, 4430, 4432, 4434, 4990, 4998}
    Bytes = {0, 1, 255}
    PacketsPerFrame = 3
    Unused = {0, 1}
    Surplus = {65537}
    Misread = {0, 5, 65535}
INVARIANTS
    MergedIsPeak
    NeverAbovePeak
    InsideBuffer
    SaturationSeen
