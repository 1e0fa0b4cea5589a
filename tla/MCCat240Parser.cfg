SPECIFICATION Spec
CONSTANTS
    DataLens = {2, 3, 4, 9, 300}
    BlockLens = {2, 3, 4, 5, 7, 9, 12, 40, 290, 400}
    Reps = {0, 1, 3}
    SizeMod = 65536
INVARIANTS
    CursorInside
    VideoInside
