SPECIFICATION Spec
CONSTANTS
    Proc = {p1, p2, p3}
    Block = {b1, b2, b3, b4}
    Value = {v1, v2}
    Buf = {f1, f2, f3}
    Desc <- Descriptors
    FirstFree <- Lowest
    None = None
    InitDisk <- Blank
    MaxPinned = 1
    MaxChanges = 1
CHECK_DEADLOCK FALSE
INVARIANTS
    BuffersInUse
    DescriptorsAccounted
    SleepersAwaited
    WritesReachDisk
PROPERTY BlockStoreSpec
SYMMETRY Symmetry
