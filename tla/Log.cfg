SPECIFICATION Spec
CONSTANTS
    Op = {o1, o2, o3}
    Block = {b1, b2}
    Boot = Boot
    NoBlock = NoBlock
    MaxOpBlocks = 3
    OpWrites = 2
    LogSize = 6
    Nlog = 6
    MaxCrash = 2
CHECK_DEADLOCK FALSE
INVARIANTS
    Durability
    NoMissedWakeup
    NoPanic
PROPERTIES
    AtomicDiskSpec
    Admitted
