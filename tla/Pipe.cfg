SPECIFICATION PipeSpec
CONSTANTS
    NProc = 3
    NCpu = 2
    PipeSize = 1
    MaxWrite = 2
INVARIANTS
    PipeTypeOK
    WriterAwake
    NoUseAfterFree
CHECK_DEADLOCK FALSE
PROPERTY OnlyKillStrands
