SPECIFICATION Spec
CONSTANTS
    NProc = 3
    NCpu = 3
PROPERTIES ExitCompletes OrphansReaped
INVARIANTS
    OneCpuPerStack
    SchedLocks
    NoForgottenZombie
    NoOrphans
