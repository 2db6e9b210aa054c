SPECIFICATION Spec
CONSTANTS
    Pid = {c1, c2}
    NoPid = NoPid
    MaxJobs = 2
    Keyboard = {}
CHECK_DEADLOCK FALSE
INVARIANT ReapsAllZombies
