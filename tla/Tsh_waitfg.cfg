SPECIFICATION Spec
CONSTANTS
    Pid = {c1}
    NoPid = NoPid
    MaxJobs = 1
    Keyboard = {}
CHECK_DEADLOCK FALSE
PROPERTY WaitfgReturns
