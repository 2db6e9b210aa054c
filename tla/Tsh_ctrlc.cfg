SPECIFICATION Spec
CONSTANTS
    Pid = {c1}
    NoPid = NoPid
    MaxJobs = 1
    Keyboard = {"INT"}
CHECK_DEADLOCK FALSE
INVARIANT ShellSurvives
