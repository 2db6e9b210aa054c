SPECIFICATION Spec
CONSTANTS
    Pid = {c1, c2}
    NoPid = NoPid
    MaxJobs = 2
    Keyboard = {"INT", "TSTP"}
CHECK_DEADLOCK FALSE
SYMMETRY Symmetry
INVARIANTS
    TypeOK
    AtMostOneForeground
    PromptHasNoForeground
    JobListIsChildren
    BackgroundUndisturbed
