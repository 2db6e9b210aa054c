SPECIFICATION Spec
CONSTANTS
    p1 = p1
    p2 = p2
    p3 = p3
    Proc = {p1, p2}
    InitProc = p1
    NoProc = NoProc
    NoPage = NoPage
    NoSlot = NoSlot
    NPages = 9
    Page <- MCPage
    Value = {0}
    Zero = 0
    Junk = Junk
    Candidates <- MCCandidates
    MaxVA = 2
    TableOf <- TablePerPage
    InitSz = 2
    InitGuard <- StackGuard
    BootPage <- MCBootPage
CHECK_DEADLOCK FALSE
VIEW UpToPageNames
INVARIANTS
    NoLeak
    NoPanic
