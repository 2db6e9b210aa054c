SPECIFICATION Spec
CONSTANTS
    p1 = p1
    p2 = p2
    p3 = p3
    Proc = {p1, p2, p3}
    InitProc = p1
    NoProc = NoProc
    NoPage = NoPage
    NoSlot = NoSlot
    NPages = 11
    Page <- MCPage
    Value = {0, 1}
    Zero = 0
    Junk = Junk
    Candidates <- MCCandidates
    MaxVA = 1
    TableOf <- OneTable
    InitSz = 1
    InitGuard <- NoGuard
    BootPage <- MCBootPage
CHECK_DEADLOCK FALSE
VIEW UpToPageNames
SYMMETRY Symmetry
INVARIANTS
    RefCountExact
    NoUseAfterFree
    WritableExclusive
PROPERTY PrivateMemorySpec
