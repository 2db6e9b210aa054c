SPECIFICATION Spec
CONSTANTS
    Thread = {t1, t2}
    Conn = {c1, c2, c3}
    None = None
    Uri = {u1, u2}
    SBUFSIZE = 2
    MAX_CACHE_SIZE = 1
    MAX_OBJECT_SIZE = 1
    Sizes = {1, 2}
CHECK_DEADLOCK FALSE
INVARIANTS
    TypeOK
    HeldOnce
    CacheBound
PROPERTIES QueueSpec Served
