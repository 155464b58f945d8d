SPECIFICATION FairSpec
CONSTANTS
    n1 = n1
    n2 = n2
    n3 = n3
    p1 = p1
    p2 = p2
    a = a
    b = b
    c = c
    t1 = t1
    t2 = t2
    none = none
    Name = {n1, n2, n3}
    PodOf <- ThreeNames
    Local = {n1, n3}
    PoolOf <- Contended
    CIDR = {t1, t2}
    MaxAllocs = 2
    None = none
    Env = {"fail"}
    MaxEdits = 4
INVARIANTS
    LiveMapped
    KeptMapped
    NoStrays
    NeverMisrouted
PROPERTIES
    PodKindKept
    MappedInTheEnd
CHECK_DEADLOCK FALSE
