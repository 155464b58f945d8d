SPECIFICATION Spec
CONSTANTS
    n1 = n1
    n2 = n2
    n3 = n3
    p1 = p1
    p2 = p2
    a = a
    b = b
    c = c
    t1 = t1
    t2 = t2
    none = none
    Name = {n1, n2, n3}
    PodOf <- ThreeNames
    Local = {n1, n3}
    PoolOf <- Apart
    CIDR = {t1}
    MaxAllocs = 8
    None = none
    Env = {"fail", "restart"}
    MaxEdits = 6
INVARIANTS
    LiveMapped
CHECK_DEADLOCK FALSE
