SPECIFICATION Spec
CONSTANTS
    p1 = p1  p2 = p2  a = a  b = b  g1 = g1  g2 = g2  g3 = g3  t1 = t1  None = None
    Pod = {p1, p2}
    IP = {a, b}
    Block = {0, 1, 2}
    Counts = {1, 2}
    Targets = {t1}
    Configs <- EitherPool
    Exclude <- NoExclude
    Gen = {g1, g2, g3}
    MaxLag = 1
    MaxOps = 4
    Env = {"delete", "resize", "edit", "crash", "api_error"}
INVARIANTS Served Accounted
SYMMETRY PodSymmetry
CHECK_DEADLOCK FALSE
