SPECIFICATION Spec
CONSTANTS
    p1 = p1  p2 = p2  a = a  b = b  g1 = g1  g2 = g2  g3 = g3  t1 = t1  None = None
    Pod = {p1, p2}
    IP = {a}
    Block = {0, 1}
    Counts = {1}
    Targets = {t1}
    Configs <- OneIP
    Exclude <- NoExclude
    Gen = {g1, g2, g3}
    MaxLag = 1
    MaxOps = 8
    Env = {"delete", "release_error"}
INVARIANTS Exclusive
SYMMETRY PodSymmetry
CHECK_DEADLOCK FALSE
