SPECIFICATION Spec
CONSTANTS
    p1 = p1  p2 = p2  a = a  b = b  g1 = g1  g2 = g2  g3 = g3  t1 = t1  None = None
    Pod = {p1, p2}
    IP = {a, b}
    Block = {0, 1}
    Counts = {1, 2}
    Targets = {t1}
    Configs <- Anything
    Exclude <- ExcludeOne
    Gen = {g1, g2, g3}
    MaxLag = 1
    MaxOps = 3
    Env = {"delete", "recreate", "resize", "edit", "grow", "grow_racing",
           "shrink", "delete_config", "delete_npr", "resync", "crash",
           "crash_releasing", "api_error", "release_error", "lost_reply"}
INVARIANTS TypeOK PodRangesDisjoint CleanEverywhere
CHECK_DEADLOCK FALSE
