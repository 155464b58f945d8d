SPECIFICATION Spec
CONSTANTS
    NC = {"p"}
    IP = {"a", "b"}
    Note = {2, 9}
    MaxInt32 = 4
    None = None
    Env = {"recreate", "relabel", "annotate", "natconfig", "restart", "fail"}
    MaxEdits = 6
    MaxFaults = 1
CHECK_DEADLOCK FALSE
INVARIANT Reconciled
PROPERTY IsLease
PROPERTY Settles
