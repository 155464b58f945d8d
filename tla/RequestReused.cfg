SPECIFICATION Spec
CONSTANTS
    NC = {"p"}
    IP = {"a", "b"}
    Note = {2}
    MaxInt32 = 4
    None = None
    Env = {"recreate"}
    MaxEdits = 6
    MaxFaults = 0
CHECK_DEADLOCK FALSE
INVARIANT RightAddress
