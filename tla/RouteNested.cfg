CONSTANTS
    n1 = n1
    n2 = n2
    x = x
    y = y
    z = z
    None = None
    Name <- MCName
    CIDR <- MCCIDR
    Bad <- MCBad
    Keys <- MCNested
    Configs <- MCConfigs
    MaxEdits = 3
    MaxFaults = 0
SPECIFICATION Safety
CHECK_DEADLOCK FALSE
INVARIANT SettledServed
