CONSTANTS
    n1 = n1
    n2 = n2
    x = x
    y = y
    z = z
    None = None
    Name <- MCName
    CIDR <- MCCIDR
    Bad <- MCBad
    Keys <- MCKeys
    Configs <- MCConfigs
    MaxEdits = 3
    MaxFaults = 1
SPECIFICATION Spec
CHECK_DEADLOCK FALSE
INVARIANT TypeOK
INVARIANT SettledServed
INVARIANT Ledger
INVARIANT NoStrays
PROPERTY Converges
