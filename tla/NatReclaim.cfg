SPECIFICATION FairSpec
CONSTANTS
    p1 = p1
    s1 = s1
    e1 = e1
    e2 = e2
    c1 = c1
    c2 = c2
    Pod = {p1}
    Server = {s1}
    PodPort = {2}
    Proto = {"tcp", "udp"}
    M = 8
    Lists <- OneBlock
    PortTries = 2
    EntryTries = 2
    MaxEntries = 8
    Stale = 1
    U = 16
    CPU = {c1}
    Sweeps = TRUE
    MaxClock = 3
    LastPacket = 1
PROPERTIES
    AnyReclaimed
    ClosingReclaimed
