SPECIFICATION Safety
CONSTANTS
    SnatMaps = {"nat_config", "nat_map_tcp"}
    GcProgs = {"gc_nat_map_tcp"}
    RevMaps = {"dst_kind", "pod_nat_ports"}
    DaemonMode = "tcx"
    Gen = {1, 2, 3}
    Env = {"overlap", "load", "unload"}
    MaxCtl = 2
    MaxFaults = 0
CHECK_DEADLOCK FALSE
INVARIANT Exclusive
