SPECIFICATION Spec
CONSTANTS
    SnatMaps = {"nat_config", "nat_map_tcp"}
    GcProgs = {"gc_nat_map_tcp"}
    RevMaps = {"dst_kind", "pod_nat_ports"}
    DaemonMode = "tcx"
    Gen = {1, 2, 3, 4, 5}
    Env = {"fault", "crash", "load", "unload"}
    MaxCtl = 3
    MaxFaults = 3
CHECK_DEADLOCK FALSE
INVARIANT Exclusive
INVARIANT Complete
INVARIANT FilledAttached
PROPERTY DaemonKeeps
PROPERTY Recovers
