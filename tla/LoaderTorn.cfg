SPECIFICATION Spec
CONSTANTS
    SnatMaps = {"nat_config", "nat_map_tcp"}
    GcProgs = {"gc_nat_map_tcp"}
    RevMaps = {"dst_kind", "pod_nat_ports"}
    DaemonMode = "tcx"
    Gen = {1, 2, 3}
    Env = {"crash", "unload"}
    MaxCtl = 1
    MaxFaults = 2
CHECK_DEADLOCK FALSE
PROPERTY RecoversTorn
