SPECIFICATION Spec
CONSTANTS
    Procs = {p1, p2}
    Hosts = {"systemd"}
    MaxOps = 3
    MaxFaults = 0
    SlowHolders = TRUE
SYMMETRY CommandLines
INVARIANT OneOperation
CHECK_DEADLOCK FALSE
