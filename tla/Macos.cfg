SPECIFICATION FairSpec
CONSTANTS
    Names = {m1, m2}
    MaxConcurrent = 1
    MaxFaults = 1
    Nobody = Nobody
INVARIANTS
    LeavesNoVm
    HostCap
PROPERTIES
    ReapSparesJobs
    ReapClears
    LaunchesEnd
CHECK_DEADLOCK FALSE
