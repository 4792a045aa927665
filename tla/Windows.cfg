SPECIFICATION FairSpec
CONSTANTS
    Procs = {p1}
    Users = {p1, p2}
    MaxFaults = 3
    Nobody = Nobody
    Old = Old
    Hand = Hand
INVARIANTS
    SharesWhole
PROPERTIES
    LeavesNoSandbox
    ReapSparesJobs
    StaleNeverBlocks
    LaunchesEnd
CHECK_DEADLOCK FALSE
