SPECIFICATION FairSpec
CONSTANTS
    Names = {c1}
    MaxFaults = 3
INVARIANTS
    StoppedIsDown
PROPERTIES
    ReapSparesLaunches
    LaunchesEnd
CHECK_DEADLOCK FALSE
