SPECIFICATION LoopSpec
CONSTANTS
    NumRepos = 2
    NumFlavors = 2
    Slots = {s1, s2}
    MaxConcurrent = 2
    MaxActiveJobs = 1
    FlavorCap <- CapTwoFlavors
    MaxQueued = 1
    MaxJobs = 2
    MaxFaults = 1
    MaxOrphans = 0
PROPERTIES
    StopsEventually
    DemandServed
CHECK_DEADLOCK FALSE
