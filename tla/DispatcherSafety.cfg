SPECIFICATION Spec
CONSTANTS
    NumRepos = 2
    NumFlavors = 2
    Slots = {s1, s2}
    MaxConcurrent = 3
    MaxActiveJobs = 2
    FlavorCap <- CapTwoFlavors
    MaxQueued = 1
    MaxJobs = 2
    MaxFaults = 1
    MaxOrphans = 0
SYMMETRY SlotSymmetry
INVARIANTS
    CountersAgree
    NothingLeftBehind
    ReapedAreGone
PROPERTIES
    DampedByDemand
    SparesRunningJobs
    ImplementsPool
    MintsOnlyPrivate
CHECK_DEADLOCK FALSE
