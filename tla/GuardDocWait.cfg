SPECIFICATION FairSpec
CONSTANTS
    Sessions = {s1}
    Watchers = {w1}
    Recoverers = {}
    Lasting = {}
    Reinstall = FALSE
    Masked = FALSE
    Stalls = FALSE
    MaxFaults = 0
    Null = Null
    Missing = Missing
    Nobody = Nobody
PROPERTY ProtectedWhileHeld
CHECK_DEADLOCK FALSE
