SPECIFICATION FairSpec
CONSTANTS
    Sessions = {s1, s2}
    Watchers = {w1}
    Recoverers = {}
    Lasting = {w1}
    Reinstall = FALSE
    Masked = TRUE
    Stalls = FALSE
    MaxFaults = 2
    Null = Null
    Missing = Missing
    Nobody = Nobody
PROPERTY ProtectedWhileHeld
CHECK_DEADLOCK FALSE
