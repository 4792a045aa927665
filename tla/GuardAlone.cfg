SPECIFICATION FairSpec
CONSTANTS
    Sessions = {s1, s2}
    Watchers = {w1, w2}
    Recoverers = {}
    Lasting = {w1}
    Reinstall = FALSE
    Masked = FALSE
    Stalls = TRUE
    MaxFaults = 2
    Null = Null
    Missing = Missing
    Nobody = Nobody
INVARIANTS
    GivenBack
PROPERTIES
    ImplementsPolicy
    RestoredEventually
CHECK_DEADLOCK FALSE
