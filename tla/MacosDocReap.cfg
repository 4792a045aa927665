SPECIFICATION Spec
CONSTANTS
    Names = {m1}
    MaxConcurrent = 1
    MaxFaults = 0
    Nobody = Nobody
INVARIANT ReapedIsDown
CHECK_DEADLOCK FALSE
