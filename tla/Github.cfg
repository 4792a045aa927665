SPECIFICATION FairSpec
CONSTANTS
    Calls = {c1, c2}
    Abortable = {c1}
    MAX_RATE_LIMIT_RETRIES = 1
    Cap = 2
    MaxToken = 2
    MaxVersion = 2
INVARIANTS
    RequestsBounded
PROPERTIES
    PauseRespected
    FreshTokenKept
    AnswersAreCurrent
    Recovers
    CallsEnd
CHECK_DEADLOCK FALSE
