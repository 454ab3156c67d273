SPECIFICATION FairSpec
CONSTANTS
    h1 = h1
    None = None
    Thread = {t1, t2}
    Host = {h1}
    Row = {1, 2}
    HostOf <- MCHostOf
    Conn = {c1, c2, c3}
    MaxPerHost = 1
    Timeout = 1
    Retries = 1
    Redirects = 1
CHECK_DEADLOCK FALSE
INVARIANTS NoUnreadReused OneUserEach AttemptInTime WaitBudget
PROPERTIES EveryRowEnds
