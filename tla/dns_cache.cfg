SPECIFICATION FairSpec
CONSTANTS
    Thread = {t1, t2}
    Key = {k1, k2, k3}
    Ttl = 1
    MaxSize = 2
    MaxTime = 2
    MaxCalls = 4
    None = None
CHECK_DEADLOCK FALSE
INVARIANT Bounded
PROPERTIES HitIsFresh NobodyBlocks
