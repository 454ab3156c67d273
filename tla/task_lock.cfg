SPECIFICATION FairSpec
CONSTANTS
    Job = {j1, j2}
    Nobody = Nobody
    StaleAfter = 2
    Period = 1
    MaxKills = 3
INVARIANTS UnrobbedOwnerHoldsLock
PROPERTIES LiveClaimNeverJudgedStale StrandedTaskReclaimed
CHECK_DEADLOCK FALSE
