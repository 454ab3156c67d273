SPECIFICATION Spec
CONSTANTS
    Job = {j1, j2, j3}
    Nobody = Nobody
    StaleAfter = 2
    Period = 1
    MaxKills = 0
INVARIANTS OneOwner
CHECK_DEADLOCK FALSE
