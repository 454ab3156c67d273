SPECIFICATION Spec
CONSTANTS
    Sources <- MCSources
    Configs <- MCConfigs
    Walls = {1}
    MaxPhases = 3
    MaxSubmits = 1
    MaxFaults = 1
    None = None
CHECK_DEADLOCK FALSE
INVARIANT LostNodeNotJudged
